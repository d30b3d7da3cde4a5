# A TLA+ model of frame_app

`src/frame_app-v1.00` is a small slide show for the Linux framebuffer: a keyboard
pauses and resumes it, pictures are decoded from JPEG files and replace one
another by special effects.  Around the show there is a mouse cursor, a gallery
of thumbnails, a clock panel, text and shapes, some of them disabled at this
commit.  This directory holds TLA+ models of its core logic, the TLC
configurations that check them, and proofs that TLAPS checks.

All source paths below are relative to `src/frame_app-v1.00/`.  The rest of the
repository (FreeType 2.4.5 and libjpeg 8c as their projects released them, all but some
2,500 of its 225,000 lines, then binaries and pictures) is third-party code or data
and is not modelled; where the program depends on it, it is an external action or a constant: libjpeg may give any picture, make up what a file lacks, or exit, FreeType renders some
glyph or fails, `malloc` may fail, the kernel may deliver any input.

## 1. Inventory

| component | source | state | operations | what is hard |
|---|---|---|---|---|
| start-up | `main.c:114-143`, `fb.c:19-51` | `fb_inf` (w, h, bpp, mapping) | open and map the device, create two threads, join one that never ends | each step may fail, the creation of a thread unnoticed; the threads start one after the other |
| keyboard thread | `keyboard.c` | `flag_play`, `ev[64]`, `play_mut` | blocking `read()`, look at `ev[0]` and `ev[1]`, set `flag_play` under the mutex, `exit(0)` when the read fails | a read may bring less or more than one packet; `ev` is not initialized; the exit happens at any point of the other thread |
| picture thread | `play_picture.c` | its place in the cycle, the answer of `is_play` | show a picture, sleep a second, spin on `is_play` until it is not 0 | it spins on the mutex the keyboard needs; the answer is used after the unlock |
| effects | `disp-jpeg.c:18-381` | the mapped framebuffer | `special_*`: nine ways to replace the picture frame by frame | literals made for 1024 x 768, guards, integer division, odd corners; a pixel past the mapping that may end the process |
| picture pipeline | `jpeg.c`, `disp-jpeg.c:386-726` | three blocks per picture, a file, a decompressor | `decode_jpeg`, `scale24`, `rgb24to32`, paint, free | no result is checked, nor libjpeg's warnings; sizes narrowed to `short`; one read of an uninitialized width |
| mouse cursor | `main.c:21-112`, `mouse.c` | `m_x`, `m_y`, `save_cursor`, `left_button` | restore, move, save, draw, count clicks | other threads paint below the cursor; nothing locks the screen |
| gallery | `main.c:145-494` (disabled by `#if 0`) | `left_button`, thumbnails | wait for the pointer, for two clicks, go back | reads without the mutex, one coordinate after the other; waits for exactly 2 |
| clock panel | `clock.c` (not started) | text, saved background | save once, then restore and print for ever | a background saved once, one byte beyond each row; others draw meanwhile; `memset` past an array |
| font and text | `font.c` | FreeType handles | UTF-8 decoding, glyph drawing | 16-bit code points, truncated sequences, failure code of 1 against a test for `< 0` |
| shapes, bitmap, triangle | `draw.c`, `my_draw.c`, `disp_bmp.c`, `draw-triangle.c` | none | pixel loops | corners and off-by-one, products that outgrow an `int`; header fields that are not looked at; floating point in the triangle |

How they interact.  `main` passes `fb_inf` by address to the picture thread and
nothing to the keyboard thread.  The two share `flag_play` and `play_mut` and
the life of the process: whichever calls `exit` ends both.  The picture thread calls
a display function, which runs the pipeline and then an effect, which
writes the mapping directly or through `fb_pixel`.  The mouse thread, when
started, reads and writes the same mapping without a lock, and shares
`left_button`, `m_x` and `m_y` with the gallery.

What makes each correct:

- *keyboard and picture threads*: the answer of `is_play` is current while the
  mutex is held; a pause lets one more picture begin at most, and stops the drawing
  in the end; a command that was read is carried out although the other thread
  spins; in play mode every picture comes round; key presses that count are those
  that were read, and which of several counts is determined.
- *effects*: at the end each pixel shows the picture's pixel of that place;
  nothing is written outside the mapping; between frames what shows is what the
  effect means to show.
- *pipeline*: what is painted is the picture asked for, whole, in its colours as far as the
  file has them;
  blocks are not overrun; nothing stays held.
- *cursor*: it stays on the display, leaves no trail, gives back what was below it.
- *gallery*: two clicks open or close, none is used twice, clicking is never locked
  out; what is enlarged is what the pointer is on.
- *clock*: the panel shows the present time on its background and nothing else in the
  end; nothing beside it is touched.
- *text, shapes, bitmaps*: a string is displayed, each character by its own glyph, as far as
  the font goes and no further than it reaches; an outline has no gap; a bitmap is in its place and the right way up.
- *all of them on one display*: pictures replace one another whole, and however the process
  ends, what it leaves on the display are pictures.

`PROJECT.json` lists the hazards of all of these at their lines, with the
properties that catch each, or the reason why none does.

## 2. Modules

| module | models | checked with | proved in |
|---|---|---|---|
| `Screen` | abstract: what the display promises the person in front of it | as a property of `Show` | `ShowProofs` |
| `PauseControl` | abstract: what the show promises the person at the keyboard | as a property of `Slideshow` | `SlideshowProofs` |
| `Slideshow` | `main`, `keyboard.c`, `play_picture.c`: three threads, the mutex, the input queue | `MCSlideshow` | `SlideshowProofs` |
| `Transitions` | the nine effects of `disp-jpeg.c`, frame by frame | `MCTransitions` | `TransitionsProofs` |
| `Cursor` | the mouse thread, pixel by pixel, with other threads painting | `MCCursor` | `CursorProofs` |
| `Pictures` | the display functions with `jpeg.c`: from a file to the screen | `MCPictures` | `PicturesProofs` |
| `Show` | `Slideshow` composed with `Transitions` | `MCShow` | `ShowProofs` |
| `Gallery` | the gallery of `main.c` beside the mouse thread | `MCGallery` | `GalleryProofs` |
| `Clock` | `clock.c` beside the player and the cursor | `MCClock` | `ClockProofs` |
| `Drawings`, over `Shapes` and `Utf8` | `draw.c`, `my_draw.c`, `font.c`, `disp_bmp.c` | `MCDrawings` | `DrawingsProofs` |

`Show` composes `Slideshow` (by `EXTENDS`) and `Transitions` (by `INSTANCE`); the
others share no variables.  `Slideshow` takes one picture as one step that may fail
(`PlShow`, `PlShowFails`); `Pictures` says what happens within that step
up to the painting, `Transitions` within the painting.

### Slideshow

One action per step between which another thread can run:

| action | code |
|---|---|
| `MainInitFb`, `MainCreateKeyboard`, `MainCreatePlayer` (a thread may fail to come to be, unnoticed) | `fb.c:19-51`, `main.c:137-142` |
| `MainJoinsNobody` (the join of a player that is not there) | `main.c:143` |
| `KbOpen` (an `open` that fails is reported and ignored) | `keyboard.c:32-43` |
| `KbRead`, `KbReadFails` | `keyboard.c:45-58` and `perror_exit`, `handler` |
| `KbLock`, `KbStore`, `KbUnlock` | `keyboard.c:54-62` |
| `Key` (the kernel's queue, external) | one key is a packet of three events: scan code, key, separator |
| `PlShow`, `PlShowFails`, `PlSleep` | `play_picture.c:39-60` |
| `PlLock`, `PlTest` (the comparison with 1), `PlTestElse` (that with 0), `PlUnlock`, `PlReturn` | `is_play` (`play_picture.c:15-28`) and `while(!is_play());` |
| `Killed` | a frame wrote past the mapping (`disp-jpeg.c:195, 232-236, 265`): the process may die of it at any time |

`ev` holds `ev[0]` and `ev[1]` only, because no other entry is looked at.  Before the first
`read` it holds a member of `Garbage`.  Scan code 32, the constant `SPACE`
of `keyboard.c`, is what the D key sends.  The two comparisons of `is_play` are two steps, so that a
`flag_play` that changed between them would make it return -1 with the mutex locked.  `late` and `lead` are history variables:
the pictures begun since `flag_play` became 0 (counted to two, one more than the
property allows), and the last press of E or S that reached an empty queue.

`PauseControl` has no threads: a mode, a gate after each picture, and the two
steps "clear the gate" and "begin the next picture".  `Slideshow` implements it
under the mapping `mode <- flag_play`, `stage <- Stage`, `picture <- slide`,
`over <- ~running`, with its fairness (`ImplementsFairPauseControl`).

### Transitions

A pixel is its offset and `fb[k] = k` says that offset `k` shows the picture's own pixel.
A *job* is an effect with the literals of the code as fields; a frame is one turn
of the outer loop.  Writes within a frame are one step: the process may end
between any two frames.  A write outside the mapping extends the domain of
`fb`, so an overrun is visible and not an error of the model.  `WellFormed` says what the
literals must satisfy for an effect to do its work; TLC evaluates it for
the literals of the code on 1024 x 768 (`CodeJobs`).

### Cursor

Each pixel of the three loops `fb_restore_cursor`, `fb_save_cursor` and
`fb_draw_cursor` is a step, and between any two of them `Paint(c)` lets another
thread write a cell of `Region`.  A colour is the number of times the cell had
been painted, so that an old picture and a new one differ.  `overdrawn` is a
history variable: the cells last painted while the cursor held them.

### Pictures

A call goes through `Call`, `Open`, `Header`, `Row` (once per row), `Finish`,
`Scale`, `Convert`, twice if two pictures are mixed, then `Paint`
and `Free`.  Every step may fail as the code lets it: no file, a libjpeg error
(`LibjpegExit`), no memory, components the decoder does not handle.  No caller
looks at the result, so a failure goes on to the read through NULL that ends the process
(`Crash`).  Bytes of a picture are numbered by their place, so a block says
which byte of which place it holds.  `Narrow` and `Wrap` are the two
integer conversions, to `short` and to `int`.  The only uninitialized value,
`w` at `jpeg.c:39`, is any member of `Stack`.  A picture has a set of `lost` pixels, those the file, cut short or
damaged, says nothing of: libjpeg only warns of that (`jdatasrc.c:104-111`; `jpeg.c:53` replaces `error_exit` and nothing else),
makes them up (`MadeUp`), and they are scaled and painted with the rest.  A read outside a block may end the process until the call is over, a
write outside one at any later time (`Corrupted`).

### Show

In `Slideshow` a picture is one step.  Here it takes as long as in the code:
`Convert` (decoding, scaling and converting are done, the effect begins), one `Frame` per
turn of the effect, `Return`; `Fails`, the decoder's exit, may come before the first frame only.  A frame that
writes past the mapping, which ends with its last page (`fb.c:40`), may kill the process with any part of the frame
on the display (`Fault`), or spoil what ends it later (`Corrupted`); `spilt` remembers that there was one.  Everything
else (`Elsewhere`) is `Slideshow`'s own, at any time, so that a command or the exit of the
keyboard thread falls between any two frames.  `screen` says of each cell which picture of the
cycle it shows and which pixel of it.  `Screen`, the abstract specification, knows
pictures and cells only: one picture begins when the one before is whole, and takes cell
after cell without giving one back; the mapping is `shown` <- the pictures of the cells,
`picture` <- `slide`, `whole` <- the player is not in a display function.

### Gallery

The lines 149-494 as they run when the `#if 0` is taken away, and with it what stands between the threads'
creation and the label `start`: the join of line 143, which never returns, and lines 146-148, a display of two mixed pictures and a `while(1);`.
Taking away the `#if 0` alone never reaches `start`; the gallery modelled here has more behaviours than that program.  The six thumbnails' code
is six times the same with other literals, so one set of actions has the thumbnail `at` as a
parameter.  Every access to what the two threads share is a step: each of the four comparisons
that place the pointer (`TestPointer`), each of the two additions and of the two
clamps of the mouse thread (`MoveX` to `ClampX`), the load and the store of
`left_button++`, every test and reset of `left_button`, each lock and unlock of
`button_mut`.  `left_button` counts to three, which stands for any more: nothing in the
code tells them apart.  `fresh` is a history variable: clicks since the last reset.

### Clock

One row of the panel stands for all, in bytes, because the loops that save and restore
it count bytes and take one too many.  The player may paint any pixel of it between any two bytes,
the cursor may be put anywhere and lifted again.  A byte says what it belongs to: a
picture, the frame, the cursor's arrow, this second's text or an earlier one's.

### Drawings, Shapes, Utf8

A behaviour is one call.  `Shapes` has the pixels that each loop nest hands to
`fb_pixel`, with products that wrap as an `int` does where they may outgrow it (in the
ellipse); `Utf8` the decoder, with its 16 bits, and the standard's encoding as the reference.
In `Drawings` a shape is one step, a string one step per character (the font is a
constant: for some codes a glyph in each of two sizes, because the first character displayed
changes the size for those after it), a bitmap one step per row; a byte of the file is its
position.  `fb` is indexed by offsets, as in the code, so a pixel beyond the right edge lands
on the next line and a bitmap that is too large leaves the mapping (`Fault`).

## 3. What the runs check

| run | question | bounds |
|---|---|---|
| `slideshow` | types, `AnswerIsCurrent`, `PauseStopsShow`, `LeadPressDecides`, `ImplementsPauseControl`; under fairness `CommandCarriedOut`, `PauseTakesHold`, `ShowGoesOn`, `ImplementsFairPauseControl` | 2 pictures, keys E, S, D, queue of 6 events, whole packets, arbitrary `ev` |
| `garbage` (violated) | `ActsOnReadEventsOnly` when a read may return any prefix of the queue and `ev` is what the stack left | 2 pictures, queue of 6 |
| `effects` | `CompletePicture`, `OverrunsByOnePixel`, `MoveSlides`, `GrowsWhole`, `PaintsOnce` for all nine effects | displays up to some 1500 pixels |
| `guard` (violated) | `StaysMapped` | one circle, 16 x 12 |
| `cursor` | types, `NoTrail`, `KeepsPicture`, `CountsLeftOnly` | 4 x 3 cells, cursor 2 x 2, three cells painted twice, all eight button states |
| `pictures` | types, `NothingHeld`, `StaysInside`, `ShowsPicture`, `SpillsByOne` | 4 x 3 display, pictures of 1, 3, 5 by 1, 2, 6, of 1, 3, 4 components, and files cut short or damaged |
| `grey` (violated) | `ShowsGrey` | one grey picture, arbitrary `w` |
| `show` | types, `EndLeavesPictures`, `ImplementsScreen`, and `ActsOnReadEventsOnly` with `ev` zeroed | the seven pictures with their effects on 4 x 3, keys E and S, queue of 5, reads of any length |
| `gallery` | types, `FreshClicks`, `DoubleClickCloses`, `ClickGetsThrough`, `ScreenSettles` | two thumbnails in a grid of 4 x 2, six kinds of packets |
| `clock` | types, `PanelConverges`, `SpillsOneByte` | a row of one pixel of two bytes and the pixel beyond, two pictures |
| `drawings` | types, `Encloses`, `ShowsText`, `BmpShown` | 24 x 16 cells, shapes up to nine or ten cells, strings of up to three of five characters, 30 bitmaps, ints of 12 bits |
| `utf32` (violated) | `ShowsUtf32` | the same strings |

Why these bounds are enough to be of interest:

- *Slideshow.*  A queue of six events holds two packets, which is what a lost press and
  a leftover `ev[1]` need; a third behaves as the second does, because only the first two events of a
  read are looked at.  `ReadMax` is the code's 64, larger than the queue.  Two
  pictures are a cycle that has to wrap; the cycle of seven, with its order, is in `show`.
- *Transitions.*  The literals are scaled to the display, except where a narrow
  display makes the code's own affordable (`shut` and `move` with 768 rows).  44 x
  28 has the remainders of 1024 and 768 by 20, which is what the rounding of
  `chessboard` depends on.  The second sizes are those where a division does not come out even.
- *Cursor.*  A cursor of 2 x 2 with one transparent pixel overlaps itself after a
  move by one and not after a move by two; moves reach and pass every
  edge.  Two paintings of a cell tell the latest from the one before.
- *Pictures.*  `Short` is 4 and `int` twice as wide, the ratio of the machine;
  widths and heights lie below, between and above the bounds, so that a size may fit an
  int when its sides do not fit a short, or turn negative, or wrap around.  Pictures are larger and smaller
  than the display.  NULL-based reads fault because the binary is a 32-bit one linked
  at 0x8048000 and the largest offset an effect reads is some three megabytes.

- *Show.*  The pictures, their order and their effects are the code's; a display of 4 x 3 with scaled
  literals gives each effect more than one frame.  A queue of five events lets a read end
  inside a packet.
- *Gallery.*  Two thumbnails a column apart can be confused, passed on a diagonal and clicked one after the other;
  moves reach and pass every edge, and a packet may move with the button down.
- *Clock.*  One pixel, framed, may or may not be covered by the time, one follows the panel; two
  bytes tell the first byte of a pixel from the rest, two pictures what was there before from what has been painted since.
- *Drawings.*  Half axes up to 9 and 7 with ints of 12 bits include ellipses whose products fit and some
  whose do not (on the machine from half axes of some 215 on).  The characters take one to four bytes;
  one has no glyph, one is another's when cut to 16 bits, one is blank; a
  glyph is wider than a byte.  Bitmaps are narrower and wider, lower and higher than the display,
  with padding or without, complete or cut short.

Disabled deadlock checks: `drawings`, where a behaviour is one call.  Elsewhere, where
the program stops, the module says so (`Ended`, `Over`, the last frame).

### Findings

Four runs are expected to fail.  Each states what the code says of itself:

1. `garbage`: `keyboard.c:50` looks at `ev[1]` without looking at how many events
   `read` returned.  After a first read of one event it obeys what the stack held.
   With `ev` zeroed the property holds (`show`): a leftover `ev[1]` is then one that was obeyed already.
2. `guard`: the bound of `disp-jpeg.c:265` (and 232, 236, 295) lets index
   `1024*768` through, one past the mapping.
3. `grey`: `jpeg.c:39` computes the row length of a grey picture from `w` before
   `w` is assigned.
4. `utf32`: `font.c:15` says "utf8 transfer to unicode(utf32)", but the decoder keeps the code in an
   `unsigned short` (`font.c:19`), so a character of four bytes is displayed as the one its lower 16 bits stand for.
   For characters of one to three bytes the property holds (`ShowsText`).

Not findings but worth knowing, and stated in properties: `special_move` turns 767
times for 768 rows, so that the first two rows both show the picture's second (`CompletePicture`,
`EndLeavesPictures`); a pause lets one more picture
begin (`PauseStopsShow`); of several presses in one read only the first counts
(`LeadPressDecides`); a thread that paints below the cursor loses the cell when the
cursor moves (`KeepsPicture`); `display_jpeg_decr` paints one column and row too many
(`SpillsByOne`); of a file that is cut short what libjpeg
makes up is painted with the rest (`ShowsPicture`); a process that dies of its write past the mapping leaves parts of two pictures
(`EndLeavesPictures`); the paths of `decode_jpeg` that leave a file open are harmless
only because the process always dies next (`NothingHeld`); a third click before the gallery
looks at the second leaves it waiting for good, because `left_button` is never 2 again, and one between
`main.c:179` and `180` leaves the picture displayed over an overview that goes on
(`DoubleClickCloses`); an increment in progress undoes a reset without the mutex, and only the tests
for exactly 2 keep the old clicks from being used again (`FreshClicks`); a
thumbnail may be enlarged that the pointer never was on (`ScreenSettles`); the clock puts back one
byte beside its panel for ever (`SpillsOneByte`), and without a font, a failure nobody notices, shows no
time (`PanelConverges`); an ellipse whose products outgrow an `int` and the right corners
of a rectangle are not drawn as meant (`Encloses`); ink is smeared a pixel to the left (`ShowsText`); `disp_bmp` shows only 24-bit files without
padding and with the shortest header (`BmpShown`).

### Fairness

`Slideshow`, `Gallery` and `Clock` have liveness properties.  In `Slideshow`, `WF` for each step of a thread says that the scheduler runs a thread that can
run.  `KbLock` and `PlLock` have `SF`: a player held at the gate takes and
releases `play_mut` for ever without sleeping, so the keyboard thread sees it
free again and again but never for good; with `WF` alone it might wait for ever.
A preemptive scheduler stops the spinning player outside its short critical
section sooner or later, and that is what `SF` says.  Nothing is assumed of the
person at the keyboard or the mouse, of `read`, of the opening of devices or of failures: the liveness
properties say what happens if the process goes on running.

In `Gallery` each thread's steps have `WF`, and the two that wait for `button_mut`, `Lock` and
`Wait`, have `SF`: the gallery releases the mutex for 800 microseconds in every round, the mouse
thread after three instructions, so each finds it free again and again.  `Read` has no fairness: the hand may
stop.  `Clock` needs `WF` of `get_time` only; that the others come to rest is the
premise of its property, not an assumption.

## 4. What is proved

Every invariant and every action property that the passing runs check, and both
refinements but for fairness, are theorems.  They hold for every value of the
constants that satisfies the named `ASSUME`s of the module.

| module | theorem | property |
|---|---|---|
| `SlideshowProofs` | `TypeCorrect`, `AnswerCurrent`, `PauseStops` | `TypeOK`, `AnswerIsCurrent`, `PauseStopsShow` |
| | `LeadDecides`, `Refinement` | `LeadPressDecides`, `ImplementsPauseControl` |
| | `ReadEventsDecide` (if `QuietGarbage`) | `ActsOnReadEventsOnly` |
| `ShowProofs` | `ShowIsSlideshow` | `ShSpec => Spec` of `Slideshow` |
| | `FramesDoNotDecide` (if `QuietGarbage`) | `ActsOnReadEventsOnly` |
| | `ShowTypes`, `PicturesLeft`, `ShowImplementsScreen` | `ShTypeOK`, `EndLeavesPictures`, `ImplementsScreen` |
| `TransitionsProofs` | `TypeCorrect`, `PictureCompleted`, `OneSpilt` | `TypeOK`, `CompletePicture`, `OverrunsByOnePixel` |
| | `MoveSlidesDown`, `FiguresGrowWhole`, `NothingTwice` | `MoveSlides`, `GrowsWhole`, `PaintsOnce` |
| `CursorProofs` | `CursorTypes`, `LeavesNoTrail`, `GivesBackPicture`, `LeftClicksCounted` | `TypeOK`, `NoTrail`, `KeepsPicture`, `CountsLeftOnly` |
| `PicturesProofs` | `PicturesTypes`, `HoldsNothing`, `StaysInsideBlocks` | `TypeOK`, `NothingHeld`, `StaysInside` |
| | `PicturesShown`, `SpillsColumnAndRow` | `ShowsPicture`, `SpillsByOne` |
| `GalleryProofs` | `TypeCorrect`, `NoClickUsedTwice` | `TypeOK`, `FreshClicks` |
| `ClockProofs` | `TypeCorrect`, `OneByteSpilt` | `TypeOK`, `SpillsOneByte` |
| `DrawingsProofs` | `TypeCorrect`, `OutlinesHaveNoGap`, `BitmapsShown`, `TextShown` | `TypeOK`, `Encloses`, `BmpShown`, `ShowsText` |

### From which assumptions, along which argument

- **`SlideshowProofs`.**  Assumed: at least one picture, sizes are naturals, contents
  of `ev` are events.  `IInv` = types, who is born (`Born`), who owns the mutex and where
  that owner is (`Owners`), the current answer, and the account of late pictures
  (`LateInv`).  `AnswerIsCurrent` is not inductive by itself: it needs `Owners` to know
  that `KbStore` cannot happen.  `PauseStopsShow` needs `LateInv`, which says that a late
  picture uses up the only answer of 1 still around.  `LeadDecides` needs a second
  invariant, `QueueInv`: the queue is made of whole packets, and its first one, if
  it is a press of E or S, is the one `lead` remembers.  `ReadEventsDecide` has the hypothesis
  `QuietGarbage`, that nothing the stack holds in `ev[1]` looks like a press of E or S; without
  it the property is false, which is what the run `garbage` shows.  Its invariant,
  `EvInv`, does not need whole packets: a press left in `ev[1]` has been
  obeyed (`Obeyed`), and the scan code before a press is never 32, that of the D key
  (`Chained`), so that a read cut in two cannot set `ev[0]` to SPACE over a press in `ev[1]`.
- **`ShowProofs`.**  Assumed: every picture of the cycle has a well-formed job for the
  display.  `ShowIsSlideshow` maps every step to a step of `Slideshow` or a stutter, so all
  theorems of `SlideshowProofs` hold of the show.  `ShInv` is the `IInv` of `Slideshow` and that of
  `Transitions` together with what joins them: the effect that runs is that of the picture
  being shown, what it has painted is on the display, and between effects the
  display holds one picture whole.  `PicturesLeft` follows from the
  completeness of the effects (below) and from what a frame that kills the process can have painted, and so does `ShowImplementsScreen`: the next picture begins
  when the last is whole *because* the last frame of every effect completes it.
- **`TransitionsProofs`.**  Assumed: `WellFormed`, the relations between the literals
  that TLC checks of the code's own.  `MoveInv` describes the screen after `t` turns of `move`.
  For the other eight `PaintInv` says that after `t` frames memory shows the union of the
  frames' dots, and nothing else.  The theorems are then about those unions: each effect has a lemma that
  they cover the display (for `chessboard`, `block`, `slopline` and `dot` by division with
  remainder, for the growing figures by their last frame), one on how far they
  reach, and the growing ones a lemma that a frame covers the one before it.
  The proof found that `WellFormed` allowed a circle whose bound is no
  larger than its step, which never paints; it now asks for the first frame, as the
  code's literals have it.
- **`CursorProofs`.**  For any display, cursor shape, movements and number of paintings.
  `IInv` adds `Counter` (where a loop stands) to types, `NoTrail` and `KeepsPicture`.  The key lemma
  is that the cells of different cursor pixels differ.  `LeftClicksCounted` needs
  `ClickInv`: from the first packet on `mevent.button` is not 1 when a packet is read.
- **`PicturesProofs`.**  `HoldsNothing` from `HeldInv` (what is not released goes with a
  NULL further down the line); `StaysInsideBlocks` and `PicturesTypes` from
  `Sizes` (blocks have the length of the picture) and lemmas on the integer
  conversions and on division; `PicturesShown` from `Contents`, which says what each byte of each
  block is, from the rows decoded so far to the pixels painted; `SpillsColumnAndRow` from the
  geometry of a thumbnail in its frame.  `StaysInside` and `ShowsPicture` are
  about colour pictures that an int can count.  For
  a larger one the bytes asked for wrap around, which is why the properties exclude it.
- **`GalleryProofs`.**  `FreshClicks` is not inductive: the mouse thread loads `left_button`, the gallery
  resets it without the mutex, the mouse thread stores.  `IInv` adds `Counted` (`left_button`
  is the number of fresh clicks, unless it says three or more), `Increment` (the value loaded is still there or was two or
  more) and `Seen` (clicks that were acted on are not taken back).  Together they say why only the tests for *exactly* 2 are safe.
- **`ClockProofs`.**  `SpillsOneByte` needs to know that the one byte beside the panel was saved before there
  was any text and that the cursor brings none there: `LoopsWhole`, `Unwritten` and `TextInside`.
- **`DrawingsProofs`.**  Assumed: lengths are naturals and radii positive
  (`FiguresAssumption`), a bitmap has its header (`BitmapsAssumption`), characters are Unicode's
  and a string may be cut within its last one (`StringsAssumption`), four NULs follow somewhere behind a
  string (`BeyondAssumption`), and no glyph leaves the display's memory
  (`PlacesAssumption`, the premise under which `fb_pixel`, which looks at no bound,
  does what it should).  `OutlinesHaveNoGap` is geometry: for a circle or an ellipse with square
  roots taken in integers, every cell of the disc that the outline leaves out has all its
  neighbours in the disc, because a step to the side changes the root by no more than the outline's next pixel does;
  the products of an ellipse are those of the mathematics as long as they fit an int.
  `TextShown` needs what `s_font_utf8_to_unicode` computes for every character: `Encoded` and `Decoded` (the decoder, on the
  standard's encoding, gives back the length and the code modulo 2^16, which for `Intact` strings is the code, case by case in the number of bytes),
  `Flattened` (where in a string its n-th character begins; by induction on n, for a named function), and the
  invariant `Reached` for the characters displayed so far.  `BitmapsShown` has `RowsSeen`, the
  rows read so far in their places.
  The proof found that the guards of the reference encoding overlapped, which TLC, taking the first
  that holds, could not see; they are now disjoint.

Only model-checked:

- the liveness properties `CommandCarriedOut`, `PauseTakesHold`, `ShowGoesOn`, `DoubleClickCloses`, `ClickGetsThrough`,
  `ScreenSettles`, `PanelConverges`, and `ImplementsFairPauseControl`, of which only the part without
  fairness is proved: liveness under fairness, and `ENABLED`, are out of the prover's reach;
- the four properties that the code does not have (`garbage`, `guard`, `grey`, `utf32`), whose
  counterexamples are TLC's.

## 5. What is not modelled

- FreeType and libjpeg, the bulk of the repository's lines: third-party code, unchanged, used
  through a dozen functions whose outcomes are choices or constants of the models.
- The triangle: its edges are tangents in double precision, which TLC cannot evaluate.
- What `memset(mon_buf, 0, 30)` overwrites in the clock's frame (`clock.c:96`): the compiler's layout decides, and
  in the object file that comes with the source it is `week_buf`, which is filled afterwards, and
  the stack guard, which is looked at only on a return that never comes.
- What should follow a third click in the gallery, a string cut inside a sequence, a missing font or the change of a
  face's size: the models do what the code does, and no property judges it, since nothing in the repository says what is meant.
- What a shape that leaves the display's memory overwrites, and what a string cut inside a
  sequence reads after it: no bound is looked at, and no caller does either.
- `fb_pixel` on displays of other than 32 bits a pixel, and a bitmap whose header is cut short.
- `init_fb`'s leak of the descriptor when it fails: the process ends with it.
- The order of the writes within one frame of an effect, and the frame rate.
- Display formats other than 32 bits per pixel and sizes other than 1024 x 768 for
  the effects whose literals are for that size: the code does not support them.
- `per1` and `per2` of the transparent display: the mixture is the pair of pixels.

## 6. Plan

Done: every component of the program but the triangle has its module, and every safety property that a run
checks has its theorem.

Left, in this order:

1. Safety parts of the liveness properties that can be stated without fairness: in `Gallery`, that the mutex has
   one owner and that a picture closes only from the loop that opened it; in `Clock`, that
   a panel that has been put back and printed on shows the present time until somebody else draws.
2. `SpillsByOne` and `ShowsPicture` for the two mixed pictures in one statement, with `per1` and `per2`.
3. `Encloses` for an ellipse beyond the range of an int: which outlines have gaps.
