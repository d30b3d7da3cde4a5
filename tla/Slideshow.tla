------------------------------ MODULE Slideshow ------------------------------
(***************************************************************************)
(* The program main() runs: three threads of one process.                  *)
(*                                                                         *)
(*   main      maps the framebuffer, creates the other two and joins the   *)
(*             player (main.c).  play_picture never returns, so the join   *)
(*             never does either and main's last lines are dead.           *)
(*   keyboard  reads input events and sets flag_play under play_mut        *)
(*             (keyboard.c).  A failed read ends the process with exit(0). *)
(*   player    shows the pictures in a cycle and, after each, spins on     *)
(*             is_play() until flag_play is 1 (play_picture.c).            *)
(*                                                                         *)
(* A lock, the access it guards and the unlock are steps of their own, so  *)
(* every interleaving of the two critical sections with the unguarded code *)
(* around them is a behaviour.  Drawing one picture is one step here; the  *)
(* frames of a transition are in module Transitions.                       *)
(***************************************************************************)
EXTENDS Integers, Sequences

CONSTANTS
  Slides,        \* pictures in play_picture's loop (7 in the code)
  Keys,          \* key codes of the keyboard in use
  QueueCap,      \* bound: events the kernel holds for the reader
  ReadMax,       \* events one read() asks for (64 in the code)
  WholePackets,  \* TRUE: the kernel hands over complete packets only
  Garbage        \* what ev[] may hold before the first read fills it

EV_SYN == 0
EV_KEY == 1
EV_MSC == 4
SPACE  == 32               \* the ' ' of keyboard.c:50; as a scan code, the key D
KEY_E  == 18
KEY_S  == 31

Event == [type : Nat, code : Nat, value : Nat]

ASSUME SlidesAssumption  == Slides \in Nat \ {0}
ASSUME KeysAssumption    == Keys \subseteq Nat
ASSUME BoundsAssumption  == QueueCap \in Nat /\ ReadMax \in Nat \ {0}
ASSUME PacketsAssumption == WholePackets \in BOOLEAN
ASSUME GarbageAssumption == Garbage \subseteq Event

VARIABLES
  status,        \* of the process: running, or how it ended
  mpc,           \* main's next step
  kpc,           \* the keyboard thread's next step
  fdOpen,        \* keyboard: open() succeeded
  rd,            \* keyboard: events the last read() returned
  ev,            \* keyboard: ev[0] and ev[1], the only entries examined
  queue,         \* kernel: input events not yet read
  ppc,           \* the player thread's next step
  slide,         \* player: the picture being shown
  answer,        \* player: what is_play() is about to return
  flag_play,     \* shared: 1 play, 0 pause
  play_mut,      \* shared: owner of the mutex
  late,          \* history: pictures begun since flag_play became 0, up to two
  lead           \* history: the last E or S press to reach an empty queue

kbVars   == <<kpc, fdOpen, rd, ev>>
plVars   == <<ppc, slide, answer>>
histVars == <<late, lead>>
vars     == <<status, mpc, kbVars, queue, plVars, flag_play, play_mut, histVars>>

TypeOK == /\ status \in {"running", "exited", "failed", "killed"}
          /\ mpc \in {"init_fb", "create_keyboard", "create_player", "join"}
          /\ kpc \in {"unborn", "open", "read", "lock", "store", "unlock"}
          /\ fdOpen \in BOOLEAN
          /\ rd \in Nat
          /\ ev \in [{0, 1} -> Event]
          /\ queue \in Seq(Event)
          /\ ppc \in {"unborn", "show", "sleep", "lock", "test", "else", "unlock", "return"}
          /\ slide \in 0 .. Slides - 1
          /\ answer \in {-1, 0, 1}
          /\ flag_play \in {0, 1}
          /\ play_mut \in {"free", "keyboard", "player"}
          /\ late \in 0 .. 2
          /\ lead \in {0, KEY_E, KEY_S}

Init == /\ status = "running"
        /\ mpc = "init_fb"
        /\ kpc = "unborn" /\ fdOpen = FALSE /\ rd = 0
        /\ ev \in [{0, 1} -> Garbage]
        /\ queue = <<>>
        /\ ppc = "unborn" /\ slide = 0 /\ answer = 0
        /\ flag_play = 1
        /\ play_mut = "free"
        /\ late = 0 /\ lead = 0

running == status = "running"

-----------------------------------------------------------------------------
(* main                                                                    *)

\* init_fb: open, ioctl or mmap may fail, and then main returns -1.
MainInitFb ==
  /\ running /\ mpc = "init_fb"
  /\ \/ mpc' = "create_keyboard" /\ UNCHANGED status
     \/ status' = "failed" /\ UNCHANGED mpc
  /\ UNCHANGED <<kbVars, queue, plVars, flag_play, play_mut, histVars>>

\* What pthread_create returns is ignored, so a thread may never come to be.
MainCreateKeyboard ==
  /\ running /\ mpc = "create_keyboard"
  /\ mpc' = "create_player"
  /\ kpc' \in {"open", "unborn"}
  /\ UNCHANGED <<status, fdOpen, rd, ev, queue, plVars, flag_play, play_mut, histVars>>

MainCreatePlayer ==
  /\ running /\ mpc = "create_player"
  /\ mpc' = "join"
  /\ ppc' \in {"show", "unborn"}
  /\ UNCHANGED <<status, kbVars, queue, slide, answer, flag_play, play_mut, histVars>>

\* Without a player main joins whatever play_pict_pid held: it may wait for
\* ever, crash, or come back, and then main returns.
MainJoinsNobody ==
  /\ running /\ mpc = "join" /\ ppc = "unborn"
  /\ status' \in {"exited", "killed"}
  /\ UNCHANGED <<mpc, kbVars, queue, plVars, flag_play, play_mut, histVars>>

-----------------------------------------------------------------------------
(* The kernel's input layer, as the code uses it.                          *)

\* One key transition (0 release, 1 press, 2 autorepeat): its scan code, the
\* key and a separator.  The scan codes of the keys in question equal the
\* key codes.
Packet(k, v) == << [type |-> EV_MSC, code |-> 4, value |-> k],
                   [type |-> EV_KEY, code |-> k, value |-> v],
                   [type |-> EV_SYN, code |-> 0, value |-> 0] >>

Key(k, v) ==
  /\ running /\ fdOpen
  /\ Len(queue) + 3 <= QueueCap
  /\ queue' = queue \o Packet(k, v)
  /\ lead' = IF queue = <<>> /\ v = 1 /\ k \in {KEY_E, KEY_S} THEN k ELSE lead
  /\ UNCHANGED <<status, mpc, kbVars, plVars, flag_play, play_mut, late>>

\* How many events a read() may return.  Kernels that end a read on a packet
\* boundary return all they hold; older ones return what has arrived so far.
ReadSizes == LET most == IF Len(queue) <= ReadMax THEN Len(queue) ELSE ReadMax
             IN IF WholePackets THEN {most} ELSE 1 .. most

-----------------------------------------------------------------------------
(* The keyboard thread                                                     *)

\* A failed open() is reported and otherwise ignored: fd is -1 from here on.
KbOpen ==
  /\ running /\ kpc = "open"
  /\ kpc' = "read"
  /\ fdOpen' \in BOOLEAN
  /\ UNCHANGED <<status, mpc, rd, ev, queue, plVars, flag_play, play_mut, histVars>>

\* read() < size: perror_exit, handler, exit(0), whatever the player is doing.
KbReadFails ==
  /\ running /\ kpc = "read"
  /\ status' = "exited"
  /\ UNCHANGED <<mpc, kbVars, queue, plVars, flag_play, play_mut, histVars>>

\* Wrong variant: acts when the key is released.
IsCommandOnRelease(e) == /\ e[0].value # SPACE
                         /\ e[1].value = 0
                         /\ e[1].type = EV_KEY
                         /\ e[1].code \in {KEY_E, KEY_S}

\* The test of keyboard.c:50-58: ev[1] is a press of S or of E.
IsCommand(e) == /\ e[0].value # SPACE
                /\ e[1].value = 1
                /\ e[1].type = EV_KEY
                /\ e[1].code \in {KEY_E, KEY_S}

\* Wrong variant: the command toggles flag_play.
Toggled(e) == 1 - flag_play

Commanded(e) == IF e[1].code = KEY_S THEN 1 ELSE 0

\* read() overwrites only the entries it returns; ev[1] keeps its previous
\* value, or the stack's, when it returns a single event.
KbRead ==
  /\ running /\ kpc = "read" /\ fdOpen /\ queue # <<>>
  /\ \E n \in ReadSizes :
       /\ rd' = n
       /\ ev' = [i \in {0, 1} |-> IF i < n THEN queue[i + 1] ELSE ev[i]]
       /\ queue' = SubSeq(queue, n + 1, Len(queue))
  /\ kpc' = IF IsCommand(ev') THEN "lock" ELSE "read"
  /\ UNCHANGED <<status, mpc, fdOpen, plVars, flag_play, play_mut, histVars>>

\* Wrong variant: writes without waiting for the mutex.
KbLockNoWait ==
  /\ running /\ kpc = "lock"
  /\ kpc' = "store"
  /\ UNCHANGED <<status, mpc, fdOpen, rd, ev, queue, plVars, flag_play, play_mut, histVars>>

KbLock ==
  /\ running /\ kpc = "lock" /\ play_mut = "free"
  /\ play_mut' = "keyboard"
  /\ kpc' = "store"
  /\ UNCHANGED <<status, mpc, fdOpen, rd, ev, queue, plVars, flag_play, histVars>>

KbStore ==
  /\ running /\ kpc = "store"
  /\ flag_play' = Commanded(ev)
  /\ late' = IF flag_play' = flag_play THEN late ELSE 0
  /\ kpc' = "unlock"
  /\ UNCHANGED <<status, mpc, fdOpen, rd, ev, queue, plVars, play_mut, lead>>

\* Wrong variant: forgets the unlock.
KbUnlockForgotten ==
  /\ running /\ kpc = "unlock"
  /\ kpc' = "read"
  /\ UNCHANGED <<status, mpc, fdOpen, rd, ev, queue, plVars, flag_play, play_mut, histVars>>

KbUnlock ==
  /\ running /\ kpc = "unlock"
  /\ play_mut' = "free"
  /\ kpc' = "read"
  /\ UNCHANGED <<status, mpc, fdOpen, rd, ev, queue, plVars, flag_play, histVars>>

-----------------------------------------------------------------------------
(* The player thread                                                       *)

PlShow ==
  /\ running /\ ppc = "show"
  /\ ppc' = "sleep"
  /\ UNCHANGED <<status, mpc, kbVars, queue, slide, answer, flag_play, play_mut, histVars>>

\* A picture that is missing or cannot be decoded ends the process: decode_jpeg
\* exits through jpeg_error_exit, or returns the NULL that scale24 reads through.
PlShowFails ==
  /\ running /\ ppc = "show"
  /\ status' = "failed"
  /\ UNCHANGED <<mpc, kbVars, queue, plVars, flag_play, play_mut, histVars>>

PlSleep ==
  /\ running /\ ppc = "sleep"
  /\ ppc' = "lock"
  /\ UNCHANGED <<status, mpc, kbVars, queue, slide, answer, flag_play, play_mut, histVars>>

PlLock ==
  /\ running /\ ppc = "lock" /\ play_mut = "free"
  /\ play_mut' = "player"
  /\ ppc' = "test"
  /\ UNCHANGED <<status, mpc, kbVars, queue, slide, answer, flag_play, histVars>>

\* is_play compares flag_play with 1 and, if it differs, with 0.
PlTest ==
  /\ running /\ ppc = "test"
  /\ IF flag_play = 1
       THEN answer' = 1 /\ ppc' = "unlock"
       ELSE ppc' = "else" /\ UNCHANGED answer
  /\ UNCHANGED <<status, mpc, kbVars, queue, slide, flag_play, play_mut, histVars>>

\* Were it neither, is_play would return -1 and keep the mutex.
PlTestElse ==
  /\ running /\ ppc = "else"
  /\ IF flag_play = 0
       THEN answer' = 0 /\ ppc' = "unlock"
       ELSE answer' = -1 /\ ppc' = "return"
  /\ UNCHANGED <<status, mpc, kbVars, queue, slide, flag_play, play_mut, histVars>>

\* Wrong variant: releases the mutex only when the show goes on.
PlUnlockWhenPlaying ==
  /\ running /\ ppc = "unlock"
  /\ play_mut' = IF answer = 1 THEN "free" ELSE play_mut
  /\ ppc' = "return"
  /\ UNCHANGED <<status, mpc, kbVars, queue, slide, answer, flag_play, histVars>>

PlUnlock ==
  /\ running /\ ppc = "unlock"
  /\ play_mut' = "free"
  /\ ppc' = "return"
  /\ UNCHANGED <<status, mpc, kbVars, queue, slide, answer, flag_play, histVars>>

\* Counts to two, which stands for two or more.
OneMore(n) == IF flag_play = 0 /\ n < 2 THEN n + 1 ELSE n

\* Wrong variants: the cycle does not wrap, or leaves out the last picture.
NextSlideNoWrap(s) == s + 1
NextSlideShort(s) == (s + 1) % (Slides - 1)

NextSlide(s) == (s + 1) % Slides

\* Wrong variant: the gate is passed whatever is_play() answers.
PlReturnUngated ==
  /\ running /\ ppc = "return"
  /\ ppc' = "show"
  /\ slide' = NextSlide(slide)
  /\ late' = OneMore(late)
  /\ UNCHANGED <<status, mpc, kbVars, queue, answer, flag_play, play_mut, lead>>

\* while(!is_play()): 0 spins, anything else goes on to the next picture.
PlReturn ==
  /\ running /\ ppc = "return"
  /\ IF answer = 0
       THEN /\ ppc' = "lock"
            /\ UNCHANGED <<slide, late>>
       ELSE /\ ppc' = "show"
            /\ slide' = NextSlide(slide)
            /\ late' = OneMore(late)
  /\ UNCHANGED <<status, mpc, kbVars, queue, answer, flag_play, play_mut, lead>>

-----------------------------------------------------------------------------

\* Three of the effects write one pixel past the mapping, which ends with its
\* last page (Transitions).  What the pixel falls on may end the process at once
\* or at any time after, or do nothing.
Killed ==
  /\ running /\ ppc # "unborn"
  /\ status' = "killed"
  /\ UNCHANGED <<mpc, kbVars, queue, plVars, flag_play, play_mut, histVars>>

Ended == ~running /\ UNCHANGED vars

Main     == MainInitFb \/ MainCreateKeyboard \/ MainCreatePlayer \/ MainJoinsNobody
Keyboard == KbOpen \/ KbReadFails \/ KbRead \/ KbLock \/ KbStore \/ KbUnlock
Player   == \/ PlShow \/ PlShowFails \/ PlSleep
            \/ PlLock \/ PlTest \/ PlTestElse \/ PlUnlock \/ PlReturn

Next == \/ Main \/ Keyboard \/ Player \/ Killed
        \/ \E k \in Keys, v \in 0 .. 2 : Key(k, v)
        \/ Ended

Spec == Init /\ [][Next]_vars

-----------------------------------------------------------------------------
(* Safety                                                                  *)

\* While the player is about to leave is_play, the answer it read is still the
\* value of flag_play, and one of its two comparisons has always held: nothing
\* writes flag_play inside the player's critical section, not even between the
\* two (play_picture.c:16-28, keyboard.c:54-62).
AnswerIsCurrent == /\ ppc = "unlock" => answer = flag_play
                   /\ answer # -1

\* The answer is used after the unlock, so a pause can arrive between the two;
\* even so at most one picture begins once flag_play is 0, however long the
\* pause lasts (play_picture.c:43).
PauseStopsShow == late <= 1

\* Presses that wait behind others in one read() are lost, but a press of E or S
\* that reaches an empty queue always decides: when the keyboard thread is back
\* in read() with nothing to read, flag_play is what the last such press asked
\* for (keyboard.c:45-63).  For kernels that hand over whole packets and hold no
\* more of them than one read() takes.
Asked(key) == IF key = KEY_E THEN 0 ELSE 1

WholeReads == WholePackets /\ QueueCap <= ReadMax

LeadPressDecides ==
  (WholeReads /\ kpc = "read" /\ queue = <<>>) => flag_play = Asked(lead)

\* flag_play changes only on a batch that brought its own ev[1]: an ev[1] left
\* over from an earlier read() may be obeyed a second time, with no effect
\* (keyboard.c:45-62).
ActsOnReadEventsOnly == [][rd >= 2]_flag_play

\* The show implements PauseControl: locks, threads and input are hidden, the
\* gate is everything from the sleep to the moment is_play's answer is used.
Stage == CASE ppc = "unborn" -> "idle"
           [] ppc = "show" -> "showing"
           [] ppc \in {"unlock", "return"} /\ answer # 0 -> "cleared"
           [] OTHER -> "held"

PC == INSTANCE PauseControl WITH mode <- flag_play, stage <- Stage,
                                 picture <- slide, over <- ~running

ImplementsPauseControl == PC!PCSafeSpec

-----------------------------------------------------------------------------
(* Liveness                                                                *)

\* Each thread keeps running while it can.  The mutex needs strong fairness: a
\* player that waits at the gate takes and releases play_mut for ever, so the
\* keyboard thread finds it free again and again but never for good.  A
\* preemptive scheduler stops the spinning player outside its critical section
\* sooner or later.  Nothing is assumed of the person at the keyboard, of
\* read() or of the framebuffer device.
Fairness == /\ WF_vars(MainCreateKeyboard) /\ WF_vars(MainCreatePlayer)
            /\ WF_vars(MainInitFb)
            /\ SF_vars(KbLock) /\ WF_vars(KbStore) /\ WF_vars(KbUnlock)
            /\ SF_vars(PlLock) /\ WF_vars(Player)

FairSpec == Spec /\ Fairness

\* A command that was read is carried out, although the player may be spinning
\* on the mutex it needs (keyboard.c:54, play_picture.c:43).
CommandCarriedOut == kpc = "lock" ~> (kpc = "unlock" \/ ~running)

\* If the show stays in pause, drawing stops for good.
PauseTakesHold ==
  <>[](running /\ flag_play = 0) => <>[](ppc \notin {"show", "sleep"})

\* If the show, once begun, stays in play, every picture of the cycle comes round
\* for ever.
ShowGoesOn ==
  <>[](running /\ ppc # "unborn" /\ flag_play = 1)
    => \A s \in 0 .. Slides - 1 : []<>(ppc = "show" /\ slide = s)

\* The detailed show also has the abstract one's fairness.
ImplementsFairPauseControl == PC!PCSpec
=============================================================================
