---------------------------- MODULE PauseControl ----------------------------
(***************************************************************************)
(* What the slide show promises to the person at the keyboard, with no     *)
(* threads, no mutex and no input queue: pictures follow one another in a  *)
(* fixed cycle; after each picture the show is held at a gate; the gate is *)
(* cleared only while the show is in play mode.  Clearing the gate and     *)
(* beginning the next picture are two steps, so a pause that arrives       *)
(* between them still lets that one picture through.                       *)
(***************************************************************************)
EXTENDS Integers

CONSTANT Slides              \* number of pictures in the cycle, one at least

VARIABLES mode,              \* 1: play, 0: pause
          stage,             \* where the show is within the current picture
          picture,           \* index of the current picture
          over               \* the process has ended

pcVars == <<mode, stage, picture, over>>

PCTypeOK == /\ mode \in {0, 1}
            /\ stage \in {"idle", "showing", "held", "cleared"}
            /\ picture \in 0 .. Slides - 1
            /\ over \in BOOLEAN

PCInit == /\ mode = 1
          /\ stage = "idle"
          /\ picture = 0
          /\ over = FALSE

Begin == /\ ~over /\ stage = "idle"
         /\ stage' = "showing"
         /\ UNCHANGED <<mode, picture, over>>

Finish == /\ ~over /\ stage = "showing"
          /\ stage' = "held"
          /\ UNCHANGED <<mode, picture, over>>

Clear == /\ ~over /\ stage = "held" /\ mode = 1
         /\ stage' = "cleared"
         /\ UNCHANGED <<mode, picture, over>>

Advance == /\ ~over /\ stage = "cleared"
           /\ stage' = "showing"
           /\ picture' = (picture + 1) % Slides
           /\ UNCHANGED <<mode, over>>

SetMode == /\ ~over
           /\ mode' \in {0, 1}
           /\ UNCHANGED <<stage, picture, over>>

Stop == /\ ~over
        /\ over' = TRUE
        /\ UNCHANGED <<mode, stage, picture>>

PCNext == Begin \/ Finish \/ Clear \/ Advance \/ SetMode \/ Stop

PCSafeSpec == PCInit /\ [][PCNext]_pcVars

PCFairness == /\ WF_pcVars(Finish)
              /\ WF_pcVars(Clear)
              /\ WF_pcVars(Advance)

PCSpec == PCSafeSpec /\ PCFairness
=============================================================================
