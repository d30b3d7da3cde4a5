---------------------------- MODULE MCTransitions ----------------------------
(* Transitions on displays of at most some 1500 pixels.                     *)
EXTENDS Transitions

\* The literals of disp-jpeg.c, on the display they are made for.  Too large to
\* run, but the assumption of Transitions is evaluated for them.
CodeJobs ==
  {[effect |-> "shut", w |-> 1024, h |-> 768, strip |-> 153, reach |-> 650, tail |-> 3],
   [effect |-> "dot", w |-> 1024, h |-> 768, side |-> 16, columns |-> 64, blocks |-> 3072],
   [effect |-> "block", w |-> 1024, h |-> 768, quarter |-> 256],
   [effect |-> "slopline", w |-> 1024, h |-> 768, half |-> 512],
   [effect |-> "circle", w |-> 1024, h |-> 768, x |-> 384, y |-> 516, step |-> 10, limit |-> 1024],
   [effect |-> "squarearea", w |-> 1024, h |-> 768, xstep |-> 10, ystep |-> 14,
    xlimit |-> 770, ylimit |-> 1024],
   [effect |-> "chessboard", w |-> 1024, h |-> 768, squares |-> 10],
   [effect |-> "diamond", w |-> 1024, h |-> 768, step |-> 20],
   [effect |-> "move", w |-> 1024, h |-> 768]}

ASSUME \A j \in CodeJobs : WellFormed(j)

\* The literals scaled to the display, and the code's own where a narrow display
\* makes them affordable; 44 x 28 has 1024's and 768's remainders by 20.
SmallJobs ==
  {[effect |-> "shut", w |-> 1, h |-> 768, strip |-> 153, reach |-> 650, tail |-> 3],
   [effect |-> "shut", w |-> 3, h |-> 11, strip |-> 4, reach |-> 5, tail |-> 3],
   [effect |-> "dot", w |-> 12, h |-> 9, side |-> 3, columns |-> 4, blocks |-> 12],
   [effect |-> "dot", w |-> 6, h |-> 8, side |-> 2, columns |-> 3, blocks |-> 12],
   [effect |-> "block", w |-> 16, h |-> 12, quarter |-> 4],
   [effect |-> "slopline", w |-> 16, h |-> 12, half |-> 8],
   [effect |-> "slopline", w |-> 10, h |-> 5, half |-> 5],
   [effect |-> "circle", w |-> 16, h |-> 12, x |-> 6, y |-> 8, step |-> 1, limit |-> 16],
   [effect |-> "circle", w |-> 32, h |-> 24, x |-> 12, y |-> 16, step |-> 3, limit |-> 32],
   [effect |-> "squarearea", w |-> 16, h |-> 12, xstep |-> 2, ystep |-> 3, xlimit |-> 14, ylimit |-> 16],
   [effect |-> "chessboard", w |-> 44, h |-> 28, squares |-> 10],
   [effect |-> "chessboard", w |-> 23, h |-> 17, squares |-> 3],
   [effect |-> "chessboard", w |-> 3, h |-> 5, squares |-> 2],
   [effect |-> "diamond", w |-> 32, h |-> 24, step |-> 3],
   [effect |-> "diamond", w |-> 17, h |-> 9, step |-> 2],
   [effect |-> "move", w |-> 2, h |-> 768],
   [effect |-> "move", w |-> 5, h |-> 7]}

OneCircle == {[effect |-> "circle", w |-> 16, h |-> 12, x |-> 6, y |-> 8, step |-> 1, limit |-> 16]}
=============================================================================
