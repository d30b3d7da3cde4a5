------------------------------- MODULE MCClock -------------------------------
(* Clock with a panel of one pixel of two bytes, framed, that a digit of   *)
(* the time covers or leaves, the pixel beside it, and two pictures.       *)
EXTENDS Clock

Digits == {{}, {0}}

\* The code's own numbers: what is saved fits in save_buf, and the longest time,
\* twenty characters psize apart, ends inside the panel, although FT_Set_Char_Size
\* makes the characters wider than psize: half of 100/64 points at 1024 dpi.
Saved(len, high) == (high + 1) * (len * 4 + 1)
Width == ((100 * 1024) \div (64 * 72)) \div 2

ASSUME Saved(230, 50) <= 150000
ASSUME 795 + 19 * 10 + Width <= 775 + 230
=============================================================================
