------------------------------- MODULE Shapes -------------------------------
(***************************************************************************)
(* The shapes of draw.c and my_draw.c, as the sets of pixels <<x, y>> that *)
(* their loops hand to fb_pixel.  (fb_draw_triangle, in floating point, is *)
(* not here.)                                                              *)
(***************************************************************************)
EXTENDS Integers

CONSTANT IntHalf               \* 2^31: an int goes from -IntHalf to IntHalf - 1

ASSUME IntAssumption == IntHalf \in Nat \ {0}

\* What two's complement makes of a product that does not fit.
CInt(n) == ((n + IntHalf) % (2 * IntHalf)) - IntHalf

Around(x, y, width, high) == (x - width .. x + width) \X (y - high .. y + high)

Square(n) == n * n

Row(x, y, len) == {<<x + k, y>> : k \in 0 .. len - 1}

Upline(x, y, len) == {<<x, y + k>> : k \in 0 .. len - 1}

SquareArea(x, y, x_len, y_len) == (x .. x + x_len - 1) \X (y .. y + y_len - 1)

Ball(x, y, len) ==
  {c \in Around(x, y, len, len) : Square(c[1] - x) + Square(c[2] - y) <= Square(len)}

Cir(x, y, len) ==
  {c \in Ball(x, y, len) : Square(c[1] - x) + Square(c[2] - y) >= Square(len - 1)}

\* Every product is an int.
Ellipse(x, y, high, width) ==
  LET a == CInt(Square(width))
      b == CInt(Square(high))
      Sum(c) == CInt(Square(c[1] - x) * b + Square(c[2] - y) * a)
  IN {c \in Around(x, y, width, high) :
        /\ Sum(c) <= CInt(a * b)
        /\ Sum(c) >= CInt(Square(width - 1) * Square(high - 1))}

\* Wrong variant: the sides end too early.
RectShort(x, y, high, width) ==
  Row(x, y, width) \cup Row(x, y + high, width)
    \cup Upline(x, y + 1, high - 2) \cup Upline(x + width, y + 1, high - 2)

\* The corners on the right belong to no loop.
Rect(x, y, high, width) ==
  Row(x, y, width) \cup Row(x, y + high, width)
    \cup Upline(x, y + 1, high - 1) \cup Upline(x + width, y + 1, high - 1)

\* Half of len: the division is an integer's.
Slopline(x, y, len) == {<<x + k, y + k>> : k \in 0 .. (len \div 2) - 1}
=============================================================================
