--------------------------- MODULE DrawingsProofs ---------------------------
(***************************************************************************)
(* Theorems about Drawings, for displays, figures, strings and bitmaps of  *)
(* any size.                                                               *)
(***************************************************************************)
EXTENDS Drawings, NaturalsInduction, WellFoundedInduction, TLAPS

-----------------------------------------------------------------------------
(* Arithmetic                                                              *)

LEMMA Division ==
  ASSUME NEW a \in Nat, NEW d \in Nat \ {0}
  PROVE  /\ a \div d \in Nat /\ a % d \in 0 .. d - 1
         /\ a = d * (a \div d) + (a % d)
OBVIOUS

LEMMA Quotient ==
  ASSUME NEW d \in Nat \ {0}, NEW q \in Nat, NEW r \in 0 .. d - 1
  PROVE  (q * d + r) \div d = q /\ (q * d + r) % d = r
<1> DEFINE a == q * d + r
           u == a \div d
           v == a % d
<1>1. a \in Nat /\ a = d * q + r
  OBVIOUS
<1>2. u \in Nat /\ v \in 0 .. d - 1 /\ a = d * u + v
  <2> HIDE DEF a
  <2> QED
    BY <1>1, Division
<1> HIDE DEF a, u, v
<1>3. ~(u > q)
  <2> SUFFICES ASSUME u >= q + 1 PROVE FALSE
    BY <1>2
  <2>1. d * u >= d * (q + 1) /\ d * (q + 1) = d * q + d
    BY <1>2
  <2> QED
    BY <1>1, <1>2, <2>1
<1>4. ~(q > u)
  <2> SUFFICES ASSUME q >= u + 1 PROVE FALSE
    BY <1>2
  <2>1. d * q >= d * (u + 1) /\ d * (u + 1) = d * u + d
    BY <1>2
  <2> QED
    BY <1>1, <1>2, <2>1
<1>5. u = q /\ v = r
  BY <1>1, <1>2, <1>3, <1>4
<1> QED
  BY <1>5 DEF u, v, a

\* A cell of the display has an offset of its own.
LEMMA Inside ==
  ASSUME NEW c \in Display
  PROVE  /\ Offset(c) \in Offsets /\ c[1] \in 0 .. W - 1 /\ c[2] \in 0 .. H - 1
         /\ W * c[2] \in Nat
<1>1. W \in Nat \ {0} /\ H \in Nat \ {0} /\ c[1] \in 0 .. W - 1 /\ c[2] \in 0 .. H - 1
  BY DisplayAssumption DEF Display
<1>2. W * c[2] <= W * (H - 1) /\ W * (H - 1) = W * H - W /\ W * c[2] \in Nat /\ W * H \in Nat
  BY <1>1
<1> QED
  BY <1>1, <1>2 DEF Offset, Offsets

-----------------------------------------------------------------------------
(* Shapes                                                                  *)

LEMMA Squares ==
  ASSUME NEW d \in Int, NEW m \in Nat, d \in -m .. m
  PROVE  d * d \in Nat /\ d * d <= m * m
<1>1. CASE d >= 0
  <2>1. d * d <= d * m /\ d * m <= m * m /\ d * d \in Nat
    BY <1>1
  <2> QED
    BY <2>1
<1>2. CASE d < 0
  <2> DEFINE e == -d
  <2>1. e \in Nat /\ e <= m /\ d * d = e * e
    BY <1>2
  <2> HIDE DEF e
  <2>2. e * e <= e * m /\ e * m <= m * m /\ e * e \in Nat
    BY <2>1
  <2> QED
    BY <2>1, <2>2
<1> QED
  BY <1>1, <1>2

LEMMA NoSquareIsNegative == ASSUME NEW d \in Int PROVE d * d \in Nat
<1>1. \E m \in Nat : d \in -m .. m
  <2>1. CASE d >= 0
    <3>1. d \in Nat /\ d \in -d .. d
      BY <2>1
    <3> QED
      BY <3>1
  <2>2. CASE d < 0
    <3>1. -d \in Nat /\ d \in -(-d) .. -d
      BY <2>2
    <3> QED
      BY <3>1
  <2> QED
    BY <2>1, <2>2
<1> QED
  BY <1>1, Squares

LEMMA Roots ==
  ASSUME NEW d \in Int, NEW m \in Nat, d * d <= m * m
  PROVE  d \in -m .. m
<1>1. ~(d > m)
  <2> SUFFICES ASSUME d >= m + 1 PROVE FALSE
    OBVIOUS
  <2>1. d * d >= (m + 1) * d /\ (m + 1) * d >= (m + 1) * (m + 1)
    OBVIOUS
  <2>2. (m + 1) * (m + 1) = m * m + 2 * m + 1
    OBVIOUS
  <2> QED
    BY <2>1, <2>2
<1>2. ~(d < -m)
  <2> DEFINE e == -d
  <2>1. e \in Int /\ d * d = e * e
    OBVIOUS
  <2> SUFFICES ASSUME e >= m + 1 PROVE FALSE
    OBVIOUS
  <2> HIDE DEF e
  <2>2. e * e >= (m + 1) * e /\ (m + 1) * e >= (m + 1) * (m + 1)
    BY <2>1
  <2>3. (m + 1) * (m + 1) = m * m + 2 * m + 1
    OBVIOUS
  <2> QED
    BY <2>1, <2>2, <2>3
<1> QED
  BY <1>1, <1>2

\* One more along an axis adds what two, one and the length of the step make.
LEMMA StepSquare ==
  ASSUME NEW d \in Int, NEW k \in Nat, NEW m \in Nat, NEW other \in Nat,
         d * d + other < m * m
  PROVE  /\ (d + k) * (d + k) + other <= (m + k) * (m + k)
         /\ (d - k) * (d - k) + other <= (m + k) * (m + k)
<1>1. d \in -m .. m
  <2>1. d * d <= m * m
    BY NoSquareIsNegative
  <2> QED
    BY <2>1, Roots
<1>2. d * k <= m * k /\ (-m) * k <= d * k /\ (-m) * k = -(m * k) /\ d * k \in Int /\ m * k \in Int
  BY <1>1
<1>3. /\ (d + k) * (d + k) = d * d + 2 * (d * k) + k * k
      /\ (d - k) * (d - k) = d * d - 2 * (d * k) + k * k
      /\ (m + k) * (m + k) = m * m + 2 * (m * k) + k * k
  OBVIOUS
<1>4. d * d \in Int /\ m * m \in Int /\ k * k \in Int
  OBVIOUS
<1> DEFINE dd == d * d
           dk == d * k
           mm == m * m
           mk == m * k
           kk == k * k
<1>5. dd + 2 * dk + kk + other <= mm + 2 * mk + kk /\ dd - 2 * dk + kk + other <= mm + 2 * mk + kk
  <2>1. dd \in Int /\ dk \in Int /\ mm \in Int /\ mk \in Int /\ kk \in Int /\ dd + other < mm /\ dk <= mk /\ -mk <= dk
    BY <1>2, <1>4
  <2> HIDE DEF dd, dk, mm, mk, kk
  <2> QED
    BY <2>1
<1> QED
  BY <1>3, <1>5

\* What Encloses asks of a shape that is wholly on the display.
Separates(s) ==
  /\ Pixels(s) \subseteq Figure(s)
  /\ \A c \in Figure(s) : c \in Pixels(s) \/ Beside(c) \subseteq Figure(s)

LEMMA CirSeparates ==
  ASSUME NEW s \in Figures, s.shape = "cir"
  PROVE  Separates(s)
<1> DEFINE x0 == s.x
           y0 == s.y
           len == s.len
<1>1. x0 \in Int /\ y0 \in Int /\ len \in Nat \ {0}
  BY FiguresAssumption
<1>2. Pixels(s) = Cir(x0, y0, len) /\ Figure(s) = Ball(x0, y0, len)
  BY DEF Pixels, Figure
<1> HIDE DEF x0, y0, len
<1>3. ASSUME NEW c \in Ball(x0, y0, len), c \notin Cir(x0, y0, len)
      PROVE  Beside(c) \subseteq Ball(x0, y0, len)
  <2> DEFINE a == c[1] - x0
             b == c[2] - y0
             m == len - 1
  <2>1. c[1] \in Int /\ c[2] \in Int /\ a \in Int /\ b \in Int /\ m \in Nat /\ len = m + 1
    BY <1>1 DEF Ball, Around
  <2>2. a * a \in Nat /\ b * b \in Nat
    BY <2>1, NoSquareIsNegative
  <2>3. a * a + b * b < m * m
    <3>1. ~(a * a + b * b >= m * m)
      BY <1>3 DEF Cir, Square
    <3> QED
      BY <2>1, <2>2, <3>1
  <2> HIDE DEF a, b, m
  <2>4. ASSUME NEW e \in Int, NEW f \in Int, e * e + f * f <= len * len
        PROVE  <<x0 + e, y0 + f>> \in Ball(x0, y0, len)
    <3>1. e * e \in Nat /\ f * f \in Nat /\ e * e <= len * len /\ f * f <= len * len
      BY <1>1, <2>4, NoSquareIsNegative
    <3>2. e \in -len .. len /\ f \in -len .. len
      BY <1>1, <3>1, Roots
    <3>3. (x0 + e) - x0 = e /\ (y0 + f) - y0 = f
      BY <1>1
    <3> QED
      BY <1>1, <2>4, <3>2, <3>3 DEF Ball, Around, Square
  <2>5. /\ (a + 1) * (a + 1) + b * b <= len * len /\ (a - 1) * (a - 1) + b * b <= len * len
        /\ (b + 1) * (b + 1) + a * a <= len * len /\ (b - 1) * (b - 1) + a * a <= len * len
    BY <2>1, <2>2, <2>3, StepSquare
  <2>6. a * a + (b + 1) * (b + 1) <= len * len /\ a * a + (b - 1) * (b - 1) <= len * len
    <3>1. (b + 1) * (b + 1) \in Int /\ (b - 1) * (b - 1) \in Int
      BY <2>1
    <3> QED
      BY <2>2, <2>5, <3>1
  <2>7. /\ <<x0 + (a + 1), y0 + b>> \in Ball(x0, y0, len)
        /\ <<x0 + (a - 1), y0 + b>> \in Ball(x0, y0, len)
        /\ <<x0 + a, y0 + (b + 1)>> \in Ball(x0, y0, len)
        /\ <<x0 + a, y0 + (b - 1)>> \in Ball(x0, y0, len)
    BY <2>1, <2>4, <2>5, <2>6
  <2>8. /\ x0 + (a + 1) = c[1] + 1 /\ x0 + (a - 1) = c[1] - 1 /\ x0 + a = c[1]
        /\ y0 + (b + 1) = c[2] + 1 /\ y0 + (b - 1) = c[2] - 1 /\ y0 + b = c[2]
    BY <1>1, <2>1 DEF a, b
  <2> QED
    BY <2>7, <2>8 DEF Beside
<1> QED
  BY <1>2, <1>3 DEF Separates, Cir

LEMMA RectSeparates ==
  ASSUME NEW s \in Figures, s.shape = "rect"
  PROVE  Separates(s)
<1> DEFINE x0 == s.x
           y0 == s.y
           w == s.width
           h == s.high
           Box == SquareArea(x0, y0, w + 1, h + 1) \ {<<x0 + w, y0>>, <<x0 + w, y0 + h>>}
<1>1. x0 \in Int /\ y0 \in Int /\ w \in Nat /\ h \in Nat
  BY FiguresAssumption
<1>2. Pixels(s) = Rect(x0, y0, h, w) /\ Figure(s) = Box
  BY DEF Pixels, Figure
<1> HIDE DEF x0, y0, w, h
<1>3. ASSUME NEW c \in Box
      PROVE  /\ c[1] \in x0 .. x0 + w /\ c[2] \in y0 .. y0 + h /\ c = <<c[1], c[2]>>
             /\ c[1] = x0 + w => c[2] # y0 /\ c[2] # y0 + h
  BY <1>1 DEF SquareArea
<1>4. ASSUME NEW e \in x0 .. x0 + w, NEW f \in y0 .. y0 + h,
             e = x0 + w => f # y0 /\ f # y0 + h
      PROVE  <<e, f>> \in Box
  BY <1>1, <1>4 DEF SquareArea
<1>5. Rect(x0, y0, h, w) \subseteq Box
  <2>1. ASSUME NEW k \in 0 .. w - 1
        PROVE  <<x0 + k, y0>> \in Box /\ <<x0 + k, y0 + h>> \in Box
    BY <1>1, <1>4
  <2>2. ASSUME NEW k \in 0 .. (h - 1) - 1
        PROVE  <<x0, y0 + 1 + k>> \in Box /\ <<x0 + w, y0 + 1 + k>> \in Box
    BY <1>1, <1>4
  <2> HIDE DEF Box
  <2> QED
    BY <2>1, <2>2 DEF Rect, Row, Upline
<1>6. ASSUME NEW c \in Box, c \notin Rect(x0, y0, h, w)
      PROVE  Beside(c) \subseteq Box
  <2>1. c[1] \in x0 .. x0 + w /\ c[2] \in y0 .. y0 + h /\ c = <<c[1], c[2]>>
    BY <1>3
  <2>2. c[2] # y0 /\ c[2] # y0 + h
    <3> SUFFICES ASSUME c[2] = y0 \/ c[2] = y0 + h PROVE FALSE
      OBVIOUS
    <3>1. c[1] - x0 \in 0 .. w - 1 /\ c[1] = x0 + (c[1] - x0)
      BY <1>1, <1>3, <2>1
    <3>2. c \in Row(x0, y0, w) \cup Row(x0, y0 + h, w)
      BY <2>1, <3>1 DEF Row
    <3> QED
      BY <1>6, <3>2 DEF Rect
  <2>3. c[1] # x0 /\ c[1] # x0 + w
    <3> SUFFICES ASSUME c[1] = x0 \/ c[1] = x0 + w PROVE FALSE
      OBVIOUS
    <3>1. c[2] - (y0 + 1) \in 0 .. (h - 1) - 1 /\ c[2] = y0 + 1 + (c[2] - (y0 + 1))
      BY <1>1, <2>1, <2>2
    <3>2. c \in Upline(x0, y0 + 1, h - 1) \cup Upline(x0 + w, y0 + 1, h - 1)
      BY <2>1, <3>1 DEF Upline
    <3> QED
      BY <1>6, <3>2 DEF Rect
  <2>4. /\ <<c[1] - 1, c[2]>> \in Box /\ <<c[1] + 1, c[2]>> \in Box
        /\ <<c[1], c[2] - 1>> \in Box /\ <<c[1], c[2] + 1>> \in Box
    BY <1>1, <1>4, <2>1, <2>2, <2>3
  <2> QED
    BY <2>4 DEF Beside
<1> QED
  BY <1>2, <1>5, <1>6 DEF Separates

\* What an int makes of a number between 0 and twice its largest.
LEMMA CInts ==
  ASSUME NEW n \in 0 .. 2 * IntHalf - 1
  PROVE  /\ CInt(n) \in Int
         /\ n < IntHalf => CInt(n) = n
         /\ n >= IntHalf => CInt(n) < 0
<1>1. IntHalf \in Nat \ {0}
  BY IntAssumption
<1>2. CASE n < IntHalf
  <2>1. 0 * (2 * IntHalf) + (n + IntHalf) = n + IntHalf /\ n + IntHalf \in 0 .. 2 * IntHalf - 1
    BY <1>1, <1>2
  <2>2. (n + IntHalf) % (2 * IntHalf) = n + IntHalf
    <3>1. 2 * IntHalf \in Nat \ {0} /\ 0 \in Nat
      BY <1>1
    <3>2. (0 * (2 * IntHalf) + (n + IntHalf)) % (2 * IntHalf) = n + IntHalf
      BY <2>1, <3>1, Quotient
    <3> QED
      BY <2>1, <3>2
  <2> QED
    BY <1>1, <1>2, <2>2 DEF CInt
<1>3. CASE n >= IntHalf
  <2>1. 1 * (2 * IntHalf) + (n - IntHalf) = n + IntHalf /\ n - IntHalf \in 0 .. 2 * IntHalf - 1
    BY <1>1, <1>3
  <2>2. (n + IntHalf) % (2 * IntHalf) = n - IntHalf
    <3>1. 2 * IntHalf \in Nat \ {0} /\ 1 \in Nat
      BY <1>1
    <3>2. (1 * (2 * IntHalf) + (n - IntHalf)) % (2 * IntHalf) = n - IntHalf
      BY <2>1, <3>1, Quotient
    <3> QED
      BY <2>1, <3>2
  <2> QED
    BY <1>1, <1>3, <2>2 DEF CInt
<1> QED
  BY <1>1, <1>2, <1>3

\* The products of an ellipse, by their roots.
LEMMA Roundness ==
  ASSUME NEW w \in Nat, NEW h \in Nat, NEW a \in Int, NEW b \in Int
  PROVE  /\ Square(a) * Square(h) = (a * h) * (a * h) /\ Square(b) * Square(w) = (b * w) * (b * w)
         /\ Square(a * h) = (a * h) * (a * h) /\ Square(b * w) = (b * w) * (b * w)
         /\ Square(w) * Square(h) = (w * h) * (w * h) /\ Square(w * h) = (w * h) * (w * h)
<1>1. /\ (a * a) * (h * h) = (a * h) * (a * h)
      /\ (b * b) * (w * w) = (b * w) * (b * w)
      /\ (w * w) * (h * h) = (w * h) * (w * h)
  OBVIOUS
<1> QED
  BY <1>1 DEF Square

\* A cell at a and b from the centre of an ellipse belongs to what is painted if
\* the products say so, which no overflow hides.
LEMMA EllipseIs ==
  ASSUME NEW x0 \in Int, NEW y0 \in Int, NEW w \in Nat \ {0}, NEW h \in Nat \ {0},
         Square(w * h) < IntHalf,
         NEW a \in -w .. w, NEW b \in -h .. h
  PROVE  LET sum == (a * h) * (a * h) + (b * w) * (b * w)
             m   == (w - 1) * (h - 1)
         IN <<x0 + a, y0 + b>> \in Ellipse(x0, y0, h, w)
              <=> sum <= (w * h) * (w * h) /\ sum >= m * m
<1> DEFINE p == a * h
           q == b * w
           n == w * h
           m == (w - 1) * (h - 1)
           sum == p * p + q * q
<1>1. /\ Square(a) * Square(h) = p * p /\ Square(b) * Square(w) = q * q
      /\ Square(w) * Square(h) = n * n /\ Square(n) = n * n
      /\ Square(w - 1) * Square(h - 1) = m * m
  <2>1. /\ w \in Nat /\ h \in Nat /\ a \in Int /\ b \in Int
        /\ w - 1 \in Nat /\ h - 1 \in Nat
    OBVIOUS
  <2>2. Square(w - 1) * Square(h - 1) = m * m
    BY <2>1, Roundness
  <2> QED
    BY <2>1, <2>2, Roundness
<1>2. p \in -n .. n /\ q \in -n .. n /\ n \in Nat \ {0} /\ m \in 0 .. n
  <2>1. /\ -w * h <= a * h /\ a * h <= w * h /\ -w * h = -(w * h)
        /\ -h * w <= b * w /\ b * w <= h * w /\ -h * w = -(w * h) /\ h * w = w * h
        /\ w * h \in Nat /\ w * h >= 1 /\ a * h \in Int /\ b * w \in Int
    OBVIOUS
  <2>2. (w - 1) * (h - 1) = w * h - w - h + 1 /\ (w - 1) * (h - 1) >= 0
    OBVIOUS
  <2> QED
    BY <2>1, <2>2
<1>3. /\ w * w \in Nat /\ h * h \in Nat /\ w * w <= n * n /\ h * h <= n * n
      /\ n * n \in Nat /\ n * n < IntHalf
  <2>1. w <= n /\ h <= n
    <3>1. w * 1 <= w * h /\ 1 * h <= w * h
      OBVIOUS
    <3> QED
      BY <3>1
  <2>2. w \in -n .. n /\ h \in -n .. n
    BY <1>2, <2>1
  <2> QED
    BY <1>1, <1>2, <2>2, Squares
<1>4. p * p \in 0 .. n * n /\ q * q \in 0 .. n * n /\ m * m \in 0 .. n * n
  BY <1>2, <1>3, Squares
<1> DEFINE c == <<x0 + a, y0 + b>>
<1>5. c \in Around(x0, y0, w, h) /\ c[1] - x0 = a /\ c[2] - y0 = b
  BY DEF Around
<1>6. CInt(Square(w)) = w * w /\ CInt(Square(h)) = h * h
  BY <1>3, CInts, IntAssumption DEF Square
<1>7. c \in Ellipse(x0, y0, h, w)
        <=> CInt(sum) <= CInt(n * n) /\ CInt(sum) >= CInt(m * m)
  <2>1. /\ Square(a) * CInt(Square(h)) = p * p /\ Square(b) * CInt(Square(w)) = q * q
        /\ CInt(Square(w)) * CInt(Square(h)) = n * n
    BY <1>1, <1>6 DEF Square
  <2> HIDE DEF c, p, q, n, m
  <2> QED
    BY <1>1, <1>5, <2>1 DEF Ellipse
<1>8. CInt(n * n) = n * n /\ CInt(m * m) = m * m
  BY <1>3, <1>4, CInts, IntAssumption
<1>9. sum \in 0 .. 2 * IntHalf - 1
  <2> DEFINE pp == p * p
             qq == q * q
             nn == n * n
  <2>1. pp \in 0 .. nn /\ qq \in 0 .. nn /\ nn \in Nat /\ nn < IntHalf
    BY <1>3, <1>4
  <2> HIDE DEF pp, qq, nn
  <2>2. pp + qq \in 0 .. 2 * IntHalf - 1
    BY <2>1, IntAssumption
  <2> QED
    BY <2>2 DEF pp, qq
<1>10. c \in Ellipse(x0, y0, h, w) <=> sum <= n * n /\ sum >= m * m
  <2> DEFINE nn == n * n
             mm == m * m
  <2>1. nn \in Nat /\ nn < IntHalf /\ mm \in 0 .. nn /\ CInt(nn) = nn /\ CInt(mm) = mm
    BY <1>3, <1>4, <1>8
  <2>2. sum < IntHalf => CInt(sum) = sum
    BY <1>9, CInts
  <2>3. sum >= IntHalf => CInt(sum) < 0 /\ CInt(sum) \in Int
    BY <1>9, CInts
  <2>4. c \in Ellipse(x0, y0, h, w) <=> CInt(sum) <= CInt(nn) /\ CInt(sum) >= CInt(mm)
    BY <1>7
  <2> HIDE DEF sum, nn, mm, c
  <2>5. c \in Ellipse(x0, y0, h, w) <=> sum <= nn /\ sum >= mm
    BY <1>9, <2>1, <2>2, <2>3, <2>4, IntAssumption
  <2> QED
    BY <2>5 DEF nn, mm
<1> QED
  BY <1>10

\* The neighbours of a cell inside the hole of an ellipse are inside the ellipse.
LEMMA Neighbours ==
  ASSUME NEW w \in Nat \ {0}, NEW h \in Nat \ {0}, NEW a \in Int, NEW b \in Int,
         LET m == (w - 1) * (h - 1) IN (a * h) * (a * h) + (b * w) * (b * w) < m * m
  PROVE  /\ ((a + 1) * h) * ((a + 1) * h) + (b * w) * (b * w) <= (w * h) * (w * h)
         /\ ((a - 1) * h) * ((a - 1) * h) + (b * w) * (b * w) <= (w * h) * (w * h)
<1> DEFINE p == a * h
           q == b * w
           m == (w - 1) * (h - 1)
           n == w * h
<1>1. p \in Int /\ q \in Int /\ q * q \in Nat /\ m \in Nat /\ n \in Nat /\ p * p + q * q < m * m
  <2>1. p \in Int /\ q \in Int /\ m \in Nat /\ n \in Nat
    OBVIOUS
  <2> QED
    BY <2>1, NoSquareIsNegative
<1>2. (a + 1) * h = p + h /\ (a - 1) * h = p - h
  OBVIOUS
<1>3. m + h \in 0 .. n
  <2>1. (w - 1) * (h - 1) = w * h - w - h + 1
    OBVIOUS
  <2> QED
    BY <1>1, <2>1
<1> HIDE DEF p, q, m, n
<1>4. /\ (p + h) * (p + h) + q * q <= (m + h) * (m + h)
      /\ (p - h) * (p - h) + q * q <= (m + h) * (m + h)
  BY <1>1, StepSquare
<1>5. (m + h) * (m + h) <= n * n /\ (m + h) * (m + h) \in Nat
  <2>1. m + h \in Int /\ m + h \in -n .. n
    BY <1>1, <1>3
  <2> QED
    BY <1>1, <2>1, Squares
<1>6. /\ (p + h) * (p + h) + q * q <= n * n
      /\ (p - h) * (p - h) + q * q <= n * n
  <2> DEFINE u == (p + h) * (p + h)
             v == (p - h) * (p - h)
             k == (m + h) * (m + h)
             l == n * n
             qq == q * q
  <2>1. u \in Int /\ v \in Int /\ k \in Int /\ l \in Int /\ qq \in Int
    BY <1>1
  <2>2. u + qq <= k /\ v + qq <= k /\ k <= l
    BY <1>4, <1>5
  <2> HIDE DEF u, v, k, l, qq
  <2>3. u + qq <= l /\ v + qq <= l
    BY <2>1, <2>2
  <2> QED
    BY <2>3 DEF u, v, l, qq
<1> QED
  BY <1>2, <1>6 DEF p, q, n

LEMMA EllipseSeparates ==
  ASSUME NEW s \in Figures, s.shape = "ellipse", Fits(s), Square(s.width * s.high) < IntHalf
  PROVE  Separates(s)
<1> DEFINE x0 == s.x
           y0 == s.y
           w == s.width
           h == s.high
           m == (w - 1) * (h - 1)
           Sum(a, b) == (a * h) * (a * h) + (b * w) * (b * w)
           Whole == {c \in Display : Square((c[1] - x0) * h) + Square((c[2] - y0) * w)
                                       <= Square(w * h)}
<1>1. x0 \in Int /\ y0 \in Int /\ w \in Nat \ {0} /\ h \in Nat \ {0} /\ Square(w * h) < IntHalf
  BY FiguresAssumption
<1>2. Pixels(s) = Ellipse(x0, y0, h, w) /\ Figure(s) = Whole
  BY DEF Pixels, Figure
<1>3. Ellipse(x0, y0, h, w) \subseteq Display
  BY <1>2 DEF Fits
<1> HIDE DEF x0, y0, w, h
<1>4. /\ W \in Nat \ {0} /\ H \in Nat \ {0}
      /\ \A c \in Display : c[1] \in 0 .. W - 1 /\ c[2] \in 0 .. H - 1 /\ c = <<c[1], c[2]>>
  BY DisplayAssumption DEF Display
<1>5. ASSUME NEW a \in Int, NEW b \in Int
      PROVE  Square(a * h) + Square(b * w) = Sum(a, b) /\ Square(w * h) = (w * h) * (w * h)
  BY DEF Square
<1>6. ASSUME NEW a \in Int, NEW b \in Int, Sum(a, b) <= (w * h) * (w * h)
      PROVE  a \in -w .. w /\ b \in -h .. h
  <2>1. (a * h) * (a * h) <= (w * h) * (w * h) /\ (b * w) * (b * w) <= (w * h) * (w * h)
    <3> DEFINE p == a * h
               q == b * w
    <3>1. p \in Int /\ q \in Int /\ (w * h) * (w * h) \in Int
      BY <1>1
    <3>2. p * p \in Nat /\ q * q \in Nat
      BY <3>1, NoSquareIsNegative
    <3> QED
      BY <1>6, <3>1, <3>2
  <2>2. a * h \in -(w * h) .. w * h /\ b * w \in -(w * h) .. w * h
    <3>1. a * h \in Int /\ b * w \in Int /\ w * h \in Nat
      BY <1>1
    <3> QED
      BY <2>1, <3>1, Roots
  <2>3. a <= w /\ a >= -w
    <3>1. a >= w + 1 => a * h >= (w + 1) * h /\ (w + 1) * h = w * h + h
      BY <1>1
    <3>2. a <= -w - 1 => a * h <= (-w - 1) * h /\ (-w - 1) * h = -(w * h) - h
      BY <1>1
    <3>3. w * h \in Int /\ a * h \in Int
      BY <1>1
    <3> QED
      BY <1>1, <2>2, <3>1, <3>2, <3>3
  <2>4. b <= h /\ b >= -h
    <3>1. b >= h + 1 => b * w >= (h + 1) * w /\ (h + 1) * w = w * h + w
      BY <1>1
    <3>2. b <= -h - 1 => b * w <= (-h - 1) * w /\ (-h - 1) * w = -(w * h) - w
      BY <1>1
    <3>3. w * h \in Int /\ b * w \in Int
      BY <1>1
    <3> QED
      BY <1>1, <2>2, <3>1, <3>2, <3>3
  <2> QED
    BY <1>1, <2>3, <2>4
<1>7. ASSUME NEW a \in -w .. w, NEW b \in -h .. h
      PROVE  <<x0 + a, y0 + b>> \in Ellipse(x0, y0, h, w)
               <=> Sum(a, b) <= (w * h) * (w * h) /\ Sum(a, b) >= m * m
  BY <1>1, EllipseIs
\* The ends of the axes are painted, and on the display.
<1>8. x0 - w >= 0 /\ x0 + w <= W - 1 /\ y0 - h >= 0 /\ y0 + h <= H - 1
  <2>1. m \in 0 .. w * h /\ m * m <= (w * h) * (w * h) /\ w * h \in Nat
    <3>1. w * h \in Nat /\ (w - 1) * (h - 1) = w * h - w - h + 1 /\ (w - 1) * (h - 1) \in Nat
      BY <1>1
    <3>2. m \in 0 .. w * h
      BY <1>1, <3>1
    <3> QED
      BY <3>1, <3>2, Squares
  <2>2. /\ Sum(w, 0) = (w * h) * (w * h) /\ Sum(-w, 0) = (w * h) * (w * h)
        /\ Sum(0, h) = (w * h) * (w * h) /\ Sum(0, -h) = (w * h) * (w * h)
    <3>1. /\ 0 * h = 0 /\ 0 * w = 0 /\ (-w) * h = -(w * h) /\ (-h) * w = -(w * h)
          /\ h * w = w * h /\ w * h \in Nat
      BY <1>1
    <3>2. (-(w * h)) * (-(w * h)) = (w * h) * (w * h) /\ (w * h) * (w * h) \in Nat
      BY <3>1
    <3> QED
      BY <3>1, <3>2
  <2>3. /\ w \in -w .. w /\ -w \in -w .. w /\ 0 \in -w .. w
        /\ h \in -h .. h /\ -h \in -h .. h /\ 0 \in -h .. h
    BY <1>1
  <2>4. (w * h) * (w * h) \in Int /\ m * m \in Int
    BY <1>1
  <2> HIDE DEF m, Sum
  <2>5. /\ <<x0 + w, y0 + 0>> \in Ellipse(x0, y0, h, w)
        /\ <<x0 + (-w), y0 + 0>> \in Ellipse(x0, y0, h, w)
        /\ <<x0 + 0, y0 + h>> \in Ellipse(x0, y0, h, w)
        /\ <<x0 + 0, y0 + (-h)>> \in Ellipse(x0, y0, h, w)
    BY <1>7, <2>1, <2>2, <2>3, <2>4
  <2>6. /\ <<x0 + w, y0 + 0>> \in Display /\ <<x0 + (-w), y0 + 0>> \in Display
        /\ <<x0 + 0, y0 + h>> \in Display /\ <<x0 + 0, y0 + (-h)>> \in Display
    BY <1>3, <2>5
  <2> QED
    BY <1>1, <2>6, DisplayAssumption DEF Display
<1>9. ASSUME NEW a \in Int, NEW b \in Int, Sum(a, b) <= (w * h) * (w * h)
      PROVE  <<x0 + a, y0 + b>> \in Whole
  <2>1. a \in -w .. w /\ b \in -h .. h
    BY <1>6, <1>9
  <2>2. <<x0 + a, y0 + b>> \in Display
    BY <1>1, <1>4, <1>8, <2>1 DEF Display
  <2>3. Square(a * h) + Square(b * w) <= Square(w * h)
    BY <1>5, <1>9
  <2> DEFINE c == <<x0 + a, y0 + b>>
  <2>4. c[1] = x0 + a /\ c[2] = y0 + b /\ c \in Display
    BY <2>2
  <2> HIDE DEF c, Sum
  <2>5. c[1] - x0 = a /\ c[2] - y0 = b
    BY <1>1, <2>4
  <2>6. c \in Whole
    BY <2>3, <2>4, <2>5
  <2> QED
    BY <2>6 DEF c
<1>10. ASSUME NEW c \in Display
       PROVE  /\ c[1] - x0 \in Int /\ c[2] - y0 \in Int
              /\ c = <<x0 + (c[1] - x0), y0 + (c[2] - y0)>>
              /\ c \in Whole <=> Sum(c[1] - x0, c[2] - y0) <= (w * h) * (w * h)
  <2>1. c[1] - x0 \in Int /\ c[2] - y0 \in Int /\ c = <<x0 + (c[1] - x0), y0 + (c[2] - y0)>>
    BY <1>1, <1>4
  <2> HIDE DEF Sum
  <2> QED
    BY <1>5, <2>1
<1>11. Ellipse(x0, y0, h, w) \subseteq Whole
  <2> SUFFICES ASSUME NEW c \in Ellipse(x0, y0, h, w) PROVE c \in Whole
    OBVIOUS
  <2> DEFINE a == c[1] - x0
             b == c[2] - y0
  <2>1. c \in Display /\ a \in -w .. w /\ b \in -h .. h
    <3>1. c \in Around(x0, y0, w, h)
      BY DEF Ellipse
    <3> QED
      BY <1>1, <1>3, <3>1 DEF Around
  <2> HIDE DEF Whole, Sum
  <2> QED
    BY <1>7, <1>10, <2>1
<1>12. ASSUME NEW c \in Whole, c \notin Ellipse(x0, y0, h, w)
       PROVE  Beside(c) \subseteq Whole
  <2> DEFINE a == c[1] - x0
             b == c[2] - y0
  <2>1. c \in Display
    OBVIOUS
  <2>2. a \in Int /\ b \in Int /\ c = <<x0 + a, y0 + b>> /\ Sum(a, b) <= (w * h) * (w * h)
    BY <1>10, <2>1
  <2>3. Sum(a, b) < m * m
    <3>1. Sum(a, b) \in Int /\ m * m \in Int
      BY <1>1, <2>2
    <3>2. ~(Sum(a, b) >= m * m)
      <4> HIDE DEF Sum, m, a, b
      <4> QED
        BY <1>6, <1>7, <1>12, <2>2
    <3> HIDE DEF Sum, m
    <3> QED
      BY <3>1, <3>2
  <2>4. /\ c[1] = x0 + a /\ c[2] = y0 + b
        /\ c[1] + 1 = x0 + (a + 1) /\ c[1] - 1 = x0 + (a - 1)
        /\ c[2] + 1 = y0 + (b + 1) /\ c[2] - 1 = y0 + (b - 1)
    BY <1>1, <1>4, <2>1
  <2> HIDE DEF a, b
  <2>5. Sum(a + 1, b) <= (w * h) * (w * h) /\ Sum(a - 1, b) <= (w * h) * (w * h)
    BY <1>1, <2>2, <2>3, Neighbours
  <2>6. Sum(a, b + 1) <= (w * h) * (w * h) /\ Sum(a, b - 1) <= (w * h) * (w * h)
    <3>1. (b * w) * (b * w) + (a * h) * (a * h) < ((h - 1) * (w - 1)) * ((h - 1) * (w - 1))
      <4>1. (h - 1) * (w - 1) = m /\ (b * w) * (b * w) \in Int /\ (a * h) * (a * h) \in Int
        BY <1>1, <2>2
      <4> HIDE DEF m
      <4> QED
        BY <2>3, <4>1
    <3>2. /\ ((b + 1) * w) * ((b + 1) * w) + (a * h) * (a * h) <= (h * w) * (h * w)
          /\ ((b - 1) * w) * ((b - 1) * w) + (a * h) * (a * h) <= (h * w) * (h * w)
      BY <1>1, <2>2, <3>1, Neighbours
    <3>3. /\ h * w = w * h /\ ((b + 1) * w) * ((b + 1) * w) \in Int
          /\ ((b - 1) * w) * ((b - 1) * w) \in Int /\ (a * h) * (a * h) \in Int
      BY <1>1, <2>2
    <3> QED
      BY <3>2, <3>3
  <2> HIDE DEF Sum, Whole
  <2>7. /\ <<x0 + (a + 1), y0 + b>> \in Whole /\ <<x0 + (a - 1), y0 + b>> \in Whole
        /\ <<x0 + a, y0 + (b + 1)>> \in Whole /\ <<x0 + a, y0 + (b - 1)>> \in Whole
    <3>1. a + 1 \in Int /\ a - 1 \in Int /\ b + 1 \in Int /\ b - 1 \in Int
      BY <2>2
    <3> QED
      BY <1>9, <2>2, <2>5, <2>6, <3>1
  <2> QED
    BY <2>4, <2>7 DEF Beside
<1> HIDE DEF Whole
<1> QED
  BY <1>2, <1>11, <1>12 DEF Separates

LEMMA EachSeparates ==
  ASSUME NEW s \in Figures, Fits(s),
         s.shape = "ellipse" => Square(s.width * s.high) < IntHalf
  PROVE  Separates(s)
<1>1. CASE s.shape \in {"cir", "rect", "ellipse"}
  BY <1>1, CirSeparates, RectSeparates, EllipseSeparates
<1>2. CASE s.shape \notin {"cir", "rect", "ellipse"}
  <2>1. Figure(s) = Pixels(s)
    BY <1>2 DEF Figure, Pixels
  <2> QED
    BY <2>1 DEF Separates
<1> QED
  BY <1>1, <1>2

\* A shape is drawn or not yet.
ShapeInv == call.kind = "shape" =>
              /\ call.shape \in Figures
              /\ pc = "called" => Painted = {}
              /\ pc = "returned" => Painted = At(Pixels(call.shape)) \cap Offsets

Kinds == call \in ShapeCalls \cup StringCalls \cup BitmapCalls

LEMMA KindsInit == Init => Kinds
BY DEF Init, Kinds

LEMMA KindsStep == Kinds /\ [Next]_vars => Kinds' /\ call' = call
BY DEF Kinds, Next, vars, DrawShape, Glyph, NoGlyph, Terminator, NoFile, BmpRow, Fault, BmpDone

\* A call is of one kind.
LEMMA OneKind ==
  ASSUME Kinds
  PROVE  /\ call.kind \in {"shape", "string", "bitmap"}
         /\ call.kind = "shape" => call.shape \in Figures
         /\ call.kind = "string" => call \in StringCalls
         /\ call.kind = "bitmap" => call.file \in Bitmaps
BY DEF Kinds, ShapeCalls, StringCalls, BitmapCalls

LEMMA ShapeInit == Init => ShapeInv
<1> SUFFICES ASSUME Init PROVE ShapeInv
  OBVIOUS
<1>1. pc = "called" /\ Painted = {}
  BY DEF Init, Painted
<1> QED
  BY <1>1, KindsInit, OneKind DEF ShapeInv

LEMMA ShapeStep == Kinds /\ ShapeInv /\ [Next]_vars => ShapeInv'
<1> SUFFICES ASSUME Kinds, ShapeInv, [Next]_vars, call.kind = "shape" PROVE ShapeInv'
  BY KindsStep DEF ShapeInv
<1>1. CASE DrawShape
  <2>1. Painted = {} /\ call' = call /\ pc' = "returned" /\ call.shape \in Figures
    BY <1>1 DEF DrawShape, ShapeInv
  <2>2. fb' = [o \in Offsets |-> IF o \in At(Pixels(call.shape)) THEN Ink ELSE fb[o]]
    BY <1>1 DEF DrawShape, Draw
  <2>3. \A o \in Offsets : fb[o] = <<>>
    BY <2>1 DEF Painted
  <2>4. Painted' = At(Pixels(call.shape)) \cap Offsets
    BY <2>2, <2>3 DEF Painted, Ink
  <2> QED
    BY <2>1, <2>4 DEF ShapeInv
<1>2. CASE UNCHANGED vars
  BY <1>2 DEF vars, ShapeInv, Painted
<1> QED
  BY <1>1, <1>2 DEF Next, Glyph, NoGlyph, Terminator, NoFile, BmpRow, Fault, BmpDone

\* A shape that is wholly on the display separates its whole figure from the rest,
\* for figures, displays and ints of every size (my_draw.c:10-42, 60-78,
\* draw.c:43-59).
THEOREM OutlinesHaveNoGap == Spec => []Encloses
<1>1. Init => Kinds /\ ShapeInv
  BY KindsInit, ShapeInit
<1>2. Kinds /\ ShapeInv /\ [Next]_vars => (Kinds /\ ShapeInv)'
  BY KindsStep, ShapeStep
<1>3. ShapeInv => Encloses
  <2> SUFFICES ASSUME ShapeInv, pc = "returned", call.kind = "shape", Fits(call.shape),
                      call.shape.shape = "ellipse"
                        => Square(call.shape.width * call.shape.high) < IntHalf
               PROVE  /\ Painted \subseteq At(Figure(call.shape))
                      /\ \A c \in Figure(call.shape) :
                           Offset(c) \in Painted \/ Beside(c) \subseteq Figure(call.shape)
    BY DEF Encloses
  <2> DEFINE s == call.shape
  <2>1. s \in Figures /\ Painted = At(Pixels(s)) \cap Offsets
    BY DEF ShapeInv
  <2>2. Separates(s)
    BY <2>1, EachSeparates
  <2>3. ASSUME NEW c \in Pixels(s)
        PROVE  Offset(c) \in Painted
    <3>1. c \in Display
      BY DEF Fits
    <3>2. Offset(c) \in Offsets
      BY <3>1, Inside
    <3> QED
      BY <2>1, <3>2 DEF At
  <2> HIDE DEF s
  <2>4. Painted \subseteq At(Figure(s))
    BY <2>1, <2>2 DEF Separates, At
  <2> QED
    BY <2>2, <2>3, <2>4 DEF Separates, s
<1> QED
  BY <1>1, <1>2, <1>3, PTL DEF Spec

-----------------------------------------------------------------------------
(* Bitmaps                                                                 *)

LEMMA BitmapShape ==
  ASSUME NEW file \in Bitmaps
  PROVE  /\ file.w \in Nat /\ file.h \in Nat /\ file.size \in Nat /\ file.size >= 54
         /\ W \in Nat \ {0} /\ H \in Nat \ {0}
BY BitmapsAssumption, DisplayAssumption

\* Which of the display's cells a row of a bitmap is read into.
LEMMA RowCells ==
  ASSUME NEW file \in Bitmaps, file.w <= W, NEW row \in 0 .. H - 1, NEW c \in Display
  PROVE  LET start == RowStart(file, row)
             col   == c[1] - (W - file.w)
         IN /\ start \in Nat /\ Offset(c) \in Nat
            /\ Offset(c) \in start .. start + file.w - 1 <=> H - 1 - c[2] = row /\ col >= 0
            /\ H - 1 - c[2] = row => Offset(c) - start = col
<1> DEFINE w == file.w
           start == RowStart(file, row)
           c1 == c[1]
           c2 == c[2]
           r == H - 1 - c2
<1>1. w \in 0 .. W /\ W \in Nat \ {0} /\ H \in Nat \ {0} /\ row \in 0 .. H - 1
  BY BitmapShape
<1>2. c1 \in 0 .. W - 1 /\ c2 \in 0 .. H - 1 /\ Offset(c) \in Nat
  BY Inside DEF Offsets
<1>3. start = W * H - w - row * W /\ Offset(c) = W * c2 + c1
  BY DEF RowStart, Offset
<1> HIDE DEF w, start, c1, c2
<1>4. W * c2 = W * H - W - r * W /\ W * H \in Int /\ r * W \in Int /\ row * W \in Int /\ r \in 0 .. H - 1
  BY <1>1, <1>2
<1>5. start \in Nat
  <2>1. row * W <= (H - 1) * W /\ (H - 1) * W = W * H - W
    BY <1>1
  <2> QED
    BY <1>1, <1>3, <1>4, <2>1
<1>6. r < row => r * W + W <= row * W
  <2> SUFFICES ASSUME r + 1 <= row PROVE r * W + W <= row * W
    BY <1>1, <1>4
  <2>1. (r + 1) * W <= row * W /\ (r + 1) * W = r * W + W
    BY <1>1, <1>4
  <2> QED
    BY <2>1
<1>7. r > row => row * W + W <= r * W
  <2> SUFFICES ASSUME row + 1 <= r PROVE row * W + W <= r * W
    BY <1>1, <1>4
  <2>1. (row + 1) * W <= r * W /\ (row + 1) * W = row * W + W
    BY <1>1, <1>4
  <2> QED
    BY <2>1
<1>8. r = row => r * W = row * W
  OBVIOUS
<1> DEFINE wh == W * H
           rw == r * W
           row_w == row * W
<1>9. /\ wh \in Int /\ rw \in Int /\ row_w \in Int
      /\ start = wh - w - row_w /\ Offset(c) = wh - W - rw + c1
      /\ r < row => rw + W <= row_w
      /\ r > row => row_w + W <= rw
      /\ r = row => rw = row_w
      /\ r \in Int
  BY <1>3, <1>4, <1>6, <1>7, <1>8
<1> HIDE DEF wh, rw, row_w, r
<1>10. /\ Offset(c) \in start .. start + w - 1 <=> r = row /\ c1 - (W - w) >= 0
       /\ r = row => Offset(c) - start = c1 - (W - w)
  BY <1>1, <1>2, <1>9
<1> QED
  BY <1>2, <1>5, <1>10 DEF w, start, c1, r, c2

\* Of a pixel that is wholly in the file, its bytes are read.
LEMMA ReadsBytes ==
  ASSUME NEW file \in Bitmaps, NEW n \in Nat, NEW k \in 0 .. 2, 54 + 3 * n + k < file.size
  PROVE  ByteRead(file, n, k) = 54 + 3 * n + k
<1> DEFINE inFile == {m \in 0 .. n : 54 + 3 * m + k < file.size}
<1>1. n \in inFile /\ \A m \in inFile : n >= m
  OBVIOUS
<1>2. inFile \subseteq Nat
  OBVIOUS
<1> HIDE DEF inFile
<1>3. Max(inFile) \in inFile /\ \A m \in inFile : Max(inFile) >= m
  BY <1>1 DEF Max
<1>4. Max(inFile) = n
  <2> DEFINE max == Max(inFile)
  <2>1. max \in Nat /\ n >= max /\ max >= n
    BY <1>1, <1>2, <1>3
  <2> HIDE DEF max
  <2>2. max = n
    BY <2>1
  <2> QED
    BY <2>2 DEF max
<1>5. ByteRead(file, n, k) = IF inFile = {} THEN 14 + k ELSE 54 + 3 * Max(inFile) + k
  BY DEF ByteRead, inFile
<1> QED
  BY <1>1, <1>4, <1>5

LEMMA PlainPixel ==
  ASSUME NEW file \in Bitmaps, Plain(file), NEW row \in 0 .. file.h - 1, NEW col \in 0 .. file.w - 1
  PROVE  PixelRead(file, row * file.w + col) = BitmapPixel(file, row, col)
<1> DEFINE w == file.w
           h == file.h
           n == row * w + col
<1>1. /\ w \in Nat /\ h \in Nat /\ file.size \in Nat /\ file.size >= 54 + 3 * w * h
      /\ (3 * w) % 4 = 0 /\ file.offset = 54
  BY BitmapShape DEF Plain
<1>2. row \in 0 .. h - 1 /\ col \in 0 .. w - 1
  OBVIOUS
<1> HIDE DEF w, h
<1>3. n \in Nat /\ n + 1 <= w * h /\ row * w \in Nat /\ w * h \in Nat
  <2>1. row * w <= (h - 1) * w /\ (h - 1) * w = w * h - w /\ row * w \in Nat
    BY <1>1, <1>2
  <2> QED
    BY <1>1, <1>2, <2>1
<1>4. 3 * w * h = 3 * (w * h)
  BY <1>1
<1>5. 54 + 3 * n + 2 < file.size
  <2> HIDE DEF n
  <2> QED
    BY <1>1, <1>3, <1>4
<1>6. 4 * ((3 * w + 3) \div 4) = 3 * w
  BY <1>1
<1>7. file.offset + row * (3 * w) + 3 * col = 54 + 3 * n
  <2>1. row * (3 * w) = 3 * (row * w)
    BY <1>1, <1>2
  <2> QED
    BY <1>1, <1>2, <1>3, <2>1
<1>8. BitmapPixel(file, row, col) = <<54 + 3 * n, 54 + 3 * n + 1, 54 + 3 * n + 2>>
  <2>1. file.offset + row * (4 * ((3 * w + 3) \div 4)) + 3 * col = 54 + 3 * n
    BY <1>6, <1>7
  <2> HIDE DEF n
  <2> QED
    BY <2>1 DEF BitmapPixel, w
<1>9. PixelRead(file, n) = <<54 + 3 * n + 0, 54 + 3 * n + 1, 54 + 3 * n + 2>>
  <2> HIDE DEF n
  <2>1. ASSUME NEW k \in 0 .. 2 PROVE ByteRead(file, n, k) = 54 + 3 * n + k
    <3>1. 54 + 3 * n + k < file.size
      BY <1>1, <1>3, <1>5
    <3> QED
      BY <1>3, <3>1, ReadsBytes
  <2>2. 0 \in 0 .. 2 /\ 1 \in 0 .. 2 /\ 2 \in 0 .. 2
    OBVIOUS
  <2> QED
    BY <2>1, <2>2 DEF PixelRead
<1>10. 54 + 3 * n + 0 = 54 + 3 * n
  BY <1>3
<1> QED
  BY <1>8, <1>9, <1>10 DEF w

\* A byte that is read is one of the file's, or what buf begins with: bytes 14 to 16
\* of the header.
LEMMA ReadsSome ==
  ASSUME NEW file \in Bitmaps, NEW n \in Nat, NEW k \in 0 .. 2
  PROVE  ByteRead(file, n, k) \in 14 .. file.size - 1
<1> DEFINE inFile == {m \in 0 .. n : 54 + 3 * m + k < file.size}
           size0 == file.size
<1>1. size0 \in Nat /\ size0 >= 54
  BY BitmapShape
<1>2. CASE inFile = {}
  <2>1. ByteRead(file, n, k) = 14 + k
    BY <1>2 DEF ByteRead
  <2> QED
    BY <1>1, <2>1
<1>3. CASE inFile # {}
  <2> DEFINE q == (size0 - 55 - k) \div 3
  <2>1. 0 \in inFile
    <3>1. PICK m \in 0 .. n : 54 + 3 * m + k < size0
      BY <1>3
    <3>2. 0 \in 0 .. n /\ 54 + 3 * 0 + k < size0
      BY <1>1, <3>1
    <3> QED
      BY <3>2
  <2>2. q \in Nat /\ \A m \in Nat : 54 + 3 * m + k < size0 <=> m <= q
    <3>1. size0 - 55 - k \in Nat
      BY <1>1, <2>1
    <3> QED
      BY <1>1, <3>1
  <2>3. \E m \in inFile : \A l \in inFile : m >= l
    <3> HIDE DEF q
    <3>1. CASE q <= n
      <4>1. q \in inFile /\ \A l \in inFile : q >= l
        BY <2>2, <3>1
      <4> QED
        BY <4>1
    <3>2. CASE n <= q
      <4>1. n \in inFile /\ \A l \in inFile : n >= l
        BY <2>2, <3>2
      <4> QED
        BY <4>1
    <3> QED
      BY <2>2, <3>1, <3>2
  <2> HIDE DEF inFile, size0
  <2>4. Max(inFile) \in inFile
    BY <2>3 DEF Max
  <2> DEFINE max == Max(inFile)
  <2>5. max \in Nat /\ 54 + 3 * max + k < size0
    BY <2>4 DEF inFile, size0
  <2>6. ByteRead(file, n, k) = 54 + 3 * max + k
    BY <1>3 DEF ByteRead, inFile
  <2> HIDE DEF max
  <2> QED
    BY <1>1, <2>5, <2>6 DEF size0
<1> QED
  BY <1>2, <1>3

\* What is seen of a bitmap, whatever file it is read from.
BytesSeen ==
  \A o \in Offsets : \/ fb[o] = <<>>
                     \/ /\ fb[o] \in Seq(Nat) /\ Len(fb[o]) = 3
                        /\ \A k \in 1 .. 3 : fb[o][k] \in 14 .. call.file.size - 1

RowsSeen ==
  \A c \in Display :
    LET r   == H - 1 - c[2]
        col == c[1] - (W - call.file.w)
    IN fb[Offset(c)] = IF r < i /\ col >= 0 THEN BitmapPixel(call.file, r, col) ELSE <<>>

BmpInv == call.kind = "bitmap" =>
            /\ i \in 0 .. call.file.h /\ x = 0 /\ size = "psize"
            /\ DOMAIN fb = Offsets
            /\ BytesSeen
            /\ Plain(call.file) => pc # "dead" /\ RowsSeen

LEMMA BmpInit == Init => BmpInv
<1> SUFFICES ASSUME Init, call.kind = "bitmap" PROVE BmpInv
  BY DEF BmpInv
<1>1. call.file \in Bitmaps /\ i = 0 /\ x = 0 /\ size = "psize" /\ pc = "called"
  BY KindsInit, OneKind DEF Init
<1>2. call.file.h \in Nat
  BY <1>1, BitmapShape
<1>3. fb = [o \in Offsets |-> <<>>]
  BY DEF Init
<1>4. RowsSeen
  <2> SUFFICES ASSUME NEW c \in Display
               PROVE  ~(H - 1 - c[2] < i) /\ fb[Offset(c)] = <<>>
    BY DEF RowsSeen
  <2>1. Offset(c) \in Offsets /\ c[2] \in 0 .. H - 1
    BY Inside
  <2> QED
    BY <1>1, <1>3, <2>1, DisplayAssumption
<1> QED
  BY <1>1, <1>2, <1>3, <1>4 DEF BmpInv, BytesSeen

LEMMA BmpRowStep ==
  ASSUME Kinds, BmpInv, BmpRow
  PROVE  BmpInv'
<1> DEFINE file == call.file
           start == RowStart(file, i)
<1>1. /\ call' = call /\ call.kind = "bitmap" /\ file \in Bitmaps /\ pc = "called"
      /\ i < file.h /\ i' = i + 1 /\ x' = x /\ size' = size /\ pc' = pc
  BY OneKind DEF BmpRow, RowLeft
<1>2. fb' = [o \in Offsets |-> IF o \in start .. start + file.w - 1
                                 THEN PixelRead(file, i * file.w + o - start)
                                 ELSE fb[o]]
  BY DEF BmpRow
<1>3. i \in 0 .. file.h - 1 /\ i' \in 0 .. file.h /\ x = 0 /\ size = "psize"
  BY <1>1, BitmapShape DEF BmpInv
<1> HIDE DEF file, start
<1>4. start \in Int
  <2>1. W * H \in Int /\ file.w \in Nat /\ i * W \in Int
    BY <1>1, <1>3, BitmapShape
  <2> QED
    BY <2>1 DEF start, RowStart
<1>5. BytesSeen'
  <2> SUFFICES ASSUME NEW o \in Offsets, fb'[o] # <<>>
               PROVE  /\ fb'[o] \in Seq(Nat) /\ Len(fb'[o]) = 3
                      /\ \A k \in 1 .. 3 : fb'[o][k] \in 14 .. file.size - 1
    BY <1>1 DEF BytesSeen, file
  <2>1. CASE o \in start .. start + file.w - 1
    <3> DEFINE n == i * file.w + o - start
    <3>1. n \in Nat
      <4>1. i * file.w \in Nat /\ file.w \in Nat
        BY <1>1, <1>3, BitmapShape
      <4>2. o \in Int /\ o >= start
        BY <1>4, <2>1
      <4> QED
        BY <1>4, <4>1, <4>2
    <3> HIDE DEF n
    <3>2. ASSUME NEW k \in 0 .. 2
          PROVE  ByteRead(file, n, k) \in 14 .. file.size - 1 /\ ByteRead(file, n, k) \in Nat
      <4>1. ByteRead(file, n, k) \in 14 .. file.size - 1
        BY <1>1, <3>1, ReadsSome
      <4>2. file.size \in Nat
        BY <1>1, BitmapShape
      <4> QED
        BY <4>1, <4>2
    <3>3. 0 \in 0 .. 2 /\ 1 \in 0 .. 2 /\ 2 \in 0 .. 2
      OBVIOUS
    <3>4. fb'[o] = <<ByteRead(file, n, 0), ByteRead(file, n, 1), ByteRead(file, n, 2)>>
      BY <1>2, <2>1 DEF PixelRead, n
    <3> QED
      BY <3>2, <3>3, <3>4
  <2>2. CASE o \notin start .. start + file.w - 1
    <3>1. fb'[o] = fb[o]
      BY <1>2, <2>2
    <3> QED
      BY <1>1, <3>1 DEF BmpInv, BytesSeen, file
  <2> QED
    BY <2>1, <2>2
<1>6. ASSUME Plain(file)
      PROVE  RowsSeen'
  <2>1. /\ file.w \in 0 .. W /\ file.h \in 0 .. H /\ W \in Nat \ {0} /\ H \in Nat \ {0}
        /\ RowsSeen
    BY <1>1, <1>6, BitmapShape DEF BmpInv, Plain, file
  <2>2. i \in 0 .. H - 1
    BY <1>3, <2>1
  <2> SUFFICES ASSUME NEW c \in Display
               PROVE  fb'[Offset(c)] = IF H - 1 - c[2] < i + 1 /\ c[1] - (W - file.w) >= 0
                                         THEN BitmapPixel(file, H - 1 - c[2], c[1] - (W - file.w))
                                         ELSE <<>>
    BY <1>1 DEF RowsSeen, file
  <2> DEFINE r   == H - 1 - c[2]
             col == c[1] - (W - file.w)
             o   == Offset(c)
  <2>3. o \in Offsets /\ c[1] \in 0 .. W - 1 /\ c[2] \in 0 .. H - 1
    BY Inside
  <2>4. /\ o \in start .. start + file.w - 1 <=> r = i /\ col >= 0
        /\ r = i => o - start = col /\ start \in Nat /\ o \in Nat
    BY <1>1, <2>1, <2>2, RowCells DEF start
  <2>5. fb[o] = IF r < i /\ col >= 0 THEN BitmapPixel(file, r, col) ELSE <<>>
    BY <2>1 DEF RowsSeen, file
  <2>6. r \in Int /\ col \in Int /\ col <= file.w - 1
    BY <2>1, <2>3
  <2> HIDE DEF r, col, o
  <2>7. CASE r = i /\ col >= 0
    <3>1. i * file.w + o - start = r * file.w + col
      <4>1. i * file.w \in Int /\ o \in Int /\ start \in Int
        BY <1>3, <1>4, <2>1, <2>4, <2>7
      <4>2. i * file.w + o - start = i * file.w + (o - start)
        BY <4>1
      <4> QED
        BY <2>4, <2>7, <4>2
    <3>2. fb'[o] = PixelRead(file, r * file.w + col)
      BY <1>2, <2>3, <2>4, <2>7, <3>1
    <3>3. fb'[o] = BitmapPixel(file, r, col)
      <4>1. r \in 0 .. file.h - 1 /\ col \in 0 .. file.w - 1
        BY <1>3, <2>1, <2>6, <2>7
      <4> QED
        BY <1>1, <1>6, <3>2, <4>1, PlainPixel
    <3>4. r < i + 1
      BY <1>3, <2>7
    <3> QED
      BY <2>7, <3>3, <3>4 DEF o, r, col
  <2>8. CASE ~(r = i /\ col >= 0)
    <3>1. fb'[o] = fb[o]
      BY <1>2, <2>3, <2>4, <2>8
    <3>2. r < i + 1 /\ col >= 0 <=> r < i /\ col >= 0
      BY <1>3, <2>6, <2>8
    <3> QED
      BY <2>5, <3>1, <3>2 DEF o, r, col
  <2> QED
    BY <2>7, <2>8
<1>7. DOMAIN fb' = Offsets
  BY <1>2
<1> QED
  BY <1>1, <1>3, <1>5, <1>6, <1>7 DEF BmpInv, file

LEMMA BmpStep == Kinds /\ BmpInv /\ [Next]_vars => BmpInv'
<1> SUFFICES ASSUME Kinds, BmpInv, [Next]_vars, call.kind = "bitmap" PROVE BmpInv'
  BY KindsStep DEF BmpInv
<1>1. CASE BmpRow
  BY <1>1, BmpRowStep
<1>2. CASE NoFile \/ BmpDone \/ UNCHANGED vars
  BY <1>2 DEF NoFile, BmpDone, vars, BmpInv, BytesSeen, RowsSeen
<1>3. CASE Fault
  <2> DEFINE file == call.file
  <2>1. file \in Bitmaps /\ UNCHANGED <<call, i, x, size, fb>> /\ i < file.h /\ RowStart(file, i) < 0
    BY <1>3, OneKind DEF Fault, RowLeft
  <2>2. ~Plain(file)
    <3> SUFFICES ASSUME Plain(file) PROVE FALSE
      OBVIOUS
    <3>1. /\ file.w \in 0 .. W /\ file.h \in 0 .. H /\ W \in Nat \ {0} /\ H \in Nat \ {0}
          /\ i \in 0 .. file.h - 1
      BY <2>1, BitmapShape DEF BmpInv, Plain
    <3>2. i \in 0 .. H - 1
      BY <3>1
    <3>3. <<0, 0>> \in Display
      BY <3>1 DEF Display
    <3>4. RowStart(file, i) \in Nat
      BY <2>1, <3>1, <3>2, <3>3, RowCells
    <3> QED
      BY <2>1, <3>4
  <2> QED
    BY <2>1, <2>2 DEF BmpInv, BytesSeen, RowsSeen
<1> QED
  BY <1>1, <1>2, <1>3 DEF Next, DrawShape, Glyph, NoGlyph, Terminator

\* A file of 24 bits a pixel without padding and no larger than the display is
\* displayed in the right bottom corner, the right way up, and the rest of the
\* display is left alone, for files and displays of every size (disp_bmp.c:80-94).
THEOREM BitmapsShown == Spec => []BmpShown
<1>1. Init => Kinds /\ BmpInv
  BY KindsInit, BmpInit
<1>2. Kinds /\ BmpInv /\ [Next]_vars => (Kinds /\ BmpInv)'
  BY KindsStep, BmpStep
<1>3. BmpInv => BmpShown
  BY DEF BmpInv, BmpShown, RowsSeen
<1> QED
  BY <1>1, <1>2, <1>3, PTL DEF Spec

-----------------------------------------------------------------------------
(* Strings                                                                 *)

\* What 0 has, and n + 1 when n has it, every number has.
LEMMA EveryNumber ==
  ASSUME NEW S, 0 \in S, \A n \in Nat : n \in S => n + 1 \in S
  PROVE  Nat \subseteq S
<1> SUFFICES ASSUME Nat \ S # {} PROVE FALSE
  OBVIOUS
<1>1. PICK least \in Nat \ S : \A k \in Nat \ S : <<k, least>> \notin OpToRel(<, Nat)
  <2>1. Nat \ S \in SUBSET Nat
    OBVIOUS
  <2> QED
    BY <2>1, WFMin, NatLessThanWellFounded, Zenon
<1>2. least \in Nat /\ least \notin S
  OBVIOUS
<1>3. \A k \in Nat \ S : ~(k < least)
  BY <1>1, <1>2, Zenon DEF OpToRel
<1>4. least - 1 \in Nat /\ least - 1 + 1 = least
  BY <1>2
<1>5. least - 1 \in S
  BY <1>2, <1>3, <1>4
<1> QED
  BY <1>2, <1>4, <1>5

\* The beginnings of the concatenation of some sequences: what FlattenSeq goes
\* through is there.
LEMMA Beginnings ==
  ASSUME NEW seqs, NEW N \in Nat
  PROVE  \E f : f = [n \in 1 .. N |-> IF n = 1 THEN seqs[n] ELSE f[n - 1] \o seqs[n]]
<1> DEFINE Has(m) == \E f : f = [n \in 1 .. m |-> IF n = 1 THEN seqs[n] ELSE f[n - 1] \o seqs[n]]
           S == {m \in Nat : Has(m)}
<1>1. 0 \in S
  <2>1. [n \in 1 .. 0 |-> 0]
          = [n \in 1 .. 0 |-> IF n = 1 THEN seqs[n]
                              ELSE [k \in 1 .. 0 |-> 0][n - 1] \o seqs[n]]
    OBVIOUS
  <2> QED
    BY <2>1
<1>2. ASSUME NEW m \in Nat, m \in S PROVE m + 1 \in S
  <2>1. PICK f : f = [n \in 1 .. m |-> IF n = 1 THEN seqs[n] ELSE f[n - 1] \o seqs[n]]
    BY <1>2
  <2> DEFINE g == [n \in 1 .. m + 1 |-> IF n = 1 THEN seqs[n]
                                        ELSE IF n = m + 1 THEN f[m] \o seqs[n]
                                        ELSE f[n]]
  <2>2. /\ DOMAIN g = 1 .. m + 1 /\ g = [n \in DOMAIN g |-> g[n]]
        /\ \A n \in 1 .. m + 1 : g[n] = IF n = 1 THEN seqs[n]
                                       ELSE IF n = m + 1 THEN f[m] \o seqs[n]
                                       ELSE f[n]
    OBVIOUS
  <2> HIDE DEF g
  <2>3. \A n \in 1 .. m : f[n] = IF n = 1 THEN seqs[n] ELSE f[n - 1] \o seqs[n]
    BY <2>1
  <2>4. ASSUME NEW n \in 1 .. m PROVE g[n] = f[n]
    <3>1. n \in 1 .. m + 1 /\ n # m + 1
      OBVIOUS
    <3> QED
      BY <2>2, <2>3, <3>1
  <2>5. ASSUME NEW n \in 1 .. m + 1
        PROVE  g[n] = IF n = 1 THEN seqs[n] ELSE g[n - 1] \o seqs[n]
    <3>1. CASE n = 1
      BY <2>2, <3>1
    <3>2. CASE n # 1
      <4>1. n - 1 \in 1 .. m
        BY <3>2
      <4>2. g[n - 1] = f[n - 1]
        BY <2>4, <4>1
      <4>3. CASE n = m + 1
        <5>1. n - 1 = m
          BY <4>3
        <5>2. g[n] = f[m] \o seqs[n]
          BY <2>2, <3>2, <4>3
        <5> QED
          BY <3>2, <4>2, <5>1, <5>2
      <4>4. CASE n # m + 1
        <5>1. n \in 1 .. m
          BY <4>4
        <5>2. g[n] = f[n - 1] \o seqs[n]
          BY <2>3, <2>4, <3>2, <5>1
        <5> QED
          BY <3>2, <4>2, <5>2
      <4> QED
        BY <4>3, <4>4
    <3> QED
      BY <3>1, <3>2
  <2>6. g = [n \in 1 .. m + 1 |-> IF n = 1 THEN seqs[n] ELSE g[n - 1] \o seqs[n]]
    BY <2>2, <2>5
  <2>7. Has(m + 1)
    BY <2>6, Zenon
  <2> HIDE DEF Has
  <2> QED
    BY <2>7
<1> HIDE DEF S
<1>3. N \in S
  BY <1>1, <1>2, EveryNumber
<1> QED
  BY <1>3 DEF S

LEMMA Flattened ==
  ASSUME NEW seqs, Len(seqs) \in Nat \ {0}
  PROVE  \E f : /\ f = [n \in 1 .. Len(seqs) |-> IF n = 1 THEN seqs[n] ELSE f[n - 1] \o seqs[n]]
                /\ FlattenSeq(seqs) = f[Len(seqs)]
<1> DEFINE f == CHOOSE g : g = [n \in 1 .. Len(seqs) |-> IF n = 1 THEN seqs[n]
                                                         ELSE g[n - 1] \o seqs[n]]
<1>1. f = [n \in 1 .. Len(seqs) |-> IF n = 1 THEN seqs[n] ELSE f[n - 1] \o seqs[n]]
  BY Beginnings, Zenon
<1>2. FlattenSeq(seqs) = f[Len(seqs)]
  BY Zenon DEF FlattenSeq
<1> QED
  BY <1>1, <1>2, Zenon

Unicode == {char \in Nat \ {0} : char \div Plane <= 16}
Byte == 0 .. 255

LEMMA Encoded ==
  ASSUME NEW char \in Unicode
  PROVE  /\ Encode(char) \in Seq(Byte) /\ Encode(char)[1] # 0
         /\ Len(Encode(char)) \in Nat /\ Len(Encode(char)) >= 1 /\ Len(Encode(char)) <= 4
<1> DEFINE Follow(n) == 128 + (n % 64)
<1>1. char \in Nat /\ char > 0 /\ Plane \in Nat /\ Plane > 2048 /\ \A n \in Nat : Follow(n) \in Byte
  BY DEF Unicode, Plane, Byte
<1>2. /\ char \div 64 \in Nat /\ char \div 4096 \in Nat /\ (char \div 4096) \div 64 \in 0 .. 4
      /\ char < 2048 => char \div 64 \in 0 .. 31
      /\ char < Plane => char \div 4096 \in 0 .. 15
  BY DEF Unicode, Plane
<1> HIDE DEF Follow
<1>3. CASE char < 128
  <2>1. Encode(char) = <<char>>
    BY <1>1, <1>3 DEF Encode
  <2> QED
    BY <1>1, <1>3, <2>1 DEF Byte
<1>4. CASE char >= 128 /\ char < 2048
  <2>1. Encode(char) = <<192 + char \div 64, Follow(char)>>
    BY <1>1, <1>4 DEF Encode, Follow
  <2>2. 192 + char \div 64 \in Byte /\ 192 + char \div 64 # 0
    BY <1>2, <1>4 DEF Byte
  <2> QED
    BY <1>1, <2>1, <2>2
<1>5. CASE char >= 2048 /\ char < Plane
  <2>1. Encode(char) = <<224 + char \div 4096, Follow(char \div 64), Follow(char)>>
    BY <1>1, <1>5 DEF Encode, Follow
  <2>2. 224 + char \div 4096 \in Byte /\ 224 + char \div 4096 # 0
    BY <1>2, <1>5 DEF Byte
  <2> QED
    BY <1>1, <1>2, <2>1, <2>2
<1>6. CASE char >= Plane
  <2>1. Encode(char) = <<240 + (char \div 4096) \div 64, Follow(char \div 4096),
                         Follow(char \div 64), Follow(char)>>
    BY <1>1, <1>6 DEF Encode, Follow
  <2>2. 240 + (char \div 4096) \div 64 \in Byte /\ 240 + (char \div 4096) \div 64 # 0
    BY <1>2 DEF Byte
  <2> QED
    BY <1>1, <1>2, <2>1, <2>2
<1> QED
  BY <1>1, <1>3, <1>4, <1>5, <1>6

\* s_font_utf8_to_unicode undoes UTF-8, in 16 bits.
LEMMA Decoded ==
  ASSUME NEW char \in Unicode, NEW at,
         \A k \in 1 .. Len(Encode(char)) : at[k] = Encode(char)[k]
  PROVE  Decode(at) = [len |-> Len(Encode(char)), code |-> UShort(char)]
<1>1. char \in Nat /\ char > 0 /\ Plane \in Nat /\ Plane > 2048 /\ char \div Plane <= 16
  BY DEF Unicode, Plane
<1>2. CASE char < 128
  <2>1. Encode(char) = <<char>>
    BY <1>1, <1>2 DEF Encode
  <2>2. Len(Encode(char)) = 1 /\ at[1] = char
    BY <2>1
  <2>3. UShort(char) = char
    BY <1>1, <1>2 DEF UShort, Plane
  <2> QED
    BY <1>1, <1>2, <2>2, <2>3 DEF Decode
<1>3. CASE char >= 128 /\ char < 2048
  <2> DEFINE b1 == 192 + char \div 64
             b2 == 128 + (char % 64)
  <2>1. Encode(char) = <<b1, b2>>
    BY <1>1, <1>3 DEF Encode
  <2>2. Len(Encode(char)) = 2 /\ at[1] = b1 /\ at[2] = b2
    BY <2>1
  <2>3. /\ b1 \in 192 .. 223 /\ (b1 % 32) * 64 + (b2 % 64) = UShort(char)
    BY <1>1, <1>3 DEF UShort, Plane
  <2> HIDE DEF b1, b2
  <2> QED
    BY <2>2, <2>3 DEF Decode, Tail6
<1>4. CASE char >= 2048 /\ char < Plane
  <2> DEFINE b1 == 224 + char \div 4096
             b2 == 128 + ((char \div 64) % 64)
             b3 == 128 + (char % 64)
  <2>1. Encode(char) = <<b1, b2, b3>>
    BY <1>1, <1>4 DEF Encode
  <2>2. Len(Encode(char)) = 3 /\ at[1] = b1 /\ at[2] = b2 /\ at[3] = b3
    BY <2>1
  <2>3. b1 \in 224 .. 239 /\ (b1 % 16) * 4096 + (b2 % 64) * 64 + (b3 % 64) = char
    BY <1>1, <1>4 DEF Plane
  <2> HIDE DEF b1, b2, b3
  <2> QED
    BY <2>2, <2>3 DEF Decode, Tail6, UShort
<1>5. CASE char >= Plane
  <2> DEFINE b1 == 240 + (char \div 4096) \div 64
             b2 == 128 + ((char \div 4096) % 64)
             b3 == 128 + ((char \div 64) % 64)
             b4 == 128 + (char % 64)
  <2>1. Encode(char) = <<b1, b2, b3, b4>>
    BY <1>1, <1>5 DEF Encode
  <2>2. Len(Encode(char)) = 4 /\ at[1] = b1 /\ at[2] = b2 /\ at[3] = b3 /\ at[4] = b4
    BY <2>1
  <2>3. /\ b1 >= 240 /\ b1 \in Nat
        /\ ((b1 % 8) * 64 + (b2 % 64)) * 4096 + (b3 % 64) * 64 + (b4 % 64) = char
    BY <1>1 DEF Plane
  <2> HIDE DEF b1, b2, b3, b4
  <2> QED
    BY <2>2, <2>3 DEF Decode, Tail6, UShort
<1> QED
  BY <1>1, <1>2, <1>3, <1>4, <1>5

LEMMA StringShape ==
  ASSUME NEW s \in Strings
  PROVE  /\ Len(s.chars) \in Nat /\ DOMAIN s.chars = 1 .. Len(s.chars)
         /\ \A n \in 1 .. Len(s.chars) : s.chars[n] \in Unicode
         /\ s.cut \in Nat
         /\ s.cut > 0 => Len(s.chars) > 0 /\ s.cut < Len(Encode(s.chars[Len(s.chars)]))
<1>1. /\ s.chars \in Seq(Nat \ {0}) /\ s.cut \in Nat
      /\ \A n \in DOMAIN s.chars : s.chars[n] \div Plane <= 16
      /\ s.cut > 0 => s.chars # <<>> /\ s.cut < Len(Encode(Last(s.chars)))
  BY StringsAssumption
<1>2. Len(s.chars) \in Nat /\ DOMAIN s.chars = 1 .. Len(s.chars)
  BY <1>1
<1>3. \A n \in 1 .. Len(s.chars) : s.chars[n] \in Unicode
  BY <1>1, <1>2 DEF Unicode
<1>4. s.chars # <<>> => Len(s.chars) > 0
  BY <1>1
<1>5. Last(s.chars) = s.chars[Len(s.chars)]
  BY DEF Last
<1> QED
  BY <1>1, <1>2, <1>3, <1>4, <1>5

\* The bytes of the first n characters, for each n: each is the beginning of the
\* next, and the last is the string as it was before the cut.
Growing(chars, part) ==
  LET N == Len(chars)
  IN /\ part \in [0 .. N -> Seq(Byte)]
     /\ part[0] = <<>>
     /\ \A n \in 0 .. N - 1 : part[n + 1] = part[n] \o Encode(chars[n + 1])
     /\ part[N] = FlattenSeq([n \in DOMAIN chars |-> Encode(chars[n])])

LEMMA Parts ==
  ASSUME NEW s \in Strings
  PROVE  \E part : Growing(s.chars, part)
<1> DEFINE chars == s.chars
           N == Len(chars)
           seqs == [n \in DOMAIN chars |-> Encode(chars[n])]
<1>1. N \in Nat /\ DOMAIN chars = 1 .. N /\ \A n \in 1 .. N : chars[n] \in Unicode
  BY StringShape
<1> HIDE DEF chars, N
<1>2. \A n \in 1 .. N : seqs[n] = Encode(chars[n]) /\ seqs[n] \in Seq(Byte)
  BY <1>1, Encoded
<1>3. seqs \in Seq(Seq(Byte)) /\ Len(seqs) = N
  <2>1. seqs \in [1 .. N -> Seq(Byte)]
    BY <1>1, <1>2
  <2> HIDE DEF seqs
  <2> QED
    BY <1>1, <2>1
<1>4. CASE N = 0
  <2> DEFINE part == [n \in 0 .. N |-> <<>>]
  <2>1. seqs = <<>>
    <3> HIDE DEF seqs
    <3> QED
      BY <1>3, <1>4
  <2>2. FlattenSeq(seqs) = <<>>
    <3> HIDE DEF seqs
    <3> QED
      BY <2>1 DEF FlattenSeq
  <2>3. part \in [0 .. N -> Seq(Byte)] /\ part[0] = <<>> /\ part[N] = <<>> /\ 0 .. N - 1 = {}
    BY <1>1, <1>4
  <2> HIDE DEF part
  <2>4. Growing(chars, part)
    BY <2>2, <2>3 DEF Growing, N
  <2> QED
    BY <2>4 DEF chars
<1>5. CASE N # 0
  <2>1. Len(seqs) \in Nat \ {0}
    BY <1>1, <1>3, <1>5
  <2>2. PICK f : /\ f = [n \in 1 .. Len(seqs) |-> IF n = 1 THEN seqs[n] ELSE f[n - 1] \o seqs[n]]
                 /\ FlattenSeq(seqs) = f[Len(seqs)]
    <3> HIDE DEF seqs
    <3> QED
      BY <2>1, Flattened
  <2> DEFINE part == [n \in 0 .. N |-> IF n = 0 THEN <<>> ELSE f[n]]
  <2> HIDE DEF seqs
  <2>3. \A n \in 1 .. N : f[n] = IF n = 1 THEN seqs[n] ELSE f[n - 1] \o seqs[n]
    BY <1>3, <2>2
  <2>4. ASSUME NEW n \in 0 .. N - 1
        PROVE  part[n + 1] = part[n] \o seqs[n + 1]
    <3>1. n + 1 \in 1 .. N /\ n + 1 \in 0 .. N /\ n + 1 # 0 /\ n \in 0 .. N /\ n + 1 - 1 = n
      BY <1>1
    <3>2. part[n + 1] = f[n + 1] /\ part[n] = IF n = 0 THEN <<>> ELSE f[n]
      BY <3>1
    <3>3. seqs[n + 1] \in Seq(Byte)
      BY <1>2, <3>1
    <3>4. CASE n = 0
      <4>1. f[n + 1] = seqs[n + 1] /\ part[n] = <<>>
        BY <2>3, <3>1, <3>2, <3>4
      <4>2. <<>> \o seqs[n + 1] = seqs[n + 1]
        BY <3>3
      <4> QED
        BY <3>2, <4>1, <4>2
    <3>5. CASE n # 0
      <4>1. n + 1 # 1
        BY <3>5
      <4>2. f[n + 1] = f[n] \o seqs[n + 1]
        <5>1. f[n + 1] = IF n + 1 = 1 THEN seqs[n + 1] ELSE f[n + 1 - 1] \o seqs[n + 1]
          BY <2>3, <3>1
        <5> QED
          BY <3>1, <4>1, <5>1
      <4> QED
        BY <3>2, <3>5, <4>2
    <3> QED
      BY <3>4, <3>5
  <2>5. part[0] = <<>> /\ DOMAIN part = 0 .. N /\ part = [n \in 0 .. N |-> part[n]]
    BY <1>1
  <2>6. part[N] = FlattenSeq(seqs)
    BY <1>1, <1>3, <1>5, <2>2
  <2> HIDE DEF part
  <2>7. \A n \in 0 .. N : part[n] \in Seq(Byte)
    <3> DEFINE S == {n \in Nat : n <= N => part[n] \in Seq(Byte)}
    <3>1. 0 \in S
      <4>1. part[0] \in Seq(Byte)
        BY <2>5
      <4> QED
        BY <4>1
    <3>2. ASSUME NEW n \in Nat, n \in S PROVE n + 1 \in S
      <4> SUFFICES ASSUME n + 1 <= N PROVE part[n + 1] \in Seq(Byte)
        OBVIOUS
      <4>1. n \in 0 .. N - 1 /\ n + 1 \in 1 .. N /\ part[n] \in Seq(Byte)
        BY <1>1, <3>2
      <4>2. part[n + 1] = part[n] \o seqs[n + 1] /\ seqs[n + 1] \in Seq(Byte)
        BY <1>2, <2>4, <4>1
      <4> QED
        BY <4>1, <4>2
    <3> HIDE DEF S
    <3>3. Nat \subseteq S
      BY <3>1, <3>2, EveryNumber
    <3> QED
      BY <1>1, <3>3 DEF S
  <2>8. part \in [0 .. N -> Seq(Byte)]
    BY <2>5, <2>7
  <2>9. \A n \in 0 .. N - 1 : part[n + 1] = part[n] \o Encode(chars[n + 1])
    <3> SUFFICES ASSUME NEW n \in 0 .. N - 1 PROVE part[n + 1] = part[n] \o Encode(chars[n + 1])
      OBVIOUS
    <3>1. n + 1 \in 1 .. N
      BY <1>1
    <3> QED
      BY <1>2, <2>4, <3>1
  <2>10. Growing(chars, part)
    BY <2>5, <2>6, <2>8, <2>9 DEF Growing, N, seqs
  <2> QED
    BY <2>10 DEF chars
<1> QED
  BY <1>4, <1>5

LEMMA Joined ==
  ASSUME NEW S, NEW a \in Seq(S), NEW b \in Seq(S)
  PROVE  /\ a \o b \in Seq(S) /\ Len(a) \in Nat /\ Len(b) \in Nat
         /\ Len(a \o b) = Len(a) + Len(b)
         /\ \A k \in 1 .. Len(a) : (a \o b)[k] = a[k]
         /\ \A k \in 1 .. Len(b) : (a \o b)[Len(a) + k] = b[k]
<1>1. a \o b \in Seq(S) /\ Len(a) \in Nat /\ Len(b) \in Nat /\ Len(a \o b) = Len(a) + Len(b)
  OBVIOUS
<1>2. ASSUME NEW k \in 1 .. Len(a) PROVE (a \o b)[k] = a[k]
  OBVIOUS
<1>3. ASSUME NEW k \in 1 .. Len(b) PROVE (a \o b)[Len(a) + k] = b[k]
  OBVIOUS
<1> QED
  BY <1>1, <1>2, <1>3

\* What is shown of a part is so of each that it grew into.
LEMMA PartOfWhole ==
  ASSUME NEW s \in Strings, NEW part, Growing(s.chars, part), NEW n \in 0 .. Len(s.chars)
  PROVE  LET whole == part[Len(s.chars)]
         IN /\ part[n] \in Seq(Byte) /\ whole \in Seq(Byte)
            /\ Len(part[n]) <= Len(whole)
            /\ \A k \in 1 .. Len(part[n]) : whole[k] = part[n][k]
<1> DEFINE N == Len(s.chars)
           code(m) == Encode(s.chars[m])
<1>1. /\ N \in Nat /\ n \in 0 .. N /\ part \in [0 .. N -> Seq(Byte)]
      /\ \A m \in 1 .. N : code(m) \in Seq(Byte)
  BY StringShape, Encoded DEF Growing
<1>2. \A m \in 0 .. N - 1 : part[m + 1] = part[m] \o code(m + 1)
  BY DEF Growing
<1> HIDE DEF N, code
<1>3. \A m \in 0 .. N : part[m] \in Seq(Byte)
  BY <1>1
<1> DEFINE Grown(m) == /\ Len(part[n]) <= Len(part[m])
                       /\ \A k \in 1 .. Len(part[n]) : part[m][k] = part[n][k]
           S == {d \in Nat : n + d <= N => Grown(n + d)}
<1>4. 0 \in S
  <2>1. n + 0 = n /\ Len(part[n]) \in Nat
    BY <1>1, <1>3
  <2>2. Grown(n + 0)
    BY <2>1
  <2> QED
    BY <2>2
<1>5. ASSUME NEW d \in Nat, d \in S PROVE d + 1 \in S
  <2> SUFFICES ASSUME n + (d + 1) <= N PROVE Grown(n + (d + 1))
    OBVIOUS
  <2> DEFINE m == n + d
  <2>1. m \in 0 .. N - 1 /\ m \in 0 .. N /\ m + 1 \in 1 .. N /\ n + (d + 1) = m + 1
    BY <1>1
  <2>2. Grown(m)
    BY <1>5, <2>1
  <2> HIDE DEF m
  <2> DEFINE p == part[n]
             u == part[m]
             v == code(m + 1)
             w == part[m + 1]
  <2>3. w = u \o v /\ u \in Seq(Byte) /\ v \in Seq(Byte) /\ p \in Seq(Byte)
    BY <1>1, <1>2, <1>3, <2>1
  <2>4. Len(p) <= Len(u) /\ \A k \in 1 .. Len(p) : u[k] = p[k]
    BY <2>2
  <2> HIDE DEF Grown, p, u, v, w
  <2>5. /\ Len(w) = Len(u) + Len(v) /\ \A k \in 1 .. Len(u) : w[k] = u[k]
        /\ Len(u) \in Nat /\ Len(v) \in Nat
    BY <2>3, Joined, Zenon
  <2>6. Len(p) <= Len(w) /\ Len(p) \in Nat
    BY <2>3, <2>4, <2>5
  <2>7. ASSUME NEW k \in 1 .. Len(p) PROVE w[k] = p[k]
    <3>1. k \in 1 .. Len(u)
      BY <2>4, <2>5, <2>6
    <3> QED
      BY <2>4, <2>5, <3>1
  <2>8. Grown(m + 1)
    BY <2>6, <2>7 DEF Grown, p, w
  <2> QED
    BY <2>1, <2>8
<1> HIDE DEF Grown, S
<1>6. N - n \in S
  <2>1. Nat \subseteq S
    BY <1>4, <1>5, EveryNumber
  <2> QED
    BY <1>1, <2>1
<1>7. Grown(N)
  <2>1. N - n \in Nat /\ n + (N - n) = N /\ n + (N - n) <= N
    BY <1>1
  <2> QED
    BY <1>6, <2>1 DEF S
<1> QED
  BY <1>1, <1>3, <1>7 DEF Grown, N

LEMMA BytesAre ==
  ASSUME NEW s \in Strings, NEW part, Growing(s.chars, part)
  PROVE  LET whole == part[Len(s.chars)]
         IN /\ whole \in Seq(Byte) /\ s.cut \in 0 .. Len(whole)
            /\ Bytes(s) \in Seq(Byte) /\ Len(Bytes(s)) = Len(whole) - s.cut
            /\ \A k \in 1 .. Len(Bytes(s)) : Bytes(s)[k] = whole[k]
<1> DEFINE N == Len(s.chars)
           whole == part[N]
<1>1. N \in Nat /\ N \in 0 .. N /\ s.cut \in Nat
  BY StringShape
<1>2. whole \in Seq(Byte)
  BY <1>1, PartOfWhole
<1>3. s.cut <= Len(whole)
  <2>1. CASE s.cut = 0
    BY <1>1, <1>2, <2>1
  <2>2. CASE s.cut > 0
    <3>1. N - 1 \in 0 .. N - 1 /\ N - 1 + 1 = N /\ N - 1 \in 0 .. N /\ s.cut < Len(Encode(s.chars[N]))
          /\ s.chars[N] \in Unicode
      BY <2>2, StringShape
    <3>2. whole = part[N - 1] \o Encode(s.chars[N])
      BY <3>1 DEF Growing
    <3>3. part[N - 1] \in Seq(Byte) /\ Encode(s.chars[N]) \in Seq(Byte)
      BY <3>1, Encoded DEF Growing
    <3> DEFINE u == part[N - 1]
               v == Encode(s.chars[N])
    <3>4. s.cut < Len(v)
      BY <3>1
    <3> HIDE DEF whole, u, v
    <3>5. Len(whole) = Len(u) + Len(v) /\ Len(u) \in Nat /\ Len(v) \in Nat
      BY <3>2, <3>3, Joined, Zenon DEF u, v
    <3> QED
      BY <1>1, <3>4, <3>5
  <2> QED
    BY <1>1, <2>1, <2>2
<1>4. whole = FlattenSeq([n \in DOMAIN s.chars |-> Encode(s.chars[n])])
  BY DEF Growing
<1>5. Bytes(s) = SubSeq(whole, 1, Len(whole) - s.cut)
  BY <1>4 DEF Bytes
<1> HIDE DEF whole
<1>6. Len(whole) \in Nat /\ Len(whole) - s.cut \in 0 .. Len(whole)
  BY <1>1, <1>2, <1>3
<1>7. /\ Bytes(s) \in Seq(Byte) /\ Len(Bytes(s)) = Len(whole) - s.cut
      /\ \A k \in 1 .. Len(Bytes(s)) : Bytes(s)[k] = whole[k]
  BY <1>2, <1>5, <1>6
<1> QED
  BY <1>1, <1>2, <1>3, <1>6, <1>7 DEF whole

\* Memory ends in bytes that end any string.
LEMMA MemoryIs ==
  ASSUME call \in StringCalls
  PROVE  LET bytes == Bytes(call.string)
         IN /\ Memory \in Seq(Byte) /\ Len(Memory) \in Nat /\ Len(Memory) >= Len(bytes) + 5
            /\ \A k \in 1 .. Len(Memory) : k > Len(Memory) - 4 => Memory[k] = 0
            /\ Len(bytes) \in Nat /\ \A k \in 1 .. Len(bytes) : Memory[k] = bytes[k]
            /\ Memory[Len(bytes) + 1] = 0
<1> DEFINE bytes == Bytes(call.string)
           after == call.beyond
<1>1. call.string \in Strings /\ after \in Beyond
  BY DEF StringCalls
<1>2. bytes \in Seq(Byte)
  BY <1>1, Parts, BytesAre
<1>3. after \in Seq(Byte) /\ Len(after) >= 4 /\ \A k \in Len(after) - 3 .. Len(after) : after[k] = 0
  BY <1>1, BeyondAssumption DEF Byte
<1>4. Memory = (bytes \o <<0>>) \o after
  BY DEF Memory
<1> HIDE DEF bytes, after
<1> DEFINE ended == bytes \o <<0>>
<1>5. /\ ended \in Seq(Byte) /\ Len(ended) = Len(bytes) + 1 /\ ended[Len(bytes) + 1] = 0
      /\ \A k \in 1 .. Len(bytes) : ended[k] = bytes[k]
      /\ Len(bytes) \in Nat /\ Len(after) \in Nat
  <2>1. <<0>> \in Seq(Byte) /\ Len(<<0>>) = 1
    BY DEF Byte
  <2> QED
    BY <1>2, <1>3, <2>1
<1> HIDE DEF ended
<1>6. /\ Memory \in Seq(Byte) /\ Len(Memory) = Len(ended) + Len(after)
      /\ \A k \in 1 .. Len(ended) : Memory[k] = ended[k]
      /\ \A k \in 1 .. Len(after) : Memory[Len(ended) + k] = after[k]
  <2>1. Memory = ended \o after
    BY <1>4 DEF ended
  <2>2. ended \in Seq(Byte) /\ after \in Seq(Byte)
    BY <1>3, <1>5
  <2> DEFINE memory == Memory
  <2> HIDE DEF memory
  <2>3. memory = ended \o after
    BY <2>1 DEF memory
  <2>4. /\ memory \in Seq(Byte) /\ Len(memory) = Len(ended) + Len(after)
        /\ \A k \in 1 .. Len(ended) : memory[k] = ended[k]
        /\ \A k \in 1 .. Len(after) : memory[Len(ended) + k] = after[k]
    <3>1. memory \in Seq(Byte) /\ Len(memory) = Len(ended) + Len(after)
      BY <2>2, <2>3, Joined, Zenon
    <3>2. \A k \in 1 .. Len(ended) : memory[k] = ended[k]
      BY <2>2, <2>3, Joined, Zenon
    <3>3. \A k \in 1 .. Len(after) : memory[Len(ended) + k] = after[k]
      <4> SUFFICES ASSUME NEW k \in 1 .. Len(after) PROVE memory[Len(ended) + k] = after[k]
        OBVIOUS
      <4>1. (ended \o after)[Len(ended) + k] = after[k]
        BY <2>2
      <4> QED
        BY <2>3, <4>1, Zenon
    <3> QED
      BY <3>1, <3>2, <3>3
  <2> QED
    BY <2>4 DEF memory
<1>7. ASSUME NEW k \in 1 .. Len(Memory), k > Len(Memory) - 4 PROVE Memory[k] = 0
  <2> DEFINE l == k - Len(ended)
  <2>1. l \in 1 .. Len(after) /\ l \in Len(after) - 3 .. Len(after) /\ k = Len(ended) + l
    BY <1>3, <1>5, <1>6, <1>7
  <2> QED
    BY <1>3, <1>6, <2>1
<1> QED
  BY <1>3, <1>5, <1>6, <1>7 DEF bytes

\* Shapes and strings leave ink or nothing, and a string is not read past what
\* ends any string.
InkInv ==
  call.kind # "bitmap" =>
    /\ DOMAIN fb = Offsets /\ \A o \in Offsets : fb[o] = <<>> \/ fb[o] = Ink
    /\ x \in Nat /\ size \in {"psize", "char"}
    /\ call.kind = "shape" => i = 0
    /\ call.kind = "string" => i \in 1 .. Len(Memory)

LEMMA InkInit == Init => InkInv
<1> SUFFICES ASSUME Init, call.kind # "bitmap" PROVE InkInv
  BY DEF InkInv
<1>1. DOMAIN fb = Offsets /\ \A o \in Offsets : fb[o] = <<>>
  BY DEF Init
<1>2. CASE call.kind = "shape"
  BY <1>1, <1>2 DEF Init, InkInv
<1>3. CASE call.kind = "string"
  <2>1. call \in StringCalls
    BY <1>3, KindsInit, OneKind
  <2>2. i = 1 /\ Len(Memory) \in Nat /\ Len(Memory) >= 5
    <3>1. Len(Memory) \in Nat /\ Len(Bytes(call.string)) \in Nat
          /\ Len(Memory) >= Len(Bytes(call.string)) + 5
      BY <2>1, MemoryIs
    <3> QED
      BY <1>3, <3>1 DEF Init
  <2>3. x \in Nat /\ size \in {"psize", "char"}
    <3>1. call.place \in Places
      BY <2>1 DEF StringCalls
    <3> QED
      BY <1>3, <3>1, PlacesAssumption DEF Init
  <2> QED
    BY <1>1, <1>3, <2>2, <2>3 DEF InkInv
<1> QED
  BY <1>2, <1>3, KindsInit, OneKind

LEMMA DecodedLength ==
  ASSUME NEW at
  PROVE  Decode(at).len \in 1 .. 4
<1>1. CASE at[1] >= 240
  BY <1>1 DEF Decode
<1>2. CASE at[1] \in 224 .. 239
  BY <1>2 DEF Decode
<1>3. CASE at[1] \in 192 .. 223
  BY <1>3 DEF Decode
<1> QED
  BY <1>1, <1>2, <1>3 DEF Decode

LEMMA InkStep == Kinds /\ InkInv /\ [Next]_vars => InkInv'
<1> SUFFICES ASSUME Kinds, InkInv, [Next]_vars, call.kind # "bitmap" PROVE InkInv'
  BY KindsStep DEF InkInv
<1>1. call' = call /\ Memory' = Memory
  BY KindsStep DEF Memory
<1>2. ASSUME NEW offsets, Draw(offsets)
      PROVE  DOMAIN fb' = Offsets /\ \A o \in Offsets : fb'[o] = <<>> \/ fb'[o] = Ink
  BY <1>2 DEF Draw, InkInv
<1>3. CASE DrawShape
  <2>1. DOMAIN fb' = Offsets /\ \A o \in Offsets : fb'[o] = <<>> \/ fb'[o] = Ink
    BY <1>2, <1>3 DEF DrawShape
  <2>2. UNCHANGED <<i, x, size>>
    BY <1>3 DEF DrawShape
  <2> QED
    BY <1>1, <2>1, <2>2 DEF InkInv
<1>4. CASE Glyph
  <2> DEFINE char == Decode(SubSeq(Memory, i, i + 3))
  <2>1. /\ call.kind = "string" /\ Memory[i] # 0 /\ size' = "char"
        /\ i' = i + char.len /\ x' = x + psize
    BY <1>4 DEF Glyph
  <2>2. \E offsets : Draw(offsets)
    BY <1>4 DEF Glyph
  <2>3. DOMAIN fb' = Offsets /\ \A o \in Offsets : fb'[o] = <<>> \/ fb'[o] = Ink
    BY <1>2, <2>2
  <2>4. char.len \in 1 .. 4
    BY DecodedLength
  <2>5. i \in 1 .. Len(Memory) /\ Len(Memory) \in Nat /\ i <= Len(Memory) - 4
    <3>1. call \in StringCalls
      BY <2>1, OneKind
    <3>2. i \in 1 .. Len(Memory) /\ Len(Memory) \in Nat
      BY <2>1, <3>1, MemoryIs DEF InkInv
    <3>3. ~(i > Len(Memory) - 4)
      BY <2>1, <3>1, <3>2, MemoryIs
    <3> QED
      BY <3>2, <3>3
  <2> HIDE DEF char
  <2>6. i' \in 1 .. Len(Memory)
    BY <2>1, <2>4, <2>5
  <2>7. x' \in Nat
    BY <2>1, DisplayAssumption DEF InkInv
  <2> QED
    BY <1>1, <2>1, <2>3, <2>6, <2>7 DEF InkInv
<1>5. CASE NoGlyph \/ Terminator \/ UNCHANGED vars
  <2>1. UNCHANGED <<i, x, size, fb>>
    BY <1>5 DEF NoGlyph, Terminator, vars
  <2> QED
    BY <1>1, <2>1 DEF InkInv
<1> QED
  BY <1>3, <1>4, <1>5 DEF Next, NoFile, BmpRow, Fault, BmpDone

PcInv == pc \in {"called", "returned", "dead"}

LEMMA PcStep == PcInv /\ [Next]_vars => PcInv'
BY DEF PcInv, Next, vars, DrawShape, Glyph, NoGlyph, Terminator, NoFile, BmpRow, Fault, BmpDone

\* What is on the display was there to be displayed: ink, or bytes of the file; the
\* loops end where the string or the rows do, however the string was cut and
\* whatever the bitmap's header says (font.c:132-147, disp_bmp.c:80-94).
THEOREM TypeCorrect == Spec => []TypeOK
<1> DEFINE Inv == Kinds /\ PcInv /\ InkInv /\ BmpInv
<1>1. Init => Inv
  <2>1. Init => PcInv
    BY DEF Init, PcInv
  <2> QED
    BY <2>1, KindsInit, InkInit, BmpInit
<1>2. Inv /\ [Next]_vars => Inv'
  BY KindsStep, PcStep, InkStep, BmpStep
<1>3. Inv => TypeOK
  <2> SUFFICES ASSUME Inv PROVE TypeOK
    OBVIOUS
  <2>1. CASE call.kind = "bitmap"
    <3>1. call \in ShapeCalls \cup StringCalls \cup BitmapCalls /\ pc \in {"called", "returned", "dead"}
      BY DEF Kinds, PcInv
    <3>2. /\ i \in 0 .. call.file.h /\ x = 0 /\ size = "psize" /\ DOMAIN fb = Offsets
          /\ BytesSeen
      BY <2>1 DEF BmpInv
    <3>3. \A o \in Offsets :
            \/ fb[o] = <<>>
            \/ Len(fb[o]) = 3 /\ \A k \in 1 .. 3 : fb[o][k] \in 14 .. call.file.size - 1
      BY <3>2 DEF BytesSeen
    <3> QED
      BY <2>1, <3>1, <3>2, <3>3 DEF TypeOK
  <2>2. CASE call.kind # "bitmap"
    <3>1. call.kind \in {"shape", "string"}
      BY <2>2, OneKind
    <3> QED
      BY <2>2, <3>1 DEF Kinds, PcInv, InkInv, TypeOK
  <2> QED
    BY <2>1, <2>2
<1> QED
  BY <1>1, <1>2, <1>3, PTL DEF Spec

\* An unsigned short holds the characters of one to three bytes.
LEMMA NarrowIs == ASSUME NEW char \in Nat, char < Plane PROVE UShort(char) = char
BY DEF UShort, Plane

\* What is read of a string that has its end: its characters, and nothing past it.
LEMMA Reads ==
  ASSUME call \in StringCalls, Intact(call.string),
         NEW part, Growing(call.string.chars, part), NEW n \in 0 .. Len(call.string.chars)
  PROVE  LET chars == call.string.chars
             at    == Len(part[n]) + 1
             code  == Encode(chars[n + 1])
         IN /\ Len(part[n]) \in Nat /\ at <= Len(Bytes(call.string)) + 1
            /\ n = Len(chars) => Memory[at] = 0
            /\ n < Len(chars) =>
                 /\ Memory[at] # 0
                 /\ Len(part[n + 1]) = Len(part[n]) + Len(code)
                 /\ Decode(SubSeq(Memory, at, at + 3)) = [len |-> Len(code), code |-> Code(n + 1)]
<1> DEFINE chars == call.string.chars
           N == Len(chars)
           bytes == Bytes(call.string)
           whole == part[N]
           at == Len(part[n]) + 1
<1>1. call.string \in Strings
  BY DEF StringCalls
<1>2. N \in Nat /\ n \in 0 .. N /\ \A m \in 1 .. N : chars[m] \in Unicode
  BY <1>1, StringShape
<1>3. /\ whole \in Seq(Byte) /\ part[n] \in Seq(Byte) /\ Len(part[n]) <= Len(whole)
      /\ Len(bytes) = Len(whole) - 0 /\ \A k \in 1 .. Len(bytes) : bytes[k] = whole[k]
  BY <1>1, PartOfWhole, BytesAre DEF Intact
<1>4. /\ Memory \in Seq(Byte) /\ Len(Memory) \in Nat /\ Len(Memory) >= Len(bytes) + 5
      /\ Len(bytes) \in Nat /\ \A k \in 1 .. Len(bytes) : Memory[k] = bytes[k]
      /\ Memory[Len(bytes) + 1] = 0
  BY MemoryIs
<1>5. Len(part[n]) \in Nat /\ Len(whole) \in Nat /\ Len(bytes) = Len(whole)
  <2> HIDE DEF whole, bytes
  <2> QED
    BY <1>3, <1>4
<1>6. at <= Len(bytes) + 1
  <2> HIDE DEF whole, bytes
  <2> QED
    BY <1>3, <1>5
<1>7. n = N => Memory[at] = 0
  BY <1>4, <1>5
<1>8. CASE n < N
  <2> DEFINE next == part[n + 1]
             code == Encode(chars[n + 1])
  <2>1. n \in 0 .. N - 1 /\ n + 1 \in 0 .. N /\ n + 1 \in 1 .. N /\ chars[n + 1] \in Unicode
    BY <1>2, <1>8
  <2>2. /\ next = part[n] \o code /\ code \in Seq(Byte)
        /\ Len(code) \in Nat /\ Len(code) >= 1 /\ Len(code) <= 4 /\ code[1] # 0
    BY <2>1, Encoded DEF Growing
  <2>3. Len(next) <= Len(whole) /\ \A k \in 1 .. Len(next) : whole[k] = next[k]
    <3>1. ASSUME NEW m \in 0 .. N
          PROVE  /\ Len(part[m]) <= Len(whole)
                 /\ \A k \in 1 .. Len(part[m]) : whole[k] = part[m][k]
      BY <1>1, PartOfWhole
    <3> HIDE DEF whole, N
    <3> QED
      BY <2>1, <3>1
  <2> DEFINE p == part[n]
  <2> HIDE DEF chars, N, bytes, whole, next, code, p
  <2>4. Len(next) = Len(p) + Len(code)
    BY <1>3, <2>2, Joined, Zenon DEF p
  <2>5. ASSUME NEW k \in 1 .. Len(code)
        PROVE  Memory[Len(p) + k] = code[k]
    <3>1. (p \o code)[Len(p) + k] = code[k]
      BY <1>3, <2>2 DEF p
    <3>2. next[Len(p) + k] = code[k]
      BY <2>2, <3>1, Zenon DEF p
    <3>3. Len(p) + k \in 1 .. Len(next) /\ Len(p) + k \in 1 .. Len(bytes)
      BY <1>5, <2>2, <2>3, <2>4 DEF p
    <3> QED
      BY <1>3, <1>4, <2>3, <3>2, <3>3
  <2>6. Memory[at] # 0
    <3>1. 1 \in 1 .. Len(code)
      BY <2>2
    <3> QED
      BY <2>2, <2>5, <3>1 DEF p
  <2> DEFINE four == SubSeq(Memory, at, at + 3)
  <2>7. ASSUME NEW k \in 1 .. Len(code)
        PROVE  four[k] = code[k]
    <3>1. k \in 1 .. 4 /\ at \in 1 .. Len(Memory) /\ at + 3 \in 1 .. Len(Memory)
      <4>1. /\ Len(Memory) \in Nat /\ Len(Memory) >= Len(bytes) + 5 /\ Len(bytes) \in Nat
            /\ at \in Nat /\ at >= 1 /\ at <= Len(bytes) + 1 /\ Len(code) \in Nat /\ Len(code) <= 4
        BY <1>4, <1>5, <1>6, <2>2
      <4> HIDE DEF at, four
      <4>2. k \in 1 .. 4
        BY <4>1
      <4>3. at \in 1 .. Len(Memory)
        BY <4>1
      <4>4. at + 3 \in 1 .. Len(Memory)
        BY <4>1
      <4> QED
        BY <4>2, <4>3, <4>4
    <3>2. four[k] = Memory[at + k - 1]
      BY <1>4, <3>1
    <3>3. at + k - 1 = Len(p) + k
      BY <1>5, <3>1 DEF p
    <3> QED
      BY <2>5, <3>2, <3>3
  <2> HIDE DEF four
  <2>8. Decode(four) = [len |-> Len(code), code |-> UShort(chars[n + 1])]
    BY <2>1, <2>7, Decoded DEF code
  <2>9. Code(n + 1) = UShort(chars[n + 1])
    <3>1. chars[n + 1] \in Nat /\ chars[n + 1] < Plane
      BY <1>1, <1>2, <2>1, StringShape DEF Intact, chars, N, Unicode
    <3> QED
      BY <3>1, NarrowIs DEF Code, chars
  <2> QED
    BY <1>2, <1>5, <1>6, <1>8, <2>4, <2>6, <2>8, <2>9 DEF four, p, next, code, chars, N, bytes
<1> QED
  BY <1>2, <1>5, <1>6, <1>7, <1>8

\* The ink of the first n characters.
Inks(n, first) == UNION {InkOf(m, first) : m \in 1 .. n}

LEMMA OneMoreInk ==
  ASSUME NEW n \in Nat, NEW first
  PROVE  /\ Inks(0, first) = {}
         /\ Inks(n + 1, first) = Inks(n, first) \cup InkOf(n + 1, first)
<1>1. 1 .. 0 = {} /\ 1 .. n + 1 = (1 .. n) \cup {n + 1}
  OBVIOUS
<1> QED
  BY <1>1, Zenon DEF Inks

LEMMA PlaceShape ==
  ASSUME NEW place \in Places, NEW s \in Strings, NEW code \in DOMAIN Font,
         NEW when \in {"psize", "char"}, NEW n \in DOMAIN s.chars
  PROVE  LET glyph == Font[code][when]
         IN /\ place[1] \in Nat /\ place[2] \in Nat
            /\ glyph.top \in Int /\ glyph.ink \subseteq Nat \X Nat
            /\ \A c \in glyph.ink :
                 Offset(<<place[1] + (n - 1) * psize + c[1], place[2] - glyph.top + c[2]>>) \in Offsets
BY PlacesAssumption, Zenon

\* A character's glyph is its ink, in its place, and more only to the left of ink.
LEMMA GlyphInk ==
  ASSUME call \in StringCalls, NEW n \in Nat, NEW first \in {"psize", "char"},
         n + 1 \in DOMAIN call.string.chars, HasGlyph(Code(n + 1))
  PROVE  LET ink   == InkOf(n + 1, first)
             cells == GlyphCells(Font[Code(n + 1)][SizeOf(n + 1, first)],
                                 call.place[1] + n * psize, call.place[2])
         IN ink \subseteq cells /\ cells \subseteq LeftToo(ink) /\ At(ink) \subseteq Offsets
<1> DEFINE when  == SizeOf(n + 1, first)
           glyph == Font[Code(n + 1)][when]
           gx    == call.place[1] + n * psize
           gy    == call.place[2]
           ink   == InkOf(n + 1, first)
           cells == GlyphCells(glyph, gx, gy)
<1>1. call.place \in Places /\ call.string \in Strings
  BY DEF StringCalls
<1>2. when \in {"psize", "char"} /\ Code(n + 1) \in DOMAIN Font
  BY DEF SizeOf, HasGlyph
<1>3. /\ call.place[1] \in Nat /\ gy \in Nat /\ glyph.top \in Int /\ glyph.ink \subseteq Nat \X Nat
      /\ \A c \in glyph.ink :
           Offset(<<call.place[1] + (n + 1 - 1) * psize + c[1], gy - glyph.top + c[2]>>) \in Offsets
  <2> DEFINE code == Code(n + 1)
             place == call.place
             m == n + 1
  <2>1. m \in DOMAIN call.string.chars /\ code \in DOMAIN Font /\ place \in Places
    BY <1>1, <1>2
  <2> HIDE DEF when, code, place, m
  <2> DEFINE it == Font[code][when]
  <2>2. /\ place[1] \in Nat /\ place[2] \in Nat
        /\ it.top \in Int /\ it.ink \subseteq Nat \X Nat
        /\ \A c \in it.ink :
             Offset(<<place[1] + (m - 1) * psize + c[1], place[2] - it.top + c[2]>>) \in Offsets
    BY <1>1, <1>2, <2>1, PlaceShape
  <2> QED
    BY <2>2 DEF code, place, m
<1>4. gx \in Nat /\ call.place[1] + (n + 1 - 1) * psize = gx
  BY <1>3, DisplayAssumption
<1>5. ink = {<<gx + c[1], gy - glyph.top + c[2]>> : c \in glyph.ink}
  <2>1. ink = {<<call.place[1] + (n + 1 - 1) * psize + c[1], gy - glyph.top + c[2]>> : c \in glyph.ink}
    BY DEF InkOf
  <2> QED
    BY <1>4, <2>1
<1>6. cells = {<<gx + c[1], gy - glyph.top + c[2]>> : c \in Masked(glyph.ink)}
  BY Zenon DEF GlyphCells
<1> HIDE DEF when, glyph, gx, gy, ink, cells
<1>7. ink \subseteq cells
  BY <1>5, <1>6 DEF Masked
<1>8. cells \subseteq LeftToo(ink)
  <2> SUFFICES ASSUME NEW c \in Masked(glyph.ink)
               PROVE  <<gx + c[1], gy - glyph.top + c[2]>> \in LeftToo(ink)
    BY <1>6
  <2>1. CASE c \in glyph.ink
    BY <1>5, <2>1 DEF LeftToo
  <2>2. CASE c \notin glyph.ink
    <3>1. PICK d \in glyph.ink : c = <<d[1] - 1, d[2]>>
      BY <2>2 DEF Masked
    <3> DEFINE e == <<gx + d[1], gy - glyph.top + d[2]>>
    <3>2. e \in ink /\ e[1] = gx + d[1] /\ e[2] = gy - glyph.top + d[2]
      BY <1>5
    <3>3. d[1] \in Nat /\ c[1] = d[1] - 1 /\ c[2] = d[2]
      BY <1>3, <3>1
    <3>4. gx + c[1] = e[1] - 1 /\ gy - glyph.top + c[2] = e[2]
      <4> HIDE DEF e
      <4> QED
        BY <1>4, <3>2, <3>3
    <3> HIDE DEF e
    <3> QED
      BY <3>2, <3>4 DEF LeftToo
  <2> QED
    BY <2>1, <2>2
<1>9. At(ink) \subseteq Offsets
  <2>1. \A c \in glyph.ink : Offset(<<gx + c[1], gy - glyph.top + c[2]>>) \in Offsets
    BY <1>3, <1>4
  <2> QED
    BY <1>5, <2>1 DEF At
<1> QED
  BY <1>7, <1>8, <1>9 DEF when, glyph, gx, gy, ink, cells

\* n characters are shown, and i is where the next begins.
Reached(part, n, first) ==
  /\ n \in 0 .. Len(call.string.chars) /\ first \in {"psize", "char"}
  /\ i = Len(part[n]) + 1
  /\ x = call.place[1] + n * psize
  /\ size = IF n = 0 THEN first ELSE "char"
  /\ \A m \in 1 .. n : HasGlyph(Code(m))
  /\ At(Inks(n, first)) \subseteq Painted
  /\ Painted \subseteq At(LeftToo(Inks(n, first)))
  /\ pc = "returned" /\ n < Len(call.string.chars) =>
       call.font = "fails" \/ ~HasGlyph(Code(n + 1))

TextInv ==
  call.kind = "string" /\ Intact(call.string) =>
    \A part : Growing(call.string.chars, part) =>
      \E n \in 0 .. Len(call.string.chars), first \in {"psize", "char"} : Reached(part, n, first)

LEMMA TextInit == Init => TextInv
<1> SUFFICES ASSUME Init, call.kind = "string", Intact(call.string),
                    NEW part, Growing(call.string.chars, part)
             PROVE  \E n \in 0 .. Len(call.string.chars), first \in {"psize", "char"} :
                      Reached(part, n, first)
  BY DEF TextInv
<1>1. call \in StringCalls
  BY KindsInit, OneKind
<1>2. call.string \in Strings /\ call.place \in Places
  BY <1>1 DEF StringCalls
<1>3. /\ 0 \in 0 .. Len(call.string.chars) /\ Len(call.string.chars) \in Nat
      /\ part[0] = <<>> /\ call.place[1] \in Nat
  BY <1>2, StringShape, PlacesAssumption DEF Growing
<1>4. i = 1 /\ x = call.place[1] /\ size \in {"psize", "char"} /\ pc = "called"
  BY DEF Init
<1>5. Painted = {}
  BY DEF Init, Painted
<1>6. At(Inks(0, size)) = {}
  BY OneMoreInk, 0 \in Nat DEF At
<1>7. i = Len(part[0]) + 1 /\ x = call.place[1] + 0 * psize
  BY <1>3, <1>4, DisplayAssumption
<1>8. Reached(part, 0, size)
  BY <1>3, <1>4, <1>5, <1>6, <1>7 DEF Reached
<1> QED
  BY <1>3, <1>4, <1>8

LEMMA Unmoved ==
  ASSUME call' = call, NEW n, NEW first
  PROVE  /\ Inks(n, first)' = Inks(n, first)
         /\ HasGlyph(Code(n))' <=> HasGlyph(Code(n))
BY DEF Inks, InkOf, HasGlyph, Code, SizeOf

LEMMA TextGlyph ==
  ASSUME Kinds, call.kind = "string", Intact(call.string), Glyph,
         NEW part, Growing(call.string.chars, part),
         NEW n \in 0 .. Len(call.string.chars), NEW first \in {"psize", "char"},
         Reached(part, n, first)
  PROVE  n + 1 \in 0 .. Len(call.string.chars) /\ Reached(part, n + 1, first)'
<1> DEFINE chars == call.string.chars
           N == Len(chars)
           code == Encode(chars[n + 1])
           cells == GlyphCells(Font[Code(n + 1)][SizeOf(n + 1, first)],
                               call.place[1] + n * psize, call.place[2])
           ink == InkOf(n + 1, first)
<1>1. call \in StringCalls /\ call.string \in Strings /\ call.place \in Places
  <2>1. call \in StringCalls
    BY OneKind
  <2> QED
    BY <2>1 DEF StringCalls
<1>2. N \in Nat /\ DOMAIN chars = 1 .. N /\ call.place[1] \in Nat /\ psize \in Nat
  BY <1>1, StringShape, PlacesAssumption, DisplayAssumption
<1>3. /\ i = Len(part[n]) + 1 /\ x = call.place[1] + n * psize
      /\ size = IF n = 0 THEN first ELSE "char"
      /\ \A m \in 1 .. n : HasGlyph(Code(m))
      /\ At(Inks(n, first)) \subseteq Painted
      /\ Painted \subseteq At(LeftToo(Inks(n, first)))
  BY DEF Reached
<1>4. Memory[i] # 0
  BY DEF Glyph
<1>5. n < N
  <2>1. n = N => Memory[i] = 0
    BY <1>1, <1>3, Reads
  <2> QED
    BY <1>2, <1>4, <2>1
<1>6. /\ Decode(SubSeq(Memory, i, i + 3)) = [len |-> Len(code), code |-> Code(n + 1)]
      /\ Len(part[n + 1]) = Len(part[n]) + Len(code) /\ Len(part[n]) \in Nat
  BY <1>1, <1>3, <1>5, Reads
<1>7. Len(code) \in Nat /\ n + 1 \in 1 .. N /\ n + 1 \in 0 .. N /\ n \in Nat
  <2>1. n + 1 \in 1 .. N /\ n + 1 \in 0 .. N /\ n \in Nat
    BY <1>2, <1>5
  <2>2. chars[n + 1] \in Unicode
    BY <1>1, <2>1, StringShape
  <2> QED
    BY <2>1, <2>2, Encoded
<1>8. size = SizeOf(n + 1, first)
  <2>1. n + 1 = 1 <=> n = 0
    BY <1>7
  <2> QED
    BY <1>3, <2>1 DEF SizeOf
<1>9. /\ HasGlyph(Code(n + 1)) /\ Draw(At(cells)) /\ size' = "char"
      /\ i' = i + Len(code) /\ x' = x + psize /\ call' = call /\ pc' = pc /\ pc = "called"
  <2> DEFINE char == Decode(SubSeq(Memory, i, i + 3))
  <2>1. /\ HasGlyph(char.code)
        /\ Draw(At(GlyphCells(Font[char.code][size], x, call.place[2])))
        /\ size' = "char" /\ i' = i + char.len /\ x' = x + psize
        /\ call' = call /\ pc' = pc /\ pc = "called"
    BY Zenon DEF Glyph
  <2>2. char.len = Len(code) /\ char.code = Code(n + 1)
    <3> HIDE DEF code, char
    <3>1. char = [len |-> Len(code), code |-> Code(n + 1)]
      BY <1>6, Zenon DEF char
    <3> QED
      BY <3>1
  <2> HIDE DEF char, code
  <2>3. x = call.place[1] + n * psize
    BY <1>3
  <2>4. Draw(At(cells))
    BY <2>1, <2>2, <2>3, <1>8, Zenon
  <2>5. i' = i + Len(code)
    BY <2>1, <2>2, Zenon
  <2>6. HasGlyph(Code(n + 1))
    BY <2>1, <2>2, Zenon
  <2> HIDE DEF cells
  <2> QED
    BY <2>1, <2>4, <2>5, <2>6, Zenon
<1>10. ink \subseteq cells /\ cells \subseteq LeftToo(ink) /\ At(ink) \subseteq Offsets
  BY <1>1, <1>2, <1>7, <1>9, GlyphInk
<1> HIDE DEF cells, ink, code
<1>11. Painted' = Painted \cup (At(cells) \cap Offsets)
  <2>1. fb' = [o \in Offsets |-> IF o \in At(cells) THEN Ink ELSE fb[o]]
    BY <1>9 DEF Draw
  <2> QED
    BY <2>1 DEF Painted, Ink
<1>12. Inks(n + 1, first) = Inks(n, first) \cup ink
  BY <1>7, OneMoreInk DEF ink
<1>13. At(Inks(n + 1, first)) \subseteq Painted'
  <2>1. At(ink) \subseteq At(cells) \cap Offsets
    BY <1>10 DEF At
  <2>2. At(Inks(n + 1, first)) = At(Inks(n, first)) \cup At(ink)
    BY <1>12 DEF At
  <2> QED
    BY <1>3, <1>11, <2>1, <2>2
<1>14. Painted' \subseteq At(LeftToo(Inks(n + 1, first)))
  <2>1. LeftToo(ink) \subseteq LeftToo(Inks(n + 1, first))
        /\ LeftToo(Inks(n, first)) \subseteq LeftToo(Inks(n + 1, first))
    BY <1>12 DEF LeftToo
  <2>2. At(cells) \subseteq At(LeftToo(Inks(n + 1, first)))
        /\ At(LeftToo(Inks(n, first))) \subseteq At(LeftToo(Inks(n + 1, first)))
    BY <1>10, <2>1 DEF At
  <2> QED
    BY <1>3, <1>11, <2>2
<1>15. i' = Len(part[n + 1]) + 1 /\ x' = call.place[1] + (n + 1) * psize
  <2>1. i' = Len(part[n + 1]) + 1
    BY <1>3, <1>6, <1>7, <1>9
  <2>2. (n + 1) * psize = n * psize + psize /\ n * psize \in Nat
    BY <1>2, <1>7
  <2>3. x' = call.place[1] + n * psize + psize
    BY <1>3, <1>9
  <2>4. call.place[1] + n * psize + psize = call.place[1] + (n + 1) * psize
    BY <1>2, <2>2
  <2> QED
    BY <2>1, <2>3, <2>4
<1>16. \A m \in 1 .. n + 1 : HasGlyph(Code(m))
  <2>1. \A m \in 1 .. n + 1 : m \in 1 .. n \/ m = n + 1
    BY <1>7
  <2> QED
    BY <1>3, <1>9, <2>1
<1>17. n + 1 # 0
  BY <1>7
<1>18. Reached(part, n + 1, first)'
  <2>1. \A m \in 1 .. n + 1 : HasGlyph(Code(m))'
    BY <1>9, <1>16, Unmoved
  <2>2. Inks(n + 1, first)' = Inks(n + 1, first)
    BY <1>9, Unmoved
  <2> QED
    BY <1>7, <1>9, <1>13, <1>14, <1>15, <1>17, <2>1, <2>2 DEF Reached, At, LeftToo
<1> QED
  BY <1>7, <1>18

LEMMA TextEnds ==
  ASSUME Kinds, call.kind = "string", Intact(call.string), NoGlyph \/ Terminator \/ UNCHANGED vars,
         NEW part, Growing(call.string.chars, part),
         NEW n \in 0 .. Len(call.string.chars), NEW first \in {"psize", "char"},
         Reached(part, n, first)
  PROVE  Reached(part, n, first)'
<1>1. call \in StringCalls
  BY OneKind
<1>2. UNCHANGED <<call, i, x, size, fb>>
  BY DEF NoGlyph, Terminator, vars
<1>3. i = Len(part[n]) + 1
  BY DEF Reached
<1>4. /\ Inks(n, first)' = Inks(n, first) /\ Painted' = Painted
      /\ \A m : HasGlyph(Code(m))' <=> HasGlyph(Code(m))
  BY <1>2, Unmoved DEF Painted
<1>5. pc' = "returned" /\ n < Len(call.string.chars) =>
        call.font = "fails" \/ ~HasGlyph(Code(n + 1))
  <2> SUFFICES ASSUME n < Len(call.string.chars), pc' = "returned"
               PROVE  call.font = "fails" \/ ~HasGlyph(Code(n + 1))
    OBVIOUS
  <2>1. /\ Memory[i] # 0
        /\ Decode(SubSeq(Memory, i, i + 3)).code = Code(n + 1)
    <3> DEFINE l == Len(Encode(call.string.chars[n + 1]))
               char == Decode(SubSeq(Memory, i, i + 3))
    <3>1. call.string \in Strings /\ Len(call.string.chars) \in Nat
      BY <1>1, StringShape DEF StringCalls
    <3>2. Memory[i] # 0 /\ char = [len |-> l, code |-> Code(n + 1)]
      BY <1>1, <1>3, Reads
    <3> HIDE DEF l, char
    <3>3. char.code = Code(n + 1)
      BY <3>2
    <3> QED
      BY <3>2, <3>3, Zenon DEF char
  <2>2. CASE NoGlyph
    BY <2>1, <2>2 DEF NoGlyph
  <2>3. CASE Terminator
    BY <2>1, <2>3 DEF Terminator
  <2>4. CASE UNCHANGED vars
    BY <2>4 DEF vars, Reached
  <2> QED
    BY <2>2, <2>3, <2>4
<1> QED
  BY <1>2, <1>4, <1>5 DEF Reached

LEMMA TextStep == Kinds /\ TextInv /\ [Next]_vars => TextInv'
<1> SUFFICES ASSUME Kinds, TextInv, [Next]_vars, call.kind = "string", Intact(call.string),
                    NEW part, Growing(call.string.chars, part)
             PROVE  \E n \in 0 .. Len(call.string.chars), first \in {"psize", "char"} :
                      Reached(part, n, first)'
  BY KindsStep DEF TextInv
<1>1. PICK n \in 0 .. Len(call.string.chars), first \in {"psize", "char"} : Reached(part, n, first)
  BY DEF TextInv
<1>2. CASE Glyph
  BY <1>1, <1>2, TextGlyph
<1>3. CASE NoGlyph \/ Terminator \/ UNCHANGED vars
  BY <1>1, <1>3, TextEnds
<1> QED
  BY <1>2, <1>3 DEF Next, DrawShape, NoFile, BmpRow, Fault, BmpDone

\* A string that is not cut, of characters of one to three bytes, is displayed
\* character after character, psize apart, as far as its first character without a
\* glyph or as FreeType works: no ink is missing, what is more is a pixel to the left
\* of ink, and nothing past the terminator is looked at; for strings of every length
\* (font.c:17-48, 82-147).
THEOREM TextShown == Spec => []ShowsText
<1>1. Init => Kinds /\ TextInv
  BY KindsInit, TextInit
<1>2. Kinds /\ TextInv /\ [Next]_vars => (Kinds /\ TextInv)'
  BY KindsStep, TextStep
<1>3. Kinds /\ TextInv => ShowsText
  <2> SUFFICES ASSUME Kinds, TextInv, call.kind = "string", Intact(call.string)
               PROVE  LET chars == DOMAIN call.string.chars
                          Shown(n) ==
                            /\ \A m \in 1 .. n : HasGlyph(Code(m))
                            /\ x = call.place[1] + n * psize
                            /\ \E first \in {"psize", "char"} :
                                 /\ At(Inks(n, first)) \subseteq Painted
                                 /\ Painted \subseteq At(LeftToo(Inks(n, first)))
                      IN /\ i <= Len(Bytes(call.string)) + 1
                         /\ \E n \in {0} \cup chars :
                              /\ Shown(n)
                              /\ pc = "returned" /\ n + 1 \in chars =>
                                   call.font = "fails" \/ ~HasGlyph(Code(n + 1))
    BY DEF ShowsText, Legible, Inks
  <2>1. call \in StringCalls /\ call.string \in Strings
    <3>1. call \in StringCalls
      BY OneKind
    <3> QED
      BY <3>1 DEF StringCalls
  <2>2. PICK part : Growing(call.string.chars, part)
    BY <2>1, Parts
  <2>3. PICK n \in 0 .. Len(call.string.chars), first \in {"psize", "char"} : Reached(part, n, first)
    BY <2>2 DEF TextInv
  <2>4. i <= Len(Bytes(call.string)) + 1
    <3>1. Len(part[n]) + 1 <= Len(Bytes(call.string)) + 1
      BY <2>1, <2>2, Reads
    <3> QED
      BY <2>3, <3>1 DEF Reached
  <2>5. Len(call.string.chars) \in Nat /\ DOMAIN call.string.chars = 1 .. Len(call.string.chars)
    BY <2>1, StringShape
  <2>6. /\ n \in {0} \cup DOMAIN call.string.chars
        /\ n + 1 \in DOMAIN call.string.chars => n < Len(call.string.chars)
    BY <2>5
  <2> QED
    BY <2>3, <2>4, <2>6 DEF Reached
<1> QED
  BY <1>1, <1>2, <1>3, PTL DEF Spec
=============================================================================
