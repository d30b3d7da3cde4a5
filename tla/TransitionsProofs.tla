-------------------------- MODULE TransitionsProofs --------------------------
(***************************************************************************)
(* Theorems about Transitions, for displays of any size and any literals   *)
(* that fit them.                                                          *)
(***************************************************************************)
EXTENDS Transitions, TLAPS

LEMMA JobShape ==
  ASSUME NEW j \in Jobs
  PROVE  /\ j.w \in Nat \ {0} /\ j.h \in Nat \ {0}
         /\ j.effect \in Effects
BY JobsAssumption DEF WellFormed

LEMMA MoveShape ==
  ASSUME NEW j \in Jobs, j.effect = "move"
  PROVE  j.h > 1 /\ Frames(j) = j.h - 1
BY JobsAssumption DEF WellFormed, Frames, MoveFrames

\* While job is move, the framebuffer is the mapping and nothing else.
MoveInv == job.effect = "move" => /\ t \in 0 .. Frames(job)
                                  /\ DOMAIN fb = Mapped(job)
                                  /\ t = 0 => \A k \in Mapped(job) : fb[k] = Old
                                  /\ MoveSlides

JobInv == job \in Jobs

LEMMA JobStep == JobInv /\ [Next]_vars => JobInv' /\ job' = job
BY DEF JobInv, Next, Shut, Dot, Block, Slopline, Circle, Squarearea, Chessboard,
       Diamond, Paint, Move, Done, vars

\* One turn of move: the rows shown so far go down by one, and the next row of
\* the picture takes the first two.
LEMMA MoveTurn == ASSUME JobInv, MoveInv, Move PROVE MoveInv'
<1> DEFINE w == job.w
           h == job.h
<1>1. w \in Nat \ {0} /\ h \in Nat /\ h > 1 /\ Frames(job) = h - 1
  BY JobShape, MoveShape DEF JobInv, Move
<1>2. t \in 0 .. h - 2 /\ t' = t + 1 /\ job' = job /\ job.effect = "move"
  BY <1>1 DEF MoveInv, Move
<1>3. Mapped(job) = 0 .. w * h - 1
  BY DEF Mapped, Size
<1> DEFINE row == (h - 1 - t) * w
<1>4. /\ (h - t) * w = row + w /\ (h - t') * w = row
      /\ (t + 2) * w = (t + 1) * w + w /\ (t' + 1) * w = (t + 2) * w
      /\ row \in Int /\ (t + 1) * w \in Nat /\ (t + 1) * w >= w
      /\ (t + 2) * w <= w * h
  BY <1>1, <1>2
<1>5. fb' = [k \in Mapped(job) |-> IF k < w THEN row + k
                                   ELSE IF k < 2 * w THEN row + k - w
                                   ELSE IF k < (t + 2) * w THEN fb[k - w]
                                   ELSE fb[k]]
  BY <1>2 DEF Move, Slide, MoveInv
<1>6. MoveSlides'
  <2> SUFFICES ASSUME NEW k \in Mapped(job)
               PROVE fb'[k] = IF k < w THEN row + k
                              ELSE IF k < (t + 2) * w THEN row + k - w
                              ELSE Old
    BY <1>2, <1>4 DEF MoveSlides
  <2>1. k \in Int /\ k < w * h /\ 0 <= k
    BY <1>1, <1>3
  <2>2. CASE k < 2 * w
    BY <1>1, <1>2, <1>4, <1>5, <2>1, <2>2
  <2>3. CASE 2 * w <= k /\ k < (t + 2) * w
    <3>1. t > 0
      BY <1>1, <1>2, <2>1, <2>3
    <3>2. k - w \in Mapped(job) /\ w <= k - w /\ k - w < (t + 1) * w
      BY <1>1, <1>3, <1>4, <2>1, <2>3
    <3>3. fb[k - w] = (h - t) * w + (k - w) - w
      BY <1>1, <1>2, <2>1, <3>1, <3>2 DEF MoveInv, MoveSlides
    <3>4. fb[k - w] = row + k - w
      BY <1>1, <1>4, <2>1, <3>3
    <3> QED
      BY <1>1, <1>4, <1>5, <2>1, <2>3, <3>4
  <2>4. CASE (t + 2) * w <= k
    <3>1. 2 * w <= k /\ (t + 1) * w <= k /\ w <= k
      BY <1>1, <1>2, <1>4, <2>1, <2>4
    <3>2. fb[k] = Old
      BY <1>1, <1>2, <1>4, <2>1, <3>1 DEF MoveInv, MoveSlides
    <3> QED
      BY <1>1, <1>4, <1>5, <2>1, <2>4, <3>1, <3>2
  <2> QED
    BY <1>1, <1>4, <2>1, <2>2, <2>3, <2>4
<1> QED
  BY <1>1, <1>2, <1>5, <1>6 DEF MoveInv

\* move only ever shows the picture slid down by whole steps, over rows it has
\* not reached yet, for a display and a step of any size (special_move).
THEOREM MoveSlidesDown == Spec => []MoveSlides
<1>1. Init => JobInv /\ MoveInv
  BY JobShape, MoveShape DEF Init, JobInv, MoveInv, MoveSlides
<1>2. JobInv /\ MoveInv /\ [Next]_vars => JobInv' /\ MoveInv'
  <2> SUFFICES ASSUME JobInv, MoveInv, [Next]_vars PROVE MoveInv'
    BY JobStep
  <2>1. CASE Move
    BY <2>1, MoveTurn
  <2>2. CASE job.effect # "move"
    BY <2>2, JobStep DEF MoveInv
  <2>3. CASE Done \/ UNCHANGED vars
    BY <2>3 DEF Done, vars, MoveInv, MoveSlides
  <2> QED
    BY <2>1, <2>2, <2>3 DEF Next, Shut, Dot, Block, Slopline, Circle,
       Squarearea, Chessboard, Diamond, Paint
<1>3. JobInv /\ MoveInv => MoveSlides
  BY DEF MoveInv, MoveSlides
<1> QED
  BY <1>1, <1>2, <1>3, PTL DEF Spec

-----------------------------------------------------------------------------
(* Arithmetic                                                              *)

LEMMA Division ==
  ASSUME NEW a \in Nat, NEW d \in Nat \ {0}
  PROVE  /\ a \div d \in Nat /\ a % d \in 0 .. d - 1
         /\ a = d * (a \div d) + (a % d)
OBVIOUS

LEMMA Quotient ==
  ASSUME NEW d \in Nat \ {0}, NEW q \in Nat, NEW r \in 0 .. d - 1
  PROVE  (q * d + r) \div d = q /\ (q * d + r) % d = r
<1> DEFINE a == q * d + r
           u == a \div d
           v == a % d
<1>1. a \in Nat /\ a = d * q + r
  OBVIOUS
<1>2. u \in Nat /\ v \in 0 .. d - 1 /\ a = d * u + v
  <2> HIDE DEF a
  <2> QED
    BY <1>1, Division
<1> HIDE DEF a, u, v
<1>3. ~(u > q)
  <2> SUFFICES ASSUME u >= q + 1 PROVE FALSE
    BY <1>2
  <2>1. d * u >= d * (q + 1) /\ d * (q + 1) = d * q + d
    BY <1>2
  <2> QED
    BY <1>1, <1>2, <2>1
<1>4. ~(q > u)
  <2> SUFFICES ASSUME q >= u + 1 PROVE FALSE
    BY <1>2
  <2>1. d * q >= d * (u + 1) /\ d * (u + 1) = d * u + d
    BY <1>2
  <2> QED
    BY <1>1, <1>2, <2>1
<1>5. u = q /\ v = r
  BY <1>1, <1>2, <1>3, <1>4
<1> QED
  BY <1>5 DEF u, v, a

\* The offset of a row and a column, and back.
LEMMA Offset ==
  ASSUME NEW w \in Nat \ {0}, NEW h \in Nat, NEW r \in 0 .. h - 1, NEW c \in 0 .. w - 1
  PROVE  /\ r * w + c \in 0 .. w * h - 1 /\ r * w \in Nat
         /\ (r * w + c) \div w = r /\ (r * w + c) % w = c
<1>1. r * w <= (h - 1) * w /\ (h - 1) * w = w * h - w /\ r * w \in Nat
  OBVIOUS
<1> QED
  BY <1>1, Quotient

LEMMA Place ==
  ASSUME NEW w \in Nat \ {0}, NEW h \in Nat, NEW k \in 0 .. w * h - 1
  PROVE  k \div w \in 0 .. h - 1 /\ k % w \in 0 .. w - 1 /\ k = (k \div w) * w + (k % w)
<1> DEFINE r == k \div w
           c == k % w
<1>1. k \in Nat /\ k < w * h /\ w * h \in Int
  OBVIOUS
<1>2. r \in Nat /\ c \in 0 .. w - 1 /\ k = w * r + c
  BY <1>1, Division
<1> HIDE DEF r, c
<1>3. r < h
  <2> SUFFICES ASSUME r >= h PROVE FALSE
    BY <1>2
  <2>1. w * r >= w * h
    BY <1>2
  <2> QED
    BY <1>1, <1>2, <2>1
<1>4. r \in 0 .. h - 1 /\ c \in 0 .. w - 1 /\ k = r * w + c
  BY <1>2, <1>3
<1> QED
  BY <1>4 DEF r, c

\* Whole rows.
LEMMA RowsAre ==
  ASSUME NEW w \in Nat \ {0}, NEW h \in Nat, NEW first \in Nat, NEW number \in Nat,
         first + number <= h
  PROVE  /\ first * w .. (first + number) * w - 1 \subseteq 0 .. w * h - 1
         /\ \A k \in 0 .. w * h - 1 :
              k \in first * w .. (first + number) * w - 1
                <=> k \div w \in first .. first + number - 1
<1> DEFINE last == first + number
<1>1. /\ first * w \in Nat /\ last * w \in Nat /\ last * w <= h * w /\ h * w = w * h
      /\ last \in Nat
  BY DEF last
<1> HIDE DEF last
<1>2. ASSUME NEW k \in 0 .. w * h - 1
      PROVE  k \in first * w .. last * w - 1 <=> k \div w \in first .. last - 1
  <2> DEFINE r == k \div w
             c == k % w
  <2>1. r \in 0 .. h - 1 /\ c \in 0 .. w - 1 /\ k = r * w + c
    BY Place
  <2> HIDE DEF r, c
  <2>2. r >= first => r * w >= first * w
    BY <2>1
  <2>3. r < first => r * w + w <= first * w
    <3> SUFFICES ASSUME r + 1 <= first PROVE r * w + w <= first * w
      BY <2>1
    <3>1. (r + 1) * w <= first * w /\ (r + 1) * w = r * w + w
      BY <2>1
    <3> QED
      BY <3>1
  <2>4. r >= last => r * w >= last * w
    BY <1>1, <2>1
  <2>5. r < last => r * w + w <= last * w
    <3> SUFFICES ASSUME r + 1 <= last PROVE r * w + w <= last * w
      BY <1>1, <2>1
    <3>1. (r + 1) * w <= last * w /\ (r + 1) * w = r * w + w
      BY <1>1, <2>1
    <3> QED
      BY <3>1
  <2>6. k \in first * w .. last * w - 1 <=> r \in first .. last - 1
    <3>1. r * w \in Int
      BY <2>1
    <3> QED
      BY <1>1, <2>1, <2>2, <2>3, <2>4, <2>5, <3>1
  <2> QED
    BY <2>6 DEF r
<1>3. first * w .. last * w - 1 \subseteq 0 .. w * h - 1
  BY <1>1
<1> QED
  BY <1>2, <1>3 DEF last

-----------------------------------------------------------------------------
(* shut                                                                    *)

\* The row that frame s paints, before the last frame, and back.
LEMMA ShutRow ==
  ASSUME NEW n \in Nat \ {0}, NEW strip \in Nat \ {0}, NEW s \in 0 .. strip * n - 1
  PROVE  LET row == (s % n) * strip + s \div n
         IN  /\ row \in 0 .. n * strip - 1
             /\ row \div strip = s % n /\ row % strip = s \div n
             /\ s = (s \div n) * n + (s % n)
<1>1. strip * n = n * strip
  OBVIOUS
<1>2. s \div n \in 0 .. strip - 1 /\ s % n \in 0 .. n - 1 /\ s = (s \div n) * n + (s % n)
  BY <1>1, Place
<1> DEFINE a == s % n
           b == s \div n
<1>3. a \in 0 .. n - 1 /\ b \in 0 .. strip - 1
  BY <1>2
<1> HIDE DEF a, b
<1>4. /\ a * strip + b \in 0 .. strip * n - 1
      /\ (a * strip + b) \div strip = a /\ (a * strip + b) % strip = b
  BY <1>3, Offset
<1> QED
  BY <1>1, <1>2, <1>4 DEF a, b

LEMMA ShutShape ==
  ASSUME NEW j \in Jobs, j.effect = "shut"
  PROVE  /\ j.w \in Nat \ {0} /\ j.h \in Nat \ {0}
         /\ j.strip \in Nat \ {0} /\ Strips(j) \in Nat \ {0} /\ j.tail \in Nat
         /\ Strips(j) * j.strip + j.tail = j.h
         /\ ShutFrames(j) = j.strip * Strips(j) + 1
         /\ j.strip * Strips(j) \in Nat /\ j.strip * Strips(j) = Strips(j) * j.strip
<1>1. /\ j.w \in Nat \ {0} /\ j.h \in Nat \ {0}
      /\ j.strip \in Nat \ {0} /\ j.reach \in Nat \ {0} /\ j.tail \in Nat
      /\ Strips(j) * j.strip + j.tail = j.h
  BY JobsAssumption DEF WellFormed
<1>2. Strips(j) \in Nat \ {0}
  <2> DEFINE d == j.strip
             a == j.reach + d - 1
  <2>1. d \in Nat \ {0} /\ a \in Nat /\ a >= d
    BY <1>1
  <2> HIDE DEF d, a
  <2>2. a \div d \in Nat /\ a % d \in 0 .. d - 1 /\ a = d * (a \div d) + (a % d)
    BY <2>1, Division
  <2>3. a \div d # 0
    BY <2>1, <2>2
  <2> QED
    BY <2>2, <2>3 DEF Strips, a, d
<1> QED
  BY <1>1, <1>2 DEF ShutFrames

\* Whether frame s paints an offset depends on the offset's row.
LEMMA ShutPaints ==
  ASSUME NEW j \in Jobs, j.effect = "shut", NEW s \in 0 .. ShutFrames(j) - 1
  PROVE  /\ ShutDots(j, s) \subseteq Mapped(j)
         /\ \A k \in Mapped(j) :
              k \in ShutDots(j, s) <=>
                IF s < j.strip * Strips(j)
                  THEN /\ k \div j.w < Strips(j) * j.strip
                       /\ (k \div j.w) \div j.strip = s % Strips(j)
                       /\ (k \div j.w) % j.strip = s \div Strips(j)
                  ELSE k \div j.w >= Strips(j) * j.strip
<1> DEFINE w == j.w
           h == j.h
           n == Strips(j)
           strip == j.strip
<1>1. /\ w \in Nat \ {0} /\ h \in Nat \ {0} /\ strip \in Nat \ {0} /\ n \in Nat \ {0}
      /\ j.tail \in Nat /\ n * strip + j.tail = h
      /\ strip * n \in Nat /\ strip * n = n * strip /\ s \in 0 .. strip * n
  BY ShutShape
<1>2. Mapped(j) = 0 .. w * h - 1
  BY DEF Mapped, Size
<1>3. CASE s < strip * n
  <2> DEFINE row == (s % n) * strip + s \div n
  <2>1. s \in 0 .. strip * n - 1
    BY <1>1, <1>3
  <2>2. row \in 0 .. n * strip - 1 /\ row \div strip = s % n /\ row % strip = s \div n
    <3> HIDE DEF n, strip
    <3> QED
      BY <1>1, <2>1, ShutRow
  <2>3. ShutDots(j, s) = row * w .. (row + 1) * w - 1
    BY <1>3 DEF ShutDots, Rows
  <2> HIDE DEF row, w, h, n, strip
  <2>4. /\ row * w .. (row + 1) * w - 1 \subseteq 0 .. w * h - 1
        /\ \A k \in 0 .. w * h - 1 :
             k \in row * w .. (row + 1) * w - 1 <=> k \div w \in row .. row + 1 - 1
    <3>1. row \in Nat /\ 1 \in Nat /\ row + 1 <= h
      BY <1>1, <2>2
    <3> QED
      BY <1>1, <3>1, RowsAre
  <2>5. ASSUME NEW k \in 0 .. w * h - 1
        PROVE  k \div w \in row .. row + 1 - 1 <=>
                 /\ k \div w < n * strip
                 /\ (k \div w) \div strip = s % n /\ (k \div w) % strip = s \div n
    <3> DEFINE r == k \div w
    <3>1. r \in Nat
      BY <1>1, Place
    <3> HIDE DEF r
    <3>2. r \div strip \in Nat /\ r = strip * (r \div strip) + (r % strip)
      BY <1>1, <3>1, Division
    <3>3. row = strip * (row \div strip) + (row % strip)
      <4>1. row \in Nat
        BY <1>1, <2>2
      <4> QED
        BY <1>1, <4>1, Division
    <3>4. r = row <=> /\ r < n * strip
                      /\ r \div strip = s % n /\ r % strip = s \div n
      BY <1>1, <2>2, <3>1, <3>2, <3>3
    <3>5. r \in row .. row + 1 - 1 <=> r = row
      BY <2>2, <3>1
    <3> QED
      BY <3>4, <3>5 DEF r
  <2> QED
    BY <1>2, <1>3, <2>3, <2>4, <2>5 DEF w, h, n, strip
<1>4. CASE ~(s < strip * n)
  <2> DEFINE first == h - j.tail
  <2>1. ShutDots(j, s) = first * w .. (first + j.tail) * w - 1
    BY <1>4 DEF ShutDots, Rows
  <2>2. first \in Nat /\ first = n * strip /\ first + j.tail = h
    BY <1>1
  <2> HIDE DEF first, w, h, n, strip
  <2>3. /\ first * w .. (first + j.tail) * w - 1 \subseteq 0 .. w * h - 1
        /\ \A k \in 0 .. w * h - 1 :
             k \in first * w .. (first + j.tail) * w - 1
               <=> k \div w \in first .. first + j.tail - 1
    BY <1>1, <2>2, RowsAre
  <2>4. \A k \in 0 .. w * h - 1 : k \div w \in 0 .. h - 1
    BY <1>1, Place
  <2>5. ASSUME NEW k \in 0 .. w * h - 1
        PROVE  k \div w \in first .. first + j.tail - 1 <=> k \div w >= n * strip
    <3> DEFINE r == k \div w
    <3>1. r \in 0 .. h - 1
      BY <2>4
    <3> HIDE DEF r
    <3>2. r \in first .. first + j.tail - 1 <=> r >= n * strip
      BY <1>1, <2>2, <3>1
    <3> QED
      BY <3>2 DEF r
  <2> QED
    BY <1>2, <1>4, <2>1, <2>3, <2>5 DEF w, h, n, strip
<1> QED
  BY <1>3, <1>4

\* shut reaches every row.
LEMMA ShutCovers ==
  ASSUME NEW j \in Jobs, j.effect = "shut", NEW k \in Mapped(j)
  PROVE  \E s \in 0 .. ShutFrames(j) - 1 : k \in ShutDots(j, s)
<1> DEFINE n == Strips(j)
           strip == j.strip
           r == k \div j.w
<1>1. /\ strip \in Nat \ {0} /\ n \in Nat \ {0}
      /\ strip * n \in Nat /\ strip * n = n * strip
      /\ ShutFrames(j) = strip * n + 1
  BY ShutShape
<1>2. r \in Nat
  BY ShutShape, Place DEF Mapped, Size
<1>3. CASE r >= n * strip
  <2>1. strip * n \in 0 .. ShutFrames(j) - 1
    BY <1>1
  <2>2. k \in ShutDots(j, strip * n)
    BY <1>1, <1>3, <2>1, ShutPaints
  <2> QED
    BY <2>1, <2>2
<1>4. CASE ~(r >= n * strip)
  <2> DEFINE a == r \div strip
             b == r % strip
             s == b * n + a
  <2>1. a \in 0 .. n - 1 /\ b \in 0 .. strip - 1
    <3> HIDE DEF n, strip, r
    <3>1. r \in 0 .. strip * n - 1
      BY <1>1, <1>2, <1>4
    <3> QED
      BY <1>1, <3>1, Place
  <2>2. s \in 0 .. strip * n - 1 /\ s \div n = b /\ s % n = a
    <3> HIDE DEF a, b, n, strip
    <3>1. s \in 0 .. n * strip - 1 /\ s \div n = b /\ s % n = a
      BY <1>1, <2>1, Offset
    <3> QED
      BY <1>1, <3>1
  <2> HIDE DEF s
  <2>3. s \in 0 .. ShutFrames(j) - 1 /\ s < strip * n
    BY <1>1, <2>2
  <2>4. r < n * strip
    BY <1>1, <1>2, <1>4
  <2>5. k \in ShutDots(j, s)
    BY <1>1, <2>2, <2>3, <2>4, ShutPaints
  <2> QED
    BY <2>3, <2>5
<1> QED
  BY <1>3, <1>4

\* shut reaches no row twice.
LEMMA ShutOnce ==
  ASSUME NEW j \in Jobs, j.effect = "shut",
         NEW s \in 0 .. ShutFrames(j) - 1, NEW u \in 0 .. ShutFrames(j) - 1, s # u,
         NEW k \in ShutDots(j, s)
  PROVE  k \notin ShutDots(j, u)
<1> SUFFICES ASSUME k \in ShutDots(j, u) PROVE FALSE
  OBVIOUS
<1> DEFINE n == Strips(j)
           strip == j.strip
           r == k \div j.w
<1>1. /\ strip \in Nat \ {0} /\ n \in Nat \ {0}
      /\ strip * n \in Nat /\ strip * n = n * strip
      /\ ShutFrames(j) = strip * n + 1
  BY ShutShape
<1>2. k \in Mapped(j) /\ r \in Nat
  <2>1. k \in Mapped(j)
    BY ShutPaints
  <2> QED
    BY <2>1, ShutShape, Place DEF Mapped, Size
<1>3. IF s < strip * n THEN r < n * strip /\ r \div strip = s % n /\ r % strip = s \div n
                       ELSE r >= n * strip
  BY <1>2, ShutPaints
<1>4. IF u < strip * n THEN r < n * strip /\ r \div strip = u % n /\ r % strip = u \div n
                       ELSE r >= n * strip
  BY <1>2, ShutPaints
<1>5. s < strip * n <=> u < strip * n
  <2> HIDE DEF n, strip, r
  <2> QED
    BY <1>1, <1>2, <1>3, <1>4
<1>6. CASE s < strip * n
  <2>1. s = (s \div n) * n + (s % n) /\ u = (u \div n) * n + (u % n)
    <3> HIDE DEF n, strip, r
    <3>1. s \in 0 .. strip * n - 1 /\ u \in 0 .. strip * n - 1
      BY <1>1, <1>5, <1>6
    <3> QED
      BY <1>1, <3>1, ShutRow
  <2>2. s \div n = u \div n /\ s % n = u % n
    BY <1>3, <1>4, <1>5, <1>6
  <2> QED
    BY <2>1, <2>2
<1>7. CASE ~(s < strip * n)
  <2>1. s = strip * n /\ u = strip * n
    <3> HIDE DEF n, strip, r
    <3> QED
      BY <1>1, <1>5, <1>7
  <2> QED
    BY <2>1
<1> QED
  BY <1>6, <1>7

-----------------------------------------------------------------------------
(* dot                                                                     *)

LEMMA DotShape ==
  ASSUME NEW j \in Jobs, j.effect = "dot"
  PROVE  \E rows \in Nat \ {0}, third \in Nat \ {0} :
           /\ j.side \in Nat \ {0} /\ j.columns \in Nat \ {0} /\ j.blocks \in Nat \ {0}
           /\ j.blocks = j.columns * rows /\ j.blocks = third * 3
           /\ j.blocks \div j.columns = rows /\ j.blocks \div 3 = third
           /\ j.w \in Nat \ {0} /\ j.h \in Nat \ {0}
           /\ j.w = j.side * j.columns /\ j.h = j.side * rows
<1> DEFINE b == j.blocks
           c == j.columns
           d == j.side
<1>1. /\ j.w \in Nat \ {0} /\ j.h \in Nat \ {0}
      /\ d \in Nat \ {0} /\ c \in Nat \ {0} /\ b \in Nat \ {0}
      /\ b % 3 = 0 /\ b % c = 0 /\ j.w = c * d /\ j.h = (b \div c) * d
  BY JobsAssumption DEF WellFormed
<1> HIDE DEF b, c, d
<1> DEFINE rows  == b \div c
           third == b \div 3
<1>2. rows \in Nat /\ b = c * rows + (b % c) /\ third \in Nat /\ b = 3 * third + (b % 3)
  BY <1>1, Division
<1> HIDE DEF rows, third
<1>3. rows # 0 /\ third # 0 /\ b = c * rows /\ b = third * 3
  BY <1>1, <1>2
<1>4. j.w = d * c /\ j.h = d * rows
  BY <1>1, <1>2 DEF rows
<1>5. /\ rows \in Nat \ {0} /\ third \in Nat \ {0}
      /\ d \in Nat \ {0} /\ c \in Nat \ {0} /\ b \in Nat \ {0}
      /\ b = c * rows /\ b = third * 3
      /\ b \div c = rows /\ b \div 3 = third
      /\ j.w \in Nat \ {0} /\ j.h \in Nat \ {0}
      /\ j.w = d * c /\ j.h = d * rows
  BY <1>1, <1>2, <1>3, <1>4 DEF rows, third
<1> QED
  BY <1>5 DEF b, c, d

\* The block that frame s prints.
DotBlock(third, s) == CASE s < third -> 3 * s
                        [] s \div third = 1 -> third * 3 - 2 - 3 * (s - third)
                        [] OTHER -> 2 + 3 * (s - 2 * third)

\* Its three passes print the blocks of one remainder by three each: up, down, up.
LEMMA DotPasses ==
  ASSUME NEW third \in Nat \ {0}
  PROVE  /\ \A s \in 0 .. third * 3 - 1 : DotBlock(third, s) \in 0 .. third * 3 - 1
         /\ \A s, u \in 0 .. third * 3 - 1 : DotBlock(third, s) = DotBlock(third, u) => s = u
         /\ \A b \in 0 .. third * 3 - 1 : \E s \in 0 .. third * 3 - 1 : DotBlock(third, s) = b
<1>1. ASSUME NEW s \in 0 .. third * 3 - 1
      PROVE  s \div third = 1 <=> third <= s /\ s < 2 * third
  <2> DEFINE q == s \div third
             r == s % third
  <2>1. q \in 0 .. 2 /\ r \in 0 .. third - 1 /\ s = q * third + r
    <3>1. 3 \in Nat /\ 3 - 1 = 2
      OBVIOUS
    <3> HIDE DEF q, r
    <3>2. s \div third \in 0 .. 3 - 1 /\ s % third \in 0 .. third - 1
          /\ s = (s \div third) * third + (s % third)
      BY <3>1, Place
    <3> QED
      BY <3>1, <3>2 DEF q, r
  <2> HIDE DEF q, r
  <2>2. q = 1 <=> third <= s /\ s < 2 * third
    BY <2>1
  <2> QED
    BY <2>2 DEF q
<1>2. \A s \in 0 .. third * 3 - 1 :
        DotBlock(third, s) = IF s < third THEN 3 * s
                             ELSE IF s < 2 * third THEN third * 3 - 2 - 3 * (s - third)
                             ELSE 2 + 3 * (s - 2 * third)
  BY <1>1 DEF DotBlock
<1>3. \A s \in 0 .. third * 3 - 1 : DotBlock(third, s) \in 0 .. third * 3 - 1
  BY <1>2
<1>4. \A s, u \in 0 .. third * 3 - 1 : DotBlock(third, s) = DotBlock(third, u) => s = u
  BY <1>2
<1>5. ASSUME NEW b \in 0 .. third * 3 - 1
      PROVE  \E s \in 0 .. third * 3 - 1 : DotBlock(third, s) = b
  <2>1. PICK q \in Int, r \in 0 .. 2 : b = 3 * q + r
    <3>1. b = 3 * (b \div 3) + (b % 3) /\ b \div 3 \in Int /\ b % 3 \in 0 .. 2
      BY Division
    <3> QED
      BY <3>1
  <2>2. q \in 0 .. third - 1
    BY <2>1
  <2>3. CASE r = 0
    <3>1. q \in 0 .. third * 3 - 1 /\ DotBlock(third, q) = b
      BY <1>2, <2>1, <2>2, <2>3
    <3> QED
      BY <3>1
  <2>4. CASE r = 1
    <3>1. 2 * third - 1 - q \in 0 .. third * 3 - 1 /\ DotBlock(third, 2 * third - 1 - q) = b
      BY <1>2, <2>1, <2>2, <2>4
    <3> QED
      BY <3>1
  <2>5. CASE r = 2
    <3>1. 2 * third + q \in 0 .. third * 3 - 1 /\ DotBlock(third, 2 * third + q) = b
      BY <1>2, <2>1, <2>2, <2>5
    <3> QED
      BY <3>1
  <2> QED
    BY <2>1, <2>3, <2>4, <2>5
<1> QED
  BY <1>3, <1>4, <1>5

\* Whether frame s paints an offset depends on the block the offset is in.
LEMMA BlockPaints ==
  ASSUME NEW j \in Jobs, j.effect = "dot", NEW b \in 0 .. j.blocks - 1
  PROVE  /\ Print16x16(j, b) \subseteq Mapped(j)
         /\ \A k \in Mapped(j) :
              k \in Print16x16(j, b) <=> /\ (k \div j.w) \div j.side = b \div j.columns
                                         /\ (k % j.w) \div j.side = b % j.columns
<1> DEFINE w == j.w
           h == j.h
           d == j.side
           c == j.columns
<1>0. PICK rows \in Nat \ {0} :
        /\ d \in Nat \ {0} /\ c \in Nat \ {0} /\ w \in Nat \ {0} /\ h \in Nat \ {0}
        /\ j.blocks = c * rows /\ w = d * c /\ h = d * rows
  BY DotShape
<1>1. Mapped(j) = 0 .. w * h - 1 /\ Guarded(j) = 0 .. w * h
  BY DEF Mapped, Guarded, Size
<1> DEFINE p == b \div c
           q == b % c
<1>2. p \in 0 .. rows - 1 /\ q \in 0 .. c - 1
  <2> HIDE DEF w, h, d, c
  <2>1. b \in 0 .. c * rows - 1
    BY <1>0 DEF c
  <2> QED
    BY <1>0, <2>1, Place
<1>3. Print16x16(j, b) =
        {(p * d + e) * w + q * d + f : e, f \in 0 .. d - 1} \cap 0 .. w * h
  BY <1>1 DEF Print16x16
<1> HIDE DEF w, h, d, c, p, q
<1>4. ASSUME NEW e \in 0 .. d - 1, NEW f \in 0 .. d - 1
      PROVE  LET k == (p * d + e) * w + q * d + f
             IN  /\ k \in 0 .. w * h - 1
                 /\ (k \div w) \div d = p /\ (k % w) \div d = q
  <2> DEFINE r == p * d + e
             l == q * d + f
  <2>1. r \in 0 .. d * rows - 1 /\ r \div d = p
    BY <1>0, <1>2, Offset
  <2>2. l \in 0 .. d * c - 1 /\ l \div d = q
    BY <1>0, <1>2, Offset
  <2>3. r * w + q * d + f = r * w + l /\ r \in Int /\ l \in Int
    <3>1. q * d \in Int /\ f \in Int
      BY <1>0, <1>2
    <3>2. r \in Int
      BY <1>0, <2>1
    <3> HIDE DEF r
    <3>3. r * w \in Int
      BY <1>0, <3>2
    <3> QED
      BY <3>1, <3>2, <3>3
  <2> HIDE DEF r, l
  <2>4. /\ r * w + l \in 0 .. w * h - 1
        /\ (r * w + l) \div w = r /\ (r * w + l) % w = l
    BY <1>0, <2>1, <2>2, Offset
  <2>5. LET k == r * w + l
        IN  /\ k \in 0 .. w * h - 1
            /\ (k \div w) \div d = p /\ (k % w) \div d = q
    BY <2>1, <2>2, <2>4
  <2>6. LET k == r * w + q * d + f
        IN  /\ k \in 0 .. w * h - 1
            /\ (k \div w) \div d = p /\ (k % w) \div d = q
    BY <2>3, <2>5
  <2> QED
    BY <2>6 DEF r
<1>5. ASSUME NEW k \in 0 .. w * h - 1, (k \div w) \div d = p, (k % w) \div d = q
      PROVE  \E e, f \in 0 .. d - 1 : k = (p * d + e) * w + q * d + f
  <2> DEFINE r == k \div w
             l == k % w
  <2>1. r \in Nat /\ l \in Nat /\ k = r * w + l
    BY <1>0, Place
  <2>2. r \div d = p /\ l \div d = q
    BY <1>5
  <2> HIDE DEF r, l
  <2> DEFINE e == r % d
             f == l % d
  <2>3. r = d * p + e /\ l = d * q + f /\ e \in 0 .. d - 1 /\ f \in 0 .. d - 1
    BY <1>0, <2>1, <2>2, Division
  <2> HIDE DEF e, f
  <2>4. r = p * d + e /\ l = q * d + f /\ q * d \in Int /\ r * w \in Int
    BY <1>0, <1>2, <2>1, <2>3
  <2>5. k = (p * d + e) * w + q * d + f
    <3>1. k = r * w + q * d + f
      BY <2>1, <2>3, <2>4
    <3> QED
      BY <2>4, <3>1
  <2> QED
    BY <2>3, <2>5
<1>6. Print16x16(j, b) \subseteq 0 .. w * h - 1
  BY <1>3, <1>4
<1>7. ASSUME NEW k \in 0 .. w * h - 1
      PROVE  k \in Print16x16(j, b) <=> (k \div w) \div d = p /\ (k % w) \div d = q
  <2>1. k \in 0 .. w * h
    BY <1>0
  <2>2. ASSUME k \in Print16x16(j, b) PROVE (k \div w) \div d = p /\ (k % w) \div d = q
    <3>1. PICK e \in 0 .. d - 1, f \in 0 .. d - 1 : k = (p * d + e) * w + q * d + f
      BY <1>3, <2>2
    <3> QED
      BY <1>4, <3>1
  <2>3. ASSUME (k \div w) \div d = p, (k % w) \div d = q PROVE k \in Print16x16(j, b)
    BY <1>3, <1>5, <2>1, <2>3
  <2> QED
    BY <2>2, <2>3
<1> QED
  BY <1>1, <1>6, <1>7 DEF w, h, d, c, p, q

LEMMA DotDotsAre ==
  ASSUME NEW j \in Jobs, j.effect = "dot"
  PROVE  \E third \in Nat \ {0} :
           /\ j.blocks = third * 3 /\ DotFrames(j) = third * 3
           /\ \A s \in 0 .. third * 3 - 1 :
                DotDots(j, s) = Print16x16(j, DotBlock(third, s))
<1>1. PICK third \in Nat \ {0} : j.blocks = third * 3 /\ j.blocks \div 3 = third
  BY DotShape
<1>2. ASSUME NEW s \in 0 .. third * 3 - 1
      PROVE  DotDots(j, s) = Print16x16(j, DotBlock(third, s))
  BY <1>1 DEF DotDots, DotBlock
<1> QED
  BY <1>1, <1>2 DEF DotFrames

LEMMA DotPaints ==
  ASSUME NEW j \in Jobs, j.effect = "dot", NEW s \in 0 .. DotFrames(j) - 1
  PROVE  DotDots(j, s) \subseteq Mapped(j)
<1>1. PICK third \in Nat \ {0} :
        /\ j.blocks = third * 3 /\ DotFrames(j) = third * 3
        /\ \A u \in 0 .. third * 3 - 1 :
             DotDots(j, u) = Print16x16(j, DotBlock(third, u))
  BY DotDotsAre
<1>2. s \in 0 .. third * 3 - 1 /\ DotBlock(third, s) \in 0 .. j.blocks - 1
  BY <1>1, DotPasses
<1> QED
  BY <1>1, <1>2, BlockPaints

\* dot reaches every block.
LEMMA DotCovers ==
  ASSUME NEW j \in Jobs, j.effect = "dot", NEW k \in Mapped(j)
  PROVE  \E s \in 0 .. DotFrames(j) - 1 : k \in DotDots(j, s)
<1>1. PICK third \in Nat \ {0} :
        /\ j.blocks = third * 3 /\ DotFrames(j) = third * 3
        /\ \A u \in 0 .. third * 3 - 1 :
             DotDots(j, u) = Print16x16(j, DotBlock(third, u))
  BY DotDotsAre
<1> DEFINE w == j.w
           h == j.h
           d == j.side
           c == j.columns
<1>2. PICK rows \in Nat \ {0} :
        /\ d \in Nat \ {0} /\ c \in Nat \ {0} /\ w \in Nat \ {0} /\ h \in Nat \ {0}
        /\ j.blocks = c * rows /\ w = d * c /\ h = d * rows
  BY DotShape
<1>3. k \in 0 .. w * h - 1
  BY DEF Mapped, Size
<1> DEFINE p == (k \div w) \div d
           q == (k % w) \div d
           b == p * c + q
<1> HIDE DEF w, h, d, c
<1>4. k \div w \in 0 .. d * rows - 1 /\ k % w \in 0 .. d * c - 1
  BY <1>2, <1>3, Place
<1>5. p \in 0 .. rows - 1 /\ q \in 0 .. c - 1
  BY <1>2, <1>4, Place
<1> HIDE DEF p, q
<1>6. b \in 0 .. c * rows - 1 /\ b \div c = p /\ b % c = q
  BY <1>2, <1>5, Offset
<1> HIDE DEF b
<1>7. b \in 0 .. j.blocks - 1 /\ k \in Print16x16(j, b)
  <2>1. b \in 0 .. j.blocks - 1
    BY <1>2, <1>6
  <2>2. (k \div j.w) \div j.side = b \div j.columns /\ (k % j.w) \div j.side = b % j.columns
    BY <1>6 DEF p, q, w, d, c
  <2> QED
    BY <2>1, <2>2, BlockPaints
<1>8. PICK s \in 0 .. third * 3 - 1 : DotBlock(third, s) = b
  BY <1>1, <1>7, DotPasses
<1> QED
  BY <1>1, <1>7, <1>8

\* dot prints no block twice.
LEMMA DotOnce ==
  ASSUME NEW j \in Jobs, j.effect = "dot",
         NEW s \in 0 .. DotFrames(j) - 1, NEW u \in 0 .. DotFrames(j) - 1, s # u,
         NEW k \in DotDots(j, s)
  PROVE  k \notin DotDots(j, u)
<1> SUFFICES ASSUME k \in DotDots(j, u) PROVE FALSE
  OBVIOUS
<1>1. PICK third \in Nat \ {0} :
        /\ j.blocks = third * 3 /\ DotFrames(j) = third * 3
        /\ \A v \in 0 .. third * 3 - 1 :
             DotDots(j, v) = Print16x16(j, DotBlock(third, v))
  BY DotDotsAre
<1> DEFINE c == j.columns
           a == DotBlock(third, s)
           b == DotBlock(third, u)
<1>2. s \in 0 .. third * 3 - 1 /\ u \in 0 .. third * 3 - 1
  BY <1>1
<1>3. /\ a \in 0 .. j.blocks - 1 /\ b \in 0 .. j.blocks - 1 /\ a # b
      /\ k \in Print16x16(j, a) /\ k \in Print16x16(j, b)
  BY <1>1, <1>2, DotPasses
<1> HIDE DEF a, b
<1>4. k \in Mapped(j)
  BY <1>3, BlockPaints
<1>5. a \div c = b \div c /\ a % c = b % c
  <2>1. a \div c = (k \div j.w) \div j.side /\ a % c = (k % j.w) \div j.side
    BY <1>3, <1>4, BlockPaints
  <2>2. b \div c = (k \div j.w) \div j.side /\ b % c = (k % j.w) \div j.side
    BY <1>3, <1>4, BlockPaints
  <2> QED
    BY <2>1, <2>2
<1>6. c \in Nat \ {0} /\ a \in Nat /\ b \in Nat
  BY <1>1, <1>3, DotShape
<1> HIDE DEF c
<1>7. a = c * (a \div c) + (a % c) /\ b = c * (b \div c) + (b % c)
  BY <1>6, Division
<1> QED
  BY <1>3, <1>5, <1>7

-----------------------------------------------------------------------------
(* block                                                                   *)

LEMMA BlockShape ==
  ASSUME NEW j \in Jobs, j.effect = "block"
  PROVE  /\ j.w \in Nat \ {0} /\ j.h \in Nat \ {0}
         /\ j.quarter \in Nat \ {0} /\ j.w = 4 * j.quarter
         /\ BlockFrames(j) = j.h * 4 /\ j.h * 4 \in Nat
<1>1. j.w \in Nat \ {0} /\ j.h \in Nat \ {0} /\ j.quarter \in Nat \ {0} /\ j.w = 4 * j.quarter
  BY JobsAssumption DEF WellFormed
<1>2. 4 * j.h = j.h * 4 /\ j.h * 4 \in Nat
  BY <1>1
<1> QED
  BY <1>1, <1>2 DEF BlockFrames

\* Frame s is turn n of a sweep, and all it writes is in one row, but for the
\* pixel after the row in the last sweep.
LEMMA BlockWrites ==
  ASSUME NEW j \in Jobs, j.effect = "block", NEW s \in 0 .. BlockFrames(j) - 1
  PROVE  BlockDots(j, s) \subseteq Mapped(j) \cup {Size(j)}
<1> DEFINE w == j.w
           h == j.h
           q == j.quarter
           sweep == s \div h
           n == s % h
           up == h - 1 - n
<1>1. /\ w \in Nat \ {0} /\ h \in Nat \ {0} /\ q \in Nat \ {0} /\ w = 4 * q
      /\ s \in 0 .. h * 4 - 1
  BY BlockShape
<1>2. sweep \in 0 .. 3 /\ n \in 0 .. h - 1
  <2>1. 4 \in Nat /\ 4 - 1 = 3
    OBVIOUS
  <2> HIDE DEF h
  <2>2. s \div h \in 0 .. 4 - 1 /\ s % h \in 0 .. h - 1
    BY <1>1, <2>1, Place
  <2> QED
    BY <2>1, <2>2
<1>3. BlockDots(j, s) = CASE sweep = 0 -> n * w .. n * w + q - 1
                          [] sweep = 1 -> up * w + q .. up * w + 2 * q
                          [] sweep = 2 -> n * w + 2 * q .. n * w + 3 * q - 1
                          [] OTHER     -> up * w + 3 * q .. (h - n) * w
  BY DEF BlockDots
<1>4. Mapped(j) \cup {Size(j)} = 0 .. w * h
  <2>1. w * h \in Nat /\ Mapped(j) = 0 .. w * h - 1 /\ Size(j) = w * h
    BY <1>1 DEF Mapped, Size
  <2> HIDE DEF w, h
  <2> QED
    BY <2>1
<1> HIDE DEF w, h, q, sweep, n
<1>5. /\ n * w \in Nat /\ n * w + w <= w * h
      /\ up * w \in Nat /\ up * w + w <= w * h /\ (h - n) * w = up * w + w
      /\ up \in Nat
  <2>1. ASSUME NEW r \in 0 .. h - 1 PROVE r * w \in Nat /\ r * w + w <= w * h
    <3>1. (r + 1) * w <= h * w /\ (r + 1) * w = r * w + w /\ h * w = w * h
      BY <1>1
    <3> QED
      BY <1>1, <3>1
  <2>2. up \in 0 .. h - 1 /\ h - n = up + 1
    BY <1>1, <1>2
  <2> HIDE DEF up
  <2>3. (h - n) * w = up * w + w
    BY <1>1, <2>2
  <2> QED
    BY <1>2, <2>1, <2>2, <2>3
<1> DEFINE above == n * w
           below == up * w
           size  == w * h
<1>6. BlockDots(j, s) = CASE sweep = 0 -> above .. above + q - 1
                          [] sweep = 1 -> below + q .. below + 2 * q
                          [] sweep = 2 -> above + 2 * q .. above + 3 * q - 1
                          [] OTHER     -> below + 3 * q .. below + w
  BY <1>3, <1>5
<1>7. /\ above \in Nat /\ above + w <= size
      /\ below \in Nat /\ below + w <= size /\ size \in Nat
  BY <1>1, <1>5
<1> HIDE DEF above, below, size
<1>8. /\ above .. above + q - 1 \subseteq 0 .. size
      /\ below + q .. below + 2 * q \subseteq 0 .. size
      /\ above + 2 * q .. above + 3 * q - 1 \subseteq 0 .. size
      /\ below + 3 * q .. below + w \subseteq 0 .. size
  BY <1>1, <1>7
<1>9. BlockDots(j, s) \subseteq 0 .. size
  BY <1>2, <1>6, <1>8
<1> QED
  BY <1>4, <1>9 DEF size

\* The quarter a column is in decides which sweep reaches it.
LEMMA BlockCovers ==
  ASSUME NEW j \in Jobs, j.effect = "block", NEW k \in Mapped(j)
  PROVE  \E s \in 0 .. BlockFrames(j) - 1 : k \in BlockDots(j, s)
<1> DEFINE w == j.w
           h == j.h
           q == j.quarter
           r == k \div w
           c == k % w
<1>1. /\ w \in Nat \ {0} /\ h \in Nat \ {0} /\ q \in Nat \ {0} /\ w = 4 * q
      /\ BlockFrames(j) = h * 4
  BY BlockShape
<1>2. r \in 0 .. h - 1 /\ c \in 0 .. w - 1 /\ k = r * w + c /\ r * w \in Nat
  <2>1. k \in 0 .. w * h - 1
    BY DEF Mapped, Size
  <2> HIDE DEF w, h
  <2>2. r \in 0 .. h - 1 /\ c \in 0 .. w - 1 /\ k = r * w + c
    BY <1>1, <2>1, Place
  <2> HIDE DEF r, c
  <2>3. r * w \in Nat
    BY <1>1, <2>2
  <2> QED
    BY <2>2, <2>3
<1>3. ASSUME NEW a \in 0 .. 3, NEW n \in 0 .. h - 1
      PROVE  /\ a * h + n \in 0 .. BlockFrames(j) - 1
             /\ (a * h + n) \div h = a /\ (a * h + n) % h = n
  <2> HIDE DEF w, h
  <2>1. 4 \in Nat /\ a \in 0 .. 4 - 1
    OBVIOUS
  <2>2. a * h + n \in 0 .. h * 4 - 1 /\ (a * h + n) \div h = a /\ (a * h + n) % h = n
    BY <1>1, <2>1, Offset
  <2> QED
    BY <1>1, <2>2
<1>4. h - 1 - r \in 0 .. h - 1 /\ h - 1 - (h - 1 - r) = r /\ h - (h - 1 - r) = r + 1
  <2> HIDE DEF w, h, r, c
  <2> QED
    BY <1>1, <1>2
<1>5. (r + 1) * w = r * w + w
  <2> HIDE DEF w, h, r, c
  <2> QED
    BY <1>1, <1>2
<1>6. CASE c < q
  <2> DEFINE s == 0 * h + r
  <2>1. s \in 0 .. BlockFrames(j) - 1 /\ s \div h = 0 /\ s % h = r
    BY <1>2, <1>3
  <2> HIDE DEF s
  <2>2. BlockDots(j, s) = r * w .. r * w + q - 1
    BY <2>1 DEF BlockDots
  <2>3. k \in BlockDots(j, s)
    <3> HIDE DEF w, q, r, c
    <3> QED
      BY <1>1, <1>2, <1>6, <2>2
  <2> QED
    BY <2>1, <2>3
<1>7. CASE q <= c /\ c < 2 * q
  <2> DEFINE s == 1 * h + (h - 1 - r)
  <2>1. s \in 0 .. BlockFrames(j) - 1 /\ s \div h = 1 /\ s % h = h - 1 - r
    BY <1>3, <1>4
  <2> HIDE DEF s
  <2>2. BlockDots(j, s) = r * w + q .. r * w + 2 * q
    BY <1>4, <2>1 DEF BlockDots
  <2>3. k \in BlockDots(j, s)
    <3> HIDE DEF w, q, r, c
    <3> QED
      BY <1>1, <1>2, <1>7, <2>2
  <2> QED
    BY <2>1, <2>3
<1>8. CASE 2 * q <= c /\ c < 3 * q
  <2> DEFINE s == 2 * h + r
  <2>1. s \in 0 .. BlockFrames(j) - 1 /\ s \div h = 2 /\ s % h = r
    BY <1>2, <1>3
  <2> HIDE DEF s
  <2>2. BlockDots(j, s) = r * w + 2 * q .. r * w + 3 * q - 1
    BY <2>1 DEF BlockDots
  <2>3. k \in BlockDots(j, s)
    <3> HIDE DEF w, q, r, c
    <3> QED
      BY <1>1, <1>2, <1>8, <2>2
  <2> QED
    BY <2>1, <2>3
<1>9. CASE 3 * q <= c
  <2> DEFINE s == 3 * h + (h - 1 - r)
  <2>1. s \in 0 .. BlockFrames(j) - 1 /\ s \div h = 3 /\ s % h = h - 1 - r
    BY <1>3, <1>4
  <2> HIDE DEF s
  <2>2. BlockDots(j, s) = r * w + 3 * q .. (r + 1) * w
    BY <1>4, <2>1 DEF BlockDots
  <2>3. k \in BlockDots(j, s)
    <3> HIDE DEF w, q, r, c
    <3> QED
      BY <1>1, <1>2, <1>5, <1>9, <2>2
  <2> QED
    BY <2>1, <2>3
<1> QED
  <2> HIDE DEF q, r, c
  <2> QED
    BY <1>1, <1>2, <1>6, <1>7, <1>8, <1>9

-----------------------------------------------------------------------------
(* slopline                                                                *)

LEMMA SloplineShape ==
  ASSUME NEW j \in Jobs, j.effect = "slopline"
  PROVE  /\ j.w \in Nat \ {0} /\ j.h \in Nat \ {0}
         /\ j.half \in Nat \ {0} /\ j.w = 2 * j.half /\ j.h >= j.half
BY JobsAssumption DEF WellFormed

\* The first diagonals alone reach everything: one line down lies one pixel
\* right of the other, and a row apart they are w + 1 pixels apart.
LEMMA SloplineCovers ==
  ASSUME NEW j \in Jobs, j.effect = "slopline", NEW k \in Mapped(j)
  PROVE  \E s \in 0 .. SloplineFrames(j) - 1 : k \in SloplineDots(j, s)
<1> DEFINE w == j.w
           h == j.h
           half == j.half
           a == k + half
           r == a \div (w + 1)
           s == a % (w + 1)
<1>1. w \in Nat \ {0} /\ h \in Nat \ {0} /\ half \in Nat \ {0} /\ w = 2 * half /\ h >= half
  BY SloplineShape
<1>2. k \in 0 .. w * h - 1 /\ k \in Guarded(j) /\ SloplineFrames(j) = 2 * half + 1
  <2>1. Mapped(j) = 0 .. w * h - 1 /\ Guarded(j) = 0 .. w * h /\ SloplineFrames(j) = 2 * half + 1
    BY DEF Mapped, Guarded, Size, SloplineFrames
  <2>2. w * h \in Int
    BY <1>1
  <2> HIDE DEF w, h, half
  <2> QED
    BY <2>1, <2>2
<1> HIDE DEF w, h, half
<1>3. r \in 0 .. h - 1 /\ s \in 0 .. w /\ a = r * (w + 1) + s
  <2>1. w + 1 \in Nat \ {0} /\ (w + 1) - 1 = w
    BY <1>1
  <2>2. a \in 0 .. (w + 1) * h - 1
    <3>1. (w + 1) * h = w * h + h /\ w * h \in Int
      BY <1>1
    <3> QED
      BY <1>1, <1>2, <3>1
  <2> HIDE DEF a
  <2> QED
    BY <1>1, <2>1, <2>2, Place
<1> HIDE DEF r, s
<1>4. r * w + r + (s - (half + 1)) + 1 = k
  <2>1. r * (w + 1) = r * w + r /\ r * w \in Int
    BY <1>1, <1>3
  <2> QED
    BY <1>1, <1>2, <1>3, <2>1
<1>5. k \in SloplineDots(j, s)
  <2> DEFINE down(y) == y * j.w + y + (s - (j.half + 1)) + 1
             rows == {y \in 0 .. j.h - 1 : down(y) \in Guarded(j)}
  <2>1. r \in 0 .. j.h - 1 /\ down(r) = k
    BY <1>3, <1>4 DEF w, h, half
  <2>2. r \in rows
    BY <1>2, <2>1
  <2>3. {down(y) : y \in rows} \subseteq SloplineDots(j, s)
    BY DEF SloplineDots
  <2> QED
    BY <2>1, <2>2, <2>3
<1>6. s \in 0 .. SloplineFrames(j) - 1
  BY <1>1, <1>2, <1>3
<1> QED
  BY <1>5, <1>6

-----------------------------------------------------------------------------
(* diamond                                                                 *)

LEMMA DiamondShape ==
  ASSUME NEW j \in Jobs, j.effect = "diamond"
  PROVE  /\ j.w \in Nat \ {0} /\ j.h \in Nat \ {0} /\ j.step \in Nat \ {0}
         /\ j.step * (DiamondFrames(j) - 1) >= j.w \div 2 + j.h \div 2
         /\ DiamondFrames(j) \in Nat \ {0}
<1>1. /\ j.w \in Nat \ {0} /\ j.h \in Nat \ {0} /\ j.step \in Nat \ {0}
      /\ j.step * (DiamondFrames(j) - 1) >= j.w \div 2 + j.h \div 2
  BY JobsAssumption DEF WellFormed
<1>2. DiamondFrames(j) \in Nat \ {0}
  <2> DEFINE d == j.step
             a == j.w + d - 1
  <2>1. d \in Nat \ {0} /\ a \in Nat /\ a >= d
    BY <1>1
  <2> HIDE DEF d, a
  <2>2. a \div d \in Nat /\ a % d \in 0 .. d - 1 /\ a = d * (a \div d) + (a % d)
    BY <2>1, Division
  <2>3. a \div d # 0
    BY <2>1, <2>2
  <2> QED
    BY <2>2, <2>3 DEF DiamondFrames, a, d
<1> QED
  BY <1>1, <1>2

\* No pixel is further from the middle than half the display.
LEMMA Middle ==
  ASSUME NEW n \in Nat \ {0}, NEW x \in 0 .. n - 1
  PROVE  n \div 2 \in Nat /\ Abs(x - n \div 2) \in 0 .. n \div 2
<1> DEFINE m == n \div 2
<1>1. m \in Nat /\ n % 2 \in 0 .. 1 /\ n = 2 * m + (n % 2)
  <2>1. 2 \in Nat \ {0} /\ 2 - 1 = 1
    OBVIOUS
  <2> HIDE DEF m
  <2>2. n \div 2 \in Nat /\ n % 2 \in 0 .. 2 - 1 /\ n = 2 * (n \div 2) + (n % 2)
    BY <2>1, Division
  <2> QED
    BY <2>1, <2>2 DEF m
<1> HIDE DEF m
<1>2. Abs(x - m) \in 0 .. m
  BY <1>1 DEF Abs
<1> QED
  BY <1>1, <1>2 DEF m

LEMMA DiamondGrows ==
  ASSUME NEW j \in Jobs, j.effect = "diamond", NEW s \in Nat, NEW u \in Nat, s <= u
  PROVE  DiamondDots(j, s) \subseteq DiamondDots(j, u)
<1>1. j.step * s <= j.step * u /\ j.step * s \in Int /\ j.step * u \in Int
  <2> DEFINE d == j.step
  <2>1. d \in Nat
    BY DiamondShape
  <2> HIDE DEF d
  <2>2. d * s <= d * u /\ d * s \in Int /\ d * u \in Int
    BY <2>1
  <2> QED
    BY <2>2 DEF d
<1>2. ASSUME NEW k \in Mapped(j)
      PROVE  /\ Abs((k \div j.w) - j.h \div 2) \in Int
             /\ Abs((k % j.w) - j.w \div 2) \in Int
  <2>1. k \div j.w \in 0 .. j.h - 1 /\ k % j.w \in 0 .. j.w - 1
    BY DiamondShape, Place DEF Mapped, Size
  <2> QED
    BY <2>1, DiamondShape, Middle
<1> QED
  BY <1>1, <1>2 DEF DiamondDots

LEMMA DiamondCovers ==
  ASSUME NEW j \in Jobs, j.effect = "diamond", NEW k \in Mapped(j)
  PROVE  k \in DiamondDots(j, DiamondFrames(j) - 1)
<1>1. k \div j.w \in 0 .. j.h - 1 /\ k % j.w \in 0 .. j.w - 1
  BY DiamondShape, Place DEF Mapped, Size
<1> DEFINE x == Abs((k \div j.w) - j.h \div 2)
           y == Abs((k % j.w) - j.w \div 2)
<1>2. /\ x \in 0 .. j.h \div 2 /\ y \in 0 .. j.w \div 2
      /\ j.h \div 2 \in Nat /\ j.w \div 2 \in Nat
  BY <1>1, DiamondShape, Middle
<1> DEFINE reach == j.step * (DiamondFrames(j) - 1)
<1>3. reach \in Int /\ reach >= j.w \div 2 + j.h \div 2
  <2>1. j.step \in Int /\ DiamondFrames(j) - 1 \in Int
    BY DiamondShape
  <2> QED
    BY <2>1, DiamondShape
<1>4. DiamondDots(j, DiamondFrames(j) - 1) = {i \in Mapped(j) :
         Abs((i \div j.w) - j.h \div 2) + Abs((i % j.w) - j.w \div 2) <= reach}
  BY DEF DiamondDots
<1>5. x + y <= reach
  <2> DEFINE a == j.h \div 2
             b == j.w \div 2
  <2> HIDE DEF x, y, reach, a, b
  <2>1. x \in 0 .. a /\ y \in 0 .. b /\ a \in Nat /\ b \in Nat /\ reach >= b + a /\ reach \in Int
    BY <1>2, <1>3 DEF a, b
  <2> QED
    BY <2>1
<1> QED
  BY <1>4, <1>5

-----------------------------------------------------------------------------
(* circle                                                                  *)

LEMMA CircleShape ==
  ASSUME NEW j \in Jobs, j.effect = "circle"
  PROVE  /\ j.w \in Nat \ {0} /\ j.h \in Nat \ {0} /\ j.step \in Nat \ {0}
         /\ j.x \in 0 .. j.h - 1 /\ j.y \in 0 .. j.w - 1
         /\ LET rows    == Larger(j.x, j.h - 1 - j.x)
                columns == Larger(j.y, j.w - 1 - j.y)
                last    == j.step * CircleFrames(j)
            IN  rows * rows + columns * columns <= last * last
         /\ CircleFrames(j) \in Nat \ {0}
<1>1. /\ j.w \in Nat \ {0} /\ j.h \in Nat \ {0} /\ j.step \in Nat \ {0}
      /\ j.limit \in Nat /\ j.limit > j.step
      /\ j.x \in 0 .. j.h - 1 /\ j.y \in 0 .. j.w - 1
      /\ LET rows    == Larger(j.x, j.h - 1 - j.x)
             columns == Larger(j.y, j.w - 1 - j.y)
             last    == j.step * CircleFrames(j)
         IN  rows * rows + columns * columns <= last * last
  BY JobsAssumption DEF WellFormed
<1>2. CircleFrames(j) \in Nat \ {0}
  <2> DEFINE d == j.step
             a == j.limit - 1
  <2>1. d \in Nat \ {0} /\ a \in Nat /\ a >= d
    BY <1>1
  <2> HIDE DEF d, a
  <2>2. a \div d \in Nat /\ a % d \in 0 .. d - 1 /\ a = d * (a \div d) + (a % d)
    BY <2>1, Division
  <2>3. a \div d # 0
    BY <2>1, <2>2
  <2> QED
    BY <2>2, <2>3 DEF CircleFrames, a, d
<1> QED
  BY <1>1, <1>2

LEMMA Squares ==
  ASSUME NEW x \in Int, NEW m \in Nat, -m <= x, x <= m
  PROVE  x * x \in Nat /\ x * x <= m * m
<1>1. CASE x >= 0
  <2>1. x * x <= x * m /\ x * m <= m * m /\ x * x >= 0 /\ x * x \in Int
    BY <1>1
  <2> QED
    BY <2>1
<1>2. CASE x < 0
  <2> DEFINE y == -x
  <2>1. y \in Nat /\ y <= m /\ x * x = y * y
    BY <1>2
  <2> HIDE DEF y
  <2>2. y * y <= y * m /\ y * m <= m * m /\ y * y \in Nat
    BY <2>1
  <2> QED
    BY <2>1, <2>2
<1> QED
  BY <1>1, <1>2

LEMMA Roots ==
  ASSUME NEW x \in Int, NEW m \in Nat, x * x <= m * m
  PROVE  x \in -m .. m
<1>1. ~(x > m)
  <2> SUFFICES ASSUME x >= m + 1 PROVE FALSE
    OBVIOUS
  <2>1. x * x >= (m + 1) * x /\ (m + 1) * x >= (m + 1) * (m + 1)
    OBVIOUS
  <2>2. (m + 1) * (m + 1) = m * m + 2 * m + 1
    OBVIOUS
  <2> QED
    BY <2>1, <2>2
<1>2. ~(x < -m)
  <2> DEFINE y == -x
  <2>1. y \in Int /\ x * x = y * y
    OBVIOUS
  <2> SUFFICES ASSUME y >= m + 1 PROVE FALSE
    OBVIOUS
  <2> HIDE DEF y
  <2>2. y * y >= (m + 1) * y /\ (m + 1) * y >= (m + 1) * (m + 1)
    BY <2>1
  <2>3. (m + 1) * (m + 1) = m * m + 2 * m + 1
    OBVIOUS
  <2> QED
    BY <2>1, <2>2, <2>3
<1> QED
  BY <1>1, <1>2

Disc(len) == {d \in (-len .. len) \X (-len .. len) :
                d[1] * d[1] + d[2] * d[2] <= len * len}

LEMMA CircleDotsAre ==
  ASSUME NEW j, NEW s
  PROVE  CircleDots(j, s) =
           {(j.x + d[1]) * j.w + j.y + d[2] : d \in Disc(j.step * (s + 1))} \cap Guarded(j)
BY DEF CircleDots, Disc

LEMMA DiscGrows ==
  ASSUME NEW a \in Nat, NEW b \in Nat, a <= b
  PROVE  Disc(a) \subseteq Disc(b)
<1>1. a * a <= b * b
  BY Squares
<1>2. -a .. a \subseteq -b .. b
  OBVIOUS
<1> SUFFICES ASSUME NEW d \in Disc(a) PROVE d \in Disc(b)
  OBVIOUS
<1>3. d \in (-a .. a) \X (-a .. a) /\ d[1] * d[1] + d[2] * d[2] <= a * a
  BY DEF Disc
<1>4. d \in (-b .. b) \X (-b .. b)
  BY <1>2, <1>3
<1>5. d[1] * d[1] + d[2] * d[2] <= b * b
  <2>1. d[1] \in Int /\ d[2] \in Int
    BY <1>3
  <2>2. d[1] * d[1] \in Int /\ d[2] * d[2] \in Int /\ a * a \in Int /\ b * b \in Int
    BY <2>1
  <2> QED
    BY <1>1, <1>3, <2>2
<1> QED
  BY <1>4, <1>5 DEF Disc

LEMMA CircleGrows ==
  ASSUME NEW j \in Jobs, j.effect = "circle", NEW s \in Nat, NEW u \in Nat, s <= u
  PROVE  CircleDots(j, s) \subseteq CircleDots(j, u)
<1> DEFINE d == j.step
           a == d * (s + 1)
           b == d * (u + 1)
<1>1. d \in Nat
  BY CircleShape
<1>2. a \in Nat /\ b \in Nat /\ a <= b
  <2> HIDE DEF d
  <2> QED
    BY <1>1
<1> HIDE DEF a, b
<1>3. Disc(a) \subseteq Disc(b)
  BY <1>2, DiscGrows
<1>4. Disc(j.step * (s + 1)) \subseteq Disc(j.step * (u + 1))
  BY <1>3 DEF a, b
<1> QED
  BY <1>4, CircleDotsAre

\* The last circle reaches the corners.
LEMMA CircleCovers ==
  ASSUME NEW j \in Jobs, j.effect = "circle", NEW k \in Mapped(j)
  PROVE  k \in CircleDots(j, CircleFrames(j) - 1)
<1> DEFINE w == j.w
           h == j.h
           r == k \div w
           c == k % w
           x == r - j.x
           y == c - j.y
           rows    == Larger(j.x, h - 1 - j.x)
           columns == Larger(j.y, w - 1 - j.y)
           len == j.step * CircleFrames(j)
<1>1. /\ w \in Nat \ {0} /\ h \in Nat \ {0} /\ j.x \in 0 .. h - 1 /\ j.y \in 0 .. w - 1
      /\ rows * rows + columns * columns <= len * len
      /\ CircleFrames(j) \in Nat \ {0} /\ j.step \in Nat \ {0}
  BY CircleShape
<1>2. r \in 0 .. h - 1 /\ c \in 0 .. w - 1 /\ k = r * w + c
  BY CircleShape, Place DEF Mapped, Size
<1> HIDE DEF w, h, r, c
<1>3. /\ x \in Int /\ y \in Int /\ rows \in Nat /\ columns \in Nat
      /\ -rows <= x /\ x <= rows /\ -columns <= y /\ y <= columns
  BY <1>1, <1>2 DEF Larger
<1>4. k = (j.x + x) * w + j.y + y
  <2>1. j.x + x = r /\ j.y \in Int /\ c \in Int
    BY <1>1, <1>2
  <2>2. (j.x + x) * w = r * w /\ r * w \in Int
    BY <1>1, <1>2, <2>1
  <2>3. k = r * w + j.y + (c - j.y)
    <3> DEFINE rw == r * w
    <3>1. rw \in Int /\ k = rw + c
      BY <1>2, <2>2
    <3> HIDE DEF rw
    <3>2. k = rw + j.y + (c - j.y)
      BY <2>1, <3>1
    <3> QED
      BY <3>2 DEF rw
  <2> QED
    BY <2>2, <2>3
<1>5. len \in Nat
  <2> DEFINE p == j.step
             q == CircleFrames(j)
  <2> HIDE DEF p, q
  <2>1. p \in Nat /\ q \in Nat
    BY <1>1 DEF p, q
  <2>2. p * q \in Nat
    BY <2>1
  <2> QED
    BY <2>2 DEF p, q
<1> HIDE DEF x, y, rows, columns, len
<1>6. x * x + y * y <= len * len /\ x * x <= len * len /\ y * y <= len * len
  <2>1. /\ x * x \in Nat /\ x * x <= rows * rows
        /\ y * y \in Nat /\ y * y <= columns * columns
    BY <1>3, Squares
  <2>2. rows * rows \in Nat /\ columns * columns \in Nat /\ len * len \in Nat
    BY <1>3, <1>5
  <2> QED
    BY <1>1, <2>1, <2>2
<1>7. x \in -len .. len /\ y \in -len .. len
  BY <1>3, <1>5, <1>6, Roots
<1>8. <<x, y>> \in Disc(len)
  BY <1>6, <1>7 DEF Disc
<1>9. k \in Guarded(j)
  <2> HIDE DEF w
  <2>1. k \in 0 .. w * h - 1 /\ w * h \in Int /\ Guarded(j) = 0 .. w * h
    BY <1>1 DEF Mapped, Guarded, Size, w, h
  <2> QED
    BY <2>1
<1>10. j.step * ((CircleFrames(j) - 1) + 1) = len
  <2> DEFINE q == CircleFrames(j)
  <2>1. q \in Nat /\ (q - 1) + 1 = q
    BY <1>1
  <2> QED
    BY <2>1 DEF len
<1>11. k \in {(j.x + d[1]) * j.w + j.y + d[2] : d \in Disc(len)}
  BY <1>4, <1>8 DEF w
<1> QED
  BY <1>9, <1>10, <1>11, CircleDotsAre

-----------------------------------------------------------------------------
(* squarearea                                                              *)

LEMMA SquareareaShape ==
  ASSUME NEW j \in Jobs, j.effect = "squarearea"
  PROVE  /\ j.w \in Nat \ {0} /\ j.h \in Nat \ {0}
         /\ j.xstep \in Nat \ {0} /\ j.ystep \in Nat \ {0}
         /\ j.xstep * (SquareareaFrames(j) - 1) >= j.h
         /\ j.ystep * (SquareareaFrames(j) - 1) >= j.w
         /\ SquareareaFrames(j) \in Nat \ {0}
<1>1. /\ j.w \in Nat \ {0} /\ j.h \in Nat \ {0}
      /\ j.xstep \in Nat \ {0} /\ j.xlimit \in Nat
      /\ j.ystep \in Nat \ {0} /\ j.ylimit \in Nat
      /\ j.xstep * (SquareareaFrames(j) - 1) >= j.h
      /\ j.ystep * (SquareareaFrames(j) - 1) >= j.w
  BY JobsAssumption DEF WellFormed
<1>2. j.xlimit \div j.xstep \in Nat /\ j.ylimit \div j.ystep \in Nat
  BY <1>1, Division
<1>3. SquareareaFrames(j) \in Nat \ {0}
  BY <1>2 DEF SquareareaFrames
<1> QED
  BY <1>1, <1>3

LEMMA SquareareaGrows ==
  ASSUME NEW j \in Jobs, j.effect = "squarearea", NEW s \in Nat, NEW u \in Nat, s <= u
  PROVE  SquareareaDots(j, s) \subseteq SquareareaDots(j, u)
<1>1. ASSUME NEW d \in Nat PROVE 0 .. d * s - 1 \subseteq 0 .. d * u - 1
  <2>1. d * s <= d * u /\ d * s \in Int /\ d * u \in Int
    OBVIOUS
  <2> QED
    BY <2>1
<1>2. /\ 0 .. j.xstep * s - 1 \subseteq 0 .. j.xstep * u - 1
      /\ 0 .. j.ystep * s - 1 \subseteq 0 .. j.ystep * u - 1
  BY <1>1, SquareareaShape
<1> QED
  BY <1>2 DEF SquareareaDots

LEMMA SquareareaCovers ==
  ASSUME NEW j \in Jobs, j.effect = "squarearea", NEW k \in Mapped(j)
  PROVE  k \in SquareareaDots(j, SquareareaFrames(j) - 1)
<1> DEFINE r == k \div j.w
           c == k % j.w
           x == j.xstep * (SquareareaFrames(j) - 1)
           y == j.ystep * (SquareareaFrames(j) - 1)
<1>1. r \in 0 .. j.h - 1 /\ c \in 0 .. j.w - 1 /\ k = r * j.w + c
  BY SquareareaShape, Place DEF Mapped, Size
<1>2. x \in Int /\ y \in Int /\ x >= j.h /\ y >= j.w /\ j.h \in Int /\ j.w \in Int
  <2> DEFINE a == j.xstep
             b == j.ystep
             f == SquareareaFrames(j) - 1
  <2>1. a \in Int /\ b \in Int /\ f \in Int
    BY SquareareaShape
  <2>2. a * f \in Int /\ b * f \in Int
    <3> HIDE DEF a, b, f
    <3> QED
      BY <2>1
  <2> QED
    BY <2>2, SquareareaShape
<1> HIDE DEF r, c, x, y
<1>3. r \in 0 .. x - 1 /\ c \in 0 .. y - 1
  BY <1>1, <1>2
<1>4. k \in Guarded(j)
  <2> DEFINE n == Size(j)
  <2>1. k \in 0 .. n - 1 /\ Guarded(j) = 0 .. n
    BY DEF Mapped, Guarded
  <2>2. n \in Int
    BY SquareareaShape DEF Size
  <2> HIDE DEF n
  <2> QED
    BY <2>1, <2>2
<1>5. SquareareaDots(j, SquareareaFrames(j) - 1) =
        {p * j.w + q : p \in 0 .. x - 1, q \in 0 .. y - 1} \cap Guarded(j)
  BY DEF SquareareaDots, x, y
<1> QED
  BY <1>1, <1>3, <1>4, <1>5

-----------------------------------------------------------------------------
(* chessboard                                                              *)

\* n cells cut w pixels up.  A cell starts at (a * w) \div n, and a pixel is at
\* most w \div n after the start of some cell.
InCell(w, n, c) == \E a \in 0 .. n - 1, i \in 0 .. w \div n : (a * w) \div n + i = c

LEMMA Cells ==
  ASSUME NEW w \in Nat \ {0}, NEW n \in Nat \ {0}, NEW c \in 0 .. w - 1
  PROVE  InCell(w, n, c)
<1> DEFINE e == (c + 1) * n - 1
           a == e \div w
<1>1. e \in Nat /\ e < w * n /\ e = c * n + n - 1
  <2>1. (c + 1) * n = c * n + n /\ c * n \in Nat /\ (c + 1) * n <= w * n /\ w * n \in Nat
    OBVIOUS
  <2> QED
    BY <2>1
<1>2. a \in 0 .. n - 1 /\ a * w <= e /\ e < a * w + w /\ a * w \in Nat
  <2>1. e \in 0 .. w * n - 1
    <3> HIDE DEF e
    <3>1. w * n \in Int
      OBVIOUS
    <3> QED
      BY <1>1, <3>1
  <2> HIDE DEF e
  <2>2. e \div w \in 0 .. n - 1 /\ e % w \in 0 .. w - 1 /\ e = (e \div w) * w + (e % w)
    BY <2>1, Place
  <2> DEFINE b == e % w
  <2> HIDE DEF a, b
  <2>3. a \in 0 .. n - 1 /\ b \in 0 .. w - 1 /\ e = a * w + b
    BY <2>2 DEF a, b
  <2>4. a * w \in Nat
    BY <2>3
  <2> QED
    BY <2>3, <2>4
<1> HIDE DEF e, a
<1> DEFINE p == a * w
           start == p \div n
           cell == w \div n
<1>3. /\ start \in Nat /\ p % n \in 0 .. n - 1 /\ p = n * start + (p % n)
      /\ cell \in Nat /\ w % n \in 0 .. n - 1 /\ w = n * cell + (w % n)
  <2> HIDE DEF p
  <2>1. p \in Nat
    BY <1>2 DEF p
  <2> QED
    BY <2>1, Division
<1> DEFINE x == p % n
           y == w % n
<1> HIDE DEF start, cell, p, x, y
<1>4. /\ start \in Nat /\ x \in 0 .. n - 1 /\ p = n * start + x
      /\ cell \in Nat /\ y \in 0 .. n - 1 /\ w = n * cell + y
      /\ p <= e /\ e < p + w /\ p \in Nat
  BY <1>2, <1>3 DEF p, x, y
<1>5. start <= c
  <2> SUFFICES ASSUME start >= c + 1 PROVE FALSE
    BY <1>4
  <2>1. n * start >= n * (c + 1) /\ n * (c + 1) = c * n + n
    BY <1>4
  <2>2. n * start \in Int /\ c * n \in Int
    BY <1>4
  <2> QED
    BY <1>1, <1>4, <2>1, <2>2
<1>6. c <= start + cell
  <2> SUFFICES ASSUME c >= start + cell + 1 PROVE FALSE
    BY <1>4
  <2>1. /\ n * c >= n * (start + cell + 1) /\ n * c = c * n
        /\ n * (start + cell + 1) = n * start + n * cell + n
    BY <1>4
  <2>2. n * start \in Int /\ n * cell \in Int /\ c * n \in Int
    BY <1>4
  <2> QED
    BY <1>1, <1>4, <2>1, <2>2
<1>7. c - start \in 0 .. cell /\ start + (c - start) = c
  BY <1>4, <1>5, <1>6
<1>8. c - start \in 0 .. w \div n /\ (a * w) \div n + (c - start) = c
  BY <1>7 DEF start, cell, p
<1> QED
  BY <1>2, <1>8 DEF InCell

\* Unless n divides w, a cell and one pixel more stay inside.
LEMMA CellsInside ==
  ASSUME NEW w \in Nat \ {0}, NEW n \in Nat \ {0}, w % n # 0,
         NEW a \in 0 .. n - 1, NEW i \in 0 .. w \div n
  PROVE  (a * w) \div n + i \in 0 .. w - 1
<1> DEFINE p == a * w
           start == p \div n
           cell == w \div n
           x == p % n
           y == w % n
<1>1. p \in Nat /\ p <= w * n - w /\ w * n \in Nat
  <2>1. a * w <= (n - 1) * w /\ (n - 1) * w = w * n - w /\ a * w \in Nat /\ w * n \in Nat
    OBVIOUS
  <2> QED
    BY <2>1
<1>2. /\ start \in Nat /\ x \in 0 .. n - 1 /\ p = n * start + x
      /\ cell \in Nat /\ y \in 0 .. n - 1 /\ w = n * cell + y
  <2> HIDE DEF p
  <2> QED
    BY <1>1, Division
<1>3. y # 0 /\ i \in 0 .. cell
  OBVIOUS
<1> HIDE DEF p, start, cell, x, y
<1>4. start + cell < w
  <2> SUFFICES ASSUME start + cell >= w PROVE FALSE
    BY <1>2
  <2>1. n * (start + cell) >= n * w /\ n * (start + cell) = n * start + n * cell /\ n * w = w * n
    BY <1>2
  <2>2. n * start \in Int /\ n * cell \in Int
    BY <1>2
  <2> QED
    BY <1>1, <1>2, <1>3, <2>1, <2>2
<1>5. start + i \in 0 .. w - 1
  BY <1>2, <1>3, <1>4
<1> QED
  BY <1>5 DEF start, p

LEMMA ChessboardShape ==
  ASSUME NEW j \in Jobs, j.effect = "chessboard"
  PROVE  \E n \in Nat \ {0} :
           /\ n = 2 * j.squares /\ j.w \in Nat \ {0} /\ j.h \in Nat \ {0}
           /\ j.w % n # 0 /\ j.h % n # 0
           /\ Cell(j) = j.w \div n /\ Cell(j) \in Nat
           /\ ChessboardFrames(j) = 2 * Cell(j) + 2
<1> DEFINE n == 2 * j.squares
<1>1. /\ j.squares \in Nat \ {0} /\ j.w \in Nat \ {0} /\ j.h \in Nat \ {0}
      /\ j.w % n # 0 /\ j.h % n # 0
  BY JobsAssumption DEF WellFormed
<1>2. n \in Nat \ {0}
  BY <1>1
<1> HIDE DEF n
<1>3. j.w \div n \in Nat
  BY <1>1, <1>2, Division
<1>4. Cell(j) = j.w \div n
  BY DEF Cell, n
<1>5. 2 * (Cell(j) + 1) = 2 * Cell(j) + 2
  BY <1>3, <1>4
<1>6. ChessboardFrames(j) = 2 * Cell(j) + 2
  BY <1>5 DEF ChessboardFrames
<1>7. n = 2 * j.squares
  BY DEF n
<1> QED
  BY <1>1, <1>2, <1>3, <1>4, <1>6, <1>7

LEMMA ColumnInside ==
  ASSUME NEW j \in Jobs, j.effect = "chessboard", NEW parity, NEW i \in 0 .. Cell(j)
  PROVE  Column(j, parity, i) \subseteq Mapped(j)
<1> DEFINE w == j.w
           h == j.h
<1>1. PICK n \in Nat \ {0} :
        /\ n = 2 * j.squares /\ w \in Nat \ {0} /\ h \in Nat \ {0}
        /\ w % n # 0 /\ h % n # 0 /\ Cell(j) = w \div n
  BY ChessboardShape
<1> DEFINE squares == {x \in (0 .. n - 1) \X (0 .. n - 1) : (x[1] + x[2]) % 2 = parity}
           m(a) == (a * w) \div n + i
           top(b) == (b * h) \div n
<1>2. Column(j, parity, i) =
        {m(x[1]) + (top(x[2]) + r) * w : x \in squares, r \in 0 .. h \div n}
  BY <1>1 DEF Column
<1>3. Mapped(j) = 0 .. w * h - 1
  BY DEF Mapped, Size
<1> SUFFICES ASSUME NEW x \in squares, NEW r \in 0 .. h \div n
             PROVE  m(x[1]) + (top(x[2]) + r) * w \in 0 .. w * h - 1
  BY <1>2, <1>3
<1>4. x[1] \in 0 .. n - 1 /\ x[2] \in 0 .. n - 1
  OBVIOUS
<1> DEFINE c == m(x[1])
           y == top(x[2]) + r
<1>5. c \in 0 .. w - 1
  <2>1. i \in 0 .. w \div n
    BY <1>1
  <2> HIDE DEF w
  <2> QED
    BY <1>1, <1>4, <2>1, CellsInside
<1>6. y \in 0 .. h - 1
  <2> HIDE DEF h
  <2> QED
    BY <1>1, <1>4, CellsInside
<1> HIDE DEF c, y, w, h
<1>7. y * w + c \in 0 .. w * h - 1
  BY <1>1, <1>5, <1>6, Offset
<1>8. y * w + c = c + y * w
  <2>1. y * w \in Int /\ c \in Int
    BY <1>1, <1>5, <1>6
  <2> QED
    BY <2>1
<1> QED
  BY <1>7, <1>8 DEF c, y

LEMMA ChessboardPaints ==
  ASSUME NEW j \in Jobs, j.effect = "chessboard", NEW s \in 0 .. ChessboardFrames(j) - 1
  PROVE  ChessboardDots(j, s) \subseteq Mapped(j)
<1>1. Cell(j) \in Nat /\ ChessboardFrames(j) = 2 * Cell(j) + 2
  BY ChessboardShape
<1>2. CASE s <= Cell(j)
  <2>1. s \in 0 .. Cell(j) /\ ChessboardDots(j, s) = Column(j, 1, s)
    BY <1>1, <1>2 DEF ChessboardDots
  <2> QED
    BY <2>1, ColumnInside
<1>3. CASE ~(s <= Cell(j))
  <2> DEFINE i == 2 * Cell(j) + 1 - s
  <2>1. i \in 0 .. Cell(j)
    BY <1>1, <1>3
  <2>2. ChessboardDots(j, s) = Column(j, 0, i)
    BY <1>3 DEF ChessboardDots
  <2> QED
    BY <2>1, <2>2, ColumnInside
<1> QED
  BY <1>2, <1>3

\* The squares of both colours leave nothing out.
LEMMA ChessboardCovers ==
  ASSUME NEW j \in Jobs, j.effect = "chessboard", NEW k \in Mapped(j)
  PROVE  \E s \in 0 .. ChessboardFrames(j) - 1 : k \in ChessboardDots(j, s)
<1> DEFINE w == j.w
           h == j.h
<1>1. PICK n \in Nat \ {0} :
        /\ n = 2 * j.squares /\ w \in Nat \ {0} /\ h \in Nat \ {0}
        /\ Cell(j) = w \div n /\ Cell(j) \in Nat /\ ChessboardFrames(j) = 2 * Cell(j) + 2
  BY ChessboardShape
<1> DEFINE y == k \div w
           c == k % w
<1>2. y \in 0 .. h - 1 /\ c \in 0 .. w - 1 /\ k = y * w + c
  BY ChessboardShape, Place DEF Mapped, Size
<1> HIDE DEF y, c, w, h
<1>3. PICK a \in 0 .. n - 1, i \in 0 .. w \div n : (a * w) \div n + i = c
  <2>1. InCell(w, n, c)
    BY <1>1, <1>2, Cells
  <2> QED
    BY <2>1 DEF InCell
<1>4. PICK b \in 0 .. n - 1, r \in 0 .. h \div n : (b * h) \div n + r = y
  <2>1. InCell(h, n, y)
    BY <1>1, <1>2, Cells
  <2> QED
    BY <2>1 DEF InCell
<1> DEFINE parity == (a + b) % 2
<1>5. parity \in {0, 1}
  BY <1>3, <1>4
<1>6. k = (a * w) \div n + i + ((b * h) \div n + r) * w
  <2>1. k = c + y * w
    <3>1. y * w \in Int /\ c \in Int
      BY <1>1, <1>2
    <3> QED
      BY <1>2, <3>1
  <2> QED
    BY <1>3, <1>4, <2>1
<1>7. k \in Column(j, parity, i)
  <2> DEFINE squares == {x \in (0 .. n - 1) \X (0 .. n - 1) : (x[1] + x[2]) % 2 = parity}
  <2>1. <<a, b>> \in squares
    BY <1>3, <1>4
  <2>2. Column(j, parity, i) =
          {(x[1] * j.w) \div n + i + ((x[2] * j.h) \div n + z) * j.w :
             x \in squares, z \in 0 .. j.h \div n}
    BY <1>1 DEF Column
  <2>3. /\ k = (<<a, b>>[1] * j.w) \div n + i + ((<<a, b>>[2] * j.h) \div n + r) * j.w
        /\ r \in 0 .. j.h \div n
    BY <1>4, <1>6 DEF w, h
  <2> HIDE DEF squares, parity
  <2> QED
    BY <2>1, <2>2, <2>3
<1> HIDE DEF parity
<1>8. i \in 0 .. Cell(j)
  BY <1>1, <1>3
<1>9. CASE parity = 1
  <2>1. i \in 0 .. ChessboardFrames(j) - 1 /\ ChessboardDots(j, i) = Column(j, 1, i)
    BY <1>1, <1>8 DEF ChessboardDots
  <2> QED
    BY <1>7, <1>9, <2>1
<1>10. CASE parity = 0
  <2> DEFINE s == 2 * Cell(j) + 1 - i
  <2>1. s \in 0 .. ChessboardFrames(j) - 1 /\ ~(s <= Cell(j)) /\ 2 * Cell(j) + 1 - s = i
    BY <1>1, <1>8
  <2> HIDE DEF s
  <2>2. ChessboardDots(j, s) = Column(j, 0, i)
    BY <2>1 DEF ChessboardDots
  <2> QED
    BY <1>7, <1>10, <2>1, <2>2
<1> QED
  BY <1>5, <1>9, <1>10

-----------------------------------------------------------------------------
(* The effects together                                                    *)

Spilling == {"block", "slopline", "circle", "squarearea"}
Growing  == {"circle", "squarearea", "diamond"}

Dots(j, s) == CASE j.effect = "shut"       -> ShutDots(j, s)
                [] j.effect = "dot"        -> DotDots(j, s)
                [] j.effect = "block"      -> BlockDots(j, s)
                [] j.effect = "slopline"   -> SloplineDots(j, s)
                [] j.effect = "circle"     -> CircleDots(j, s)
                [] j.effect = "squarearea" -> SquareareaDots(j, s)
                [] j.effect = "chessboard" -> ChessboardDots(j, s)
                [] j.effect = "diamond"    -> DiamondDots(j, s)

LEMMA FramesAre ==
  ASSUME NEW j \in Jobs
  PROVE  Frames(j) \in Nat \ {0}
<1>1. CASE j.effect = "shut"
  <2>1. Frames(j) = ShutFrames(j)
    BY <1>1 DEF Frames
  <2>2. j.strip * Strips(j) \in Nat /\ ShutFrames(j) = j.strip * Strips(j) + 1
    BY <1>1, ShutShape
  <2> DEFINE n == j.strip * Strips(j)
  <2> HIDE DEF n
  <2>3. n \in Nat /\ Frames(j) = n + 1
    BY <2>1, <2>2 DEF n
  <2> QED
    BY <2>3
<1>2. CASE j.effect = "dot"
  BY <1>2, DotShape DEF Frames, DotFrames
<1>3. CASE j.effect = "block"
  <2>1. Frames(j) = j.h * 4 /\ j.h \in Nat \ {0}
    BY <1>3, BlockShape DEF Frames
  <2> DEFINE h == j.h
  <2> HIDE DEF h
  <2>2. h \in Nat \ {0} /\ Frames(j) = h * 4
    BY <2>1 DEF h
  <2> QED
    BY <2>2
<1>4. CASE j.effect = "slopline"
  BY <1>4, SloplineShape DEF Frames, SloplineFrames
<1>5. CASE j.effect = "circle"
  BY <1>5, CircleShape DEF Frames
<1>6. CASE j.effect = "squarearea"
  BY <1>6, SquareareaShape DEF Frames
<1>7. CASE j.effect = "chessboard"
  <2>1. Frames(j) = ChessboardFrames(j)
    BY <1>7 DEF Frames
  <2>2. Cell(j) \in Nat /\ ChessboardFrames(j) = 2 * Cell(j) + 2
    BY <1>7, ChessboardShape
  <2> QED
    BY <2>1, <2>2
<1>8. CASE j.effect = "diamond"
  BY <1>8, DiamondShape DEF Frames
<1>9. CASE j.effect = "move"
  BY <1>9, MoveShape, JobShape
<1> QED
  BY <1>1, <1>2, <1>3, <1>4, <1>5, <1>6, <1>7, <1>8, <1>9, JobShape DEF Effects

LEMMA SizeIs ==
  ASSUME NEW j \in Jobs
  PROVE  /\ Size(j) \in Nat /\ Mapped(j) = 0 .. Size(j) - 1
         /\ Guarded(j) = Mapped(j) \cup {Size(j)} /\ Size(j) \notin Mapped(j)
<1> DEFINE w == j.w
           h == j.h
           n == w * h
<1>1. w \in Nat /\ h \in Nat
  BY JobShape
<1> HIDE DEF w, h
<1>2. n \in Nat
  BY <1>1
<1>3. Size(j) = n /\ Mapped(j) = 0 .. n - 1 /\ Guarded(j) = 0 .. n
  BY DEF Size, Mapped, Guarded, w, h
<1> HIDE DEF n
<1> QED
  BY <1>2, <1>3

\* Where an effect may write.
LEMMA DotsInside ==
  ASSUME NEW j \in Jobs, j.effect # "move", NEW s \in 0 .. Frames(j) - 1
  PROVE  /\ Dots(j, s) \subseteq Mapped(j) \cup {Size(j)}
         /\ j.effect \notin Spilling => Dots(j, s) \subseteq Mapped(j)
<1>1. CASE j.effect = "shut"
  BY <1>1, ShutPaints DEF Dots, Frames
<1>2. CASE j.effect = "dot"
  BY <1>2, DotPaints DEF Dots, Frames
<1>3. CASE j.effect = "block"
  BY <1>3, BlockWrites DEF Dots, Frames, Spilling
<1>4. CASE j.effect = "slopline"
  <2>1. SloplineDots(j, s) \subseteq Guarded(j)
    BY DEF SloplineDots
  <2> QED
    BY <1>4, <2>1, SizeIs DEF Dots, Spilling
<1>5. CASE j.effect = "circle"
  <2>1. CircleDots(j, s) \subseteq Guarded(j)
    BY CircleDotsAre
  <2> QED
    BY <1>5, <2>1, SizeIs DEF Dots, Spilling
<1>6. CASE j.effect = "squarearea"
  <2>1. SquareareaDots(j, s) \subseteq Guarded(j)
    BY DEF SquareareaDots
  <2> QED
    BY <1>6, <2>1, SizeIs DEF Dots, Spilling
<1>7. CASE j.effect = "chessboard"
  BY <1>7, ChessboardPaints DEF Dots, Frames
<1>8. CASE j.effect = "diamond"
  <2>1. DiamondDots(j, s) \subseteq Mapped(j)
    BY DEF DiamondDots
  <2> QED
    BY <1>8, <2>1 DEF Dots
<1> QED
  BY <1>1, <1>2, <1>3, <1>4, <1>5, <1>6, <1>7, <1>8, JobShape DEF Effects

\* Every effect but move reaches every pixel.
LEMMA DotsCover ==
  ASSUME NEW j \in Jobs, j.effect # "move", NEW k \in Mapped(j)
  PROVE  \E s \in 0 .. Frames(j) - 1 : k \in Dots(j, s)
<1> DEFINE last == Frames(j) - 1
<1>0. last \in 0 .. Frames(j) - 1
  BY FramesAre
<1>1. CASE j.effect = "shut"
  BY <1>1, ShutCovers DEF Dots, Frames
<1>2. CASE j.effect = "dot"
  BY <1>2, DotCovers DEF Dots, Frames
<1>3. CASE j.effect = "block"
  BY <1>3, BlockCovers DEF Dots, Frames
<1>4. CASE j.effect = "slopline"
  BY <1>4, SloplineCovers DEF Dots, Frames
<1>5. CASE j.effect = "circle"
  <2>1. k \in Dots(j, last)
    BY <1>5, CircleCovers DEF Dots, Frames
  <2> QED
    BY <1>0, <2>1
<1>6. CASE j.effect = "squarearea"
  <2>1. k \in Dots(j, last)
    BY <1>6, SquareareaCovers DEF Dots, Frames
  <2> QED
    BY <1>0, <2>1
<1>7. CASE j.effect = "chessboard"
  BY <1>7, ChessboardCovers DEF Dots, Frames
<1>8. CASE j.effect = "diamond"
  <2>1. k \in Dots(j, last)
    BY <1>8, DiamondCovers DEF Dots, Frames
  <2> QED
    BY <1>0, <2>1
<1> QED
  BY <1>1, <1>2, <1>3, <1>4, <1>5, <1>6, <1>7, <1>8, JobShape DEF Effects

LEMMA DotsGrow ==
  ASSUME NEW j \in Jobs, j.effect \in Growing, NEW s \in Nat, NEW u \in Nat, s <= u
  PROVE  Dots(j, s) \subseteq Dots(j, u)
<1>1. CASE j.effect = "circle"
  BY <1>1, CircleGrows DEF Dots
<1>2. CASE j.effect = "squarearea"
  BY <1>2, SquareareaGrows DEF Dots
<1>3. CASE j.effect = "diamond"
  BY <1>3, DiamondGrows DEF Dots
<1> QED
  BY <1>1, <1>2, <1>3 DEF Growing

-----------------------------------------------------------------------------
(* The screen after any number of frames                                   *)

Painted(j, n) == UNION {Dots(j, s) : s \in 0 .. n - 1}

\* What the frames so far have painted shows the picture, and nothing else does.
PaintInv ==
  job.effect # "move" =>
    /\ t \in 0 .. Frames(job)
    /\ fb = [k \in Mapped(job) \cup Painted(job, t) |->
               IF k \in Painted(job, t) THEN k ELSE Old]

LEMMA PaintTurn ==
  ASSUME Next, job.effect # "move", ~Done
  PROVE  /\ t < Frames(job) /\ t' = t + 1 /\ job' = job
         /\ fb' = [k \in DOMAIN fb \cup Dots(job, t) |->
                     IF k \in Dots(job, t) THEN k ELSE fb[k]]
<1>1. CASE Shut
  BY <1>1 DEF Shut, Paint, Dots
<1>2. CASE Dot
  BY <1>2 DEF Dot, Paint, Dots
<1>3. CASE Block
  BY <1>3 DEF Block, Paint, Dots
<1>4. CASE Slopline
  BY <1>4 DEF Slopline, Paint, Dots
<1>5. CASE Circle
  BY <1>5 DEF Circle, Paint, Dots
<1>6. CASE Squarearea
  BY <1>6 DEF Squarearea, Paint, Dots
<1>7. CASE Chessboard
  BY <1>7 DEF Chessboard, Paint, Dots
<1>8. CASE Diamond
  BY <1>8 DEF Diamond, Paint, Dots
<1> QED
  BY <1>1, <1>2, <1>3, <1>4, <1>5, <1>6, <1>7, <1>8 DEF Next, Move

LEMMA PaintedStep ==
  ASSUME NEW j, NEW n \in Nat
  PROVE  Painted(j, n + 1) = Painted(j, n) \cup Dots(j, n)
<1>1. 0 .. (n + 1) - 1 = 0 .. n - 1 \cup {n}
  OBVIOUS
<1> QED
  BY <1>1, Zenon DEF Painted

IInv == JobInv /\ MoveInv /\ PaintInv

LEMMA Inductive == (Init => IInv) /\ (IInv /\ [Next]_vars => IInv')
<1>1. ASSUME Init PROVE IInv
  <2>1. job \in Jobs /\ t = 0 /\ fb = [k \in Mapped(job) |-> Old]
    BY <1>1 DEF Init
  <2>2. JobInv /\ MoveInv
    BY <2>1, JobShape, MoveShape DEF JobInv, MoveInv, MoveSlides
  <2>3. Painted(job, t) = {}
    <3>1. 0 .. t - 1 = {}
      BY <2>1
    <3> QED
      BY <3>1 DEF Painted
  <2>4. t \in 0 .. Frames(job)
    BY <2>1, FramesAre
  <2> QED
    BY <2>1, <2>2, <2>3, <2>4 DEF IInv, PaintInv
<1>2. ASSUME IInv, [Next]_vars PROVE IInv'
  <2>0. JobInv' /\ job' = job
    BY <1>2, JobStep DEF IInv
  <2>1. CASE Done \/ UNCHANGED vars
    <3>1. job' = job /\ t' = t /\ fb' = fb
      BY <2>1 DEF Done, vars
    <3> QED
      BY <1>2, <3>1 DEF IInv, JobInv, MoveInv, PaintInv, MoveSlides
  <2>2. CASE job.effect = "move" /\ ~Done /\ ~UNCHANGED vars
    <3>1. Move
      BY <1>2, <2>2 DEF Next, Shut, Dot, Block, Slopline, Circle, Squarearea,
                        Chessboard, Diamond, Paint
    <3>2. MoveInv'
      BY <1>2, <3>1, MoveTurn DEF IInv
    <3> QED
      BY <2>0, <2>2, <3>2 DEF IInv, PaintInv
  <2>3. CASE job.effect # "move" /\ ~Done /\ ~UNCHANGED vars
    <3>1. /\ t < Frames(job) /\ t' = t + 1
          /\ fb' = [k \in DOMAIN fb \cup Dots(job, t) |->
                      IF k \in Dots(job, t) THEN k ELSE fb[k]]
      BY <1>2, <2>3, PaintTurn
    <3>2. /\ t \in 0 .. Frames(job) /\ Frames(job) \in Nat
          /\ fb = [k \in Mapped(job) \cup Painted(job, t) |->
                     IF k \in Painted(job, t) THEN k ELSE Old]
      BY <1>2, <2>3, FramesAre DEF IInv, PaintInv, JobInv
    <3>3. t' \in 0 .. Frames(job) /\ t \in Nat
      BY <3>1, <3>2
    <3>4. Painted(job, t') = Painted(job, t) \cup Dots(job, t)
      BY <3>1, <3>3, PaintedStep
    <3>5. fb' = [k \in Mapped(job) \cup Painted(job, t') |->
                   IF k \in Painted(job, t') THEN k ELSE Old]
      BY <3>1, <3>2, <3>4
    <3>6. PaintInv'
      BY <2>0, <2>3, <3>3, <3>5 DEF PaintInv
    <3>7. MoveInv'
      BY <2>0, <2>3 DEF MoveInv
    <3> QED
      BY <2>0, <3>6, <3>7 DEF IInv
  <2> QED
    BY <2>1, <2>2, <2>3
<1> QED
  BY <1>1, <1>2

\* What IInv says of a screen that is not sliding.
LEMMA Shows ==
  ASSUME IInv, job.effect # "move"
  PROVE  /\ t \in 0 .. Frames(job) /\ job \in Jobs
         /\ DOMAIN fb = Mapped(job) \cup Painted(job, t)
         /\ \A k \in DOMAIN fb : fb[k] = IF k \in Painted(job, t) THEN k ELSE Old
         /\ Painted(job, t) \subseteq Mapped(job) \cup {Size(job)}
         /\ job.effect \notin Spilling => Painted(job, t) \subseteq Mapped(job)
<1>1. /\ t \in 0 .. Frames(job) /\ job \in Jobs
      /\ fb = [k \in Mapped(job) \cup Painted(job, t) |->
                 IF k \in Painted(job, t) THEN k ELSE Old]
  BY DEF IInv, PaintInv, JobInv
<1>2. 0 .. t - 1 \subseteq 0 .. Frames(job) - 1
  BY <1>1, FramesAre
<1>3. \A s \in 0 .. t - 1 :
        /\ Dots(job, s) \subseteq Mapped(job) \cup {Size(job)}
        /\ job.effect \notin Spilling => Dots(job, s) \subseteq Mapped(job)
  BY <1>1, <1>2, DotsInside
<1>4. /\ Painted(job, t) \subseteq Mapped(job) \cup {Size(job)}
      /\ job.effect \notin Spilling => Painted(job, t) \subseteq Mapped(job)
  BY <1>3, Zenon DEF Painted
<1> QED
  BY <1>1, <1>4

\* A sliding screen shows the picture's own pixels.
LEMMA MovedInside ==
  ASSUME IInv, job.effect = "move", NEW k \in Mapped(job)
  PROVE  fb[k] \in Mapped(job) \cup {Old}
<1> DEFINE w == job.w
           h == job.h
           a == t * w
           n == w * h
<1>1. w \in Nat \ {0} /\ h \in Nat /\ t \in 0 .. h - 1
  BY JobShape, MoveShape DEF IInv, JobInv, MoveInv
<1>2. Mapped(job) = 0 .. n - 1
  BY DEF Mapped, Size
<1>3. CASE t = 0
  BY <1>3 DEF IInv, MoveInv
<1>4. CASE t > 0
  <2>1. fb[k] = IF k < w THEN (h - t) * w + k
                ELSE IF k < (t + 1) * w THEN (h - t) * w + k - w
                ELSE Old
    BY <1>4 DEF IInv, MoveInv, MoveSlides
  <2>2. k \in 0 .. n - 1
    BY <1>2
  <2> HIDE DEF w, h
  <2>3. /\ (h - t) * w = n - a /\ (t + 1) * w = a + w
        /\ a >= w /\ a \in Nat /\ n \in Nat /\ n - a \in Nat
    BY <1>1, <1>4
  <2> HIDE DEF a, n
  <2>4. CASE k < w
    <3>1. fb[k] = n - a + k
      BY <2>1, <2>3, <2>4
    <3>2. fb[k] \in 0 .. n - 1
      BY <1>1, <2>2, <2>3, <2>4, <3>1
    <3> QED
      BY <1>2, <3>2
  <2>5. CASE ~(k < w) /\ k < (t + 1) * w
    <3>1. fb[k] = n - a + k - w /\ k < a + w
      BY <2>1, <2>3, <2>5
    <3>2. fb[k] \in 0 .. n - 1
      BY <1>1, <2>2, <2>3, <2>5, <3>1
    <3> QED
      BY <1>2, <3>2
  <2>6. CASE ~(k < w) /\ ~(k < (t + 1) * w)
    BY <2>1, <2>6
  <2> QED
    BY <2>4, <2>5, <2>6
<1> QED
  BY <1>1, <1>3, <1>4

LEMMA Typed == IInv => TypeOK
<1> SUFFICES ASSUME IInv PROVE TypeOK
  OBVIOUS
<1>1. job \in Jobs /\ Guarded(job) = Mapped(job) \cup {Size(job)}
  BY SizeIs DEF IInv, JobInv
<1>2. CASE job.effect # "move"
  BY <1>1, <1>2, Shows DEF TypeOK
<1>3. CASE job.effect = "move"
  <2>1. t \in 0 .. Frames(job) /\ DOMAIN fb = Mapped(job)
    BY <1>3 DEF IInv, MoveInv
  <2>2. \A k \in DOMAIN fb : fb[k] \in Mapped(job) \cup {Old}
    BY <1>3, <2>1, MovedInside
  <2> QED
    BY <1>1, <2>1, <2>2 DEF TypeOK
<1> QED
  BY <1>2, <1>3

LEMMA Completed == IInv => CompletePicture
<1> SUFFICES ASSUME IInv, t = Frames(job), NEW k \in Mapped(job)
             PROVE  fb[k] = IF job.effect = "move" /\ k < job.w THEN k + job.w ELSE k
  BY DEF CompletePicture
<1>1. job \in Jobs
  BY DEF IInv, JobInv
<1>2. CASE job.effect # "move"
  <2>1. PICK s \in 0 .. Frames(job) - 1 : k \in Dots(job, s)
    BY <1>1, <1>2, DotsCover
  <2>2. k \in Painted(job, t)
    BY <2>1 DEF Painted
  <2> QED
    BY <1>2, <2>2, Shows
<1>3. CASE job.effect = "move"
  <2> DEFINE w == job.w
             h == job.h
  <2>1. w \in Nat \ {0} /\ h \in Nat /\ t = h - 1 /\ t > 0
    BY <1>1, <1>3, JobShape, MoveShape
  <2>2. fb[k] = IF k < w THEN (h - t) * w + k
                ELSE IF k < (t + 1) * w THEN (h - t) * w + k - w
                ELSE Old
    BY <1>3, <2>1 DEF IInv, MoveInv, MoveSlides
  <2>3. k \in 0 .. w * h - 1
    BY DEF Mapped, Size
  <2> HIDE DEF w, h
  <2>4. (h - t) * w = w /\ (t + 1) * w = w * h /\ w * h \in Int
    BY <2>1
  <2>5. k < (t + 1) * w
    BY <2>3, <2>4
  <2>6. fb[k] = IF k < w THEN k + w ELSE k
    BY <2>1, <2>2, <2>3, <2>4, <2>5
  <2> QED
    BY <1>3, <2>6 DEF w
<1> QED
  BY <1>2, <1>3

-----------------------------------------------------------------------------
(* Theorems                                                                *)

\* Whatever the effect, memory holds offsets of the mapping, or the one pixel
\* after it, or the old picture (disp-jpeg.c:18-381).
THEOREM TypeCorrect == Spec => []TypeOK
BY Typed, Inductive, PTL DEF Spec

\* Every effect ends with the whole picture on the screen, each pixel in its
\* place; move alone shows the second row twice (disp-jpeg.c:18-381).
THEOREM PictureCompleted == Spec => []CompletePicture
BY Completed, Inductive, PTL DEF Spec

\* No effect writes further than the one pixel after the mapping, and five
\* effects stay inside it (fb.c:40; disp-jpeg.c:195, 232, 265, 295).
THEOREM OneSpilt == Spec => []OverrunsByOnePixel
<1>1. ASSUME IInv PROVE OverrunsByOnePixel
  <2>1. job \in Jobs /\ Size(job) \notin Mapped(job)
    BY <1>1, SizeIs DEF IInv, JobInv
  <2>2. CASE job.effect # "move"
    BY <1>1, <2>1, <2>2, Shows DEF OverrunsByOnePixel, Spilling
  <2>3. CASE job.effect = "move"
    BY <1>1, <2>1, <2>3 DEF IInv, MoveInv, OverrunsByOnePixel
  <2> QED
    BY <2>2, <2>3
<1> QED
  BY <1>1, Inductive, PTL DEF Spec

\* The circle, the square and the diamond that show are whole at every frame:
\* each covers the one before it (disp-jpeg.c:257-273, 289-302, 364-378).
THEOREM FiguresGrowWhole == Spec => []GrowsWhole
<1>1. ASSUME IInv PROVE GrowsWhole
  <2> DEFINE shown == {k \in DOMAIN fb : fb[k] = k}
  <2> SUFFICES ASSUME t > 0, job.effect \in Growing
               PROVE  shown = Dots(job, t - 1)
    BY DEF GrowsWhole, Growing, Dots
  <2>1. job.effect # "move"
    BY DEF Growing
  <2>2. /\ t \in 0 .. Frames(job) /\ job \in Jobs
        /\ DOMAIN fb = Mapped(job) \cup Painted(job, t)
        /\ \A k \in DOMAIN fb : fb[k] = IF k \in Painted(job, t) THEN k ELSE Old
        /\ Painted(job, t) \subseteq Mapped(job) \cup {Size(job)}
    BY <1>1, <2>1, Shows
  <2>3. \A k \in DOMAIN fb : k # Old
    <3>1. Size(job) \in Nat /\ Mapped(job) = 0 .. Size(job) - 1
      BY <2>2, SizeIs
    <3>2. \A k \in Mapped(job) \cup {Size(job)} : k \in Nat
      BY <3>1
    <3>3. \A k \in DOMAIN fb : k \in Nat
      BY <2>2, <3>2
    <3> QED
      BY <3>3 DEF Old
  <2>4. shown = Painted(job, t)
    BY <2>2, <2>3
  <2>5. t - 1 \in 0 .. t - 1 /\ t - 1 \in Nat /\ \A s \in 0 .. t - 1 : s \in Nat /\ s <= t - 1
    BY <2>2
  <2>6. \A s \in 0 .. t - 1 : Dots(job, s) \subseteq Dots(job, t - 1)
    BY <2>2, <2>5, DotsGrow
  <2>7. Painted(job, t) = Dots(job, t - 1)
    BY <2>5, <2>6, Zenon DEF Painted
  <2> QED
    BY <2>4, <2>7
<1> QED
  BY <1>1, Inductive, PTL DEF Spec

\* shut and dot show something new with every pixel they write: the order of
\* their frames repeats nothing (disp-jpeg.c:24-47, 128-144).
THEOREM NothingTwice == Spec => PaintsOnce
<1> DEFINE Fresh == /\ job.effect = "shut" => \A k \in ShutDots(job, t) : fb[k] = Old
                    /\ job.effect = "dot"  => \A k \in DotDots(job, t) : fb[k] = Old
<1>1. ASSUME IInv, [Next]_vars, t' # t PROVE Fresh
  <2> SUFFICES ASSUME job.effect \in {"shut", "dot"}, NEW k \in Dots(job, t)
               PROVE  fb[k] = Old
    BY DEF Dots
  <2>1. job.effect # "move" /\ Next /\ ~Done
    BY <1>1 DEF Done, vars
  <2>2. /\ t \in 0 .. Frames(job) /\ job \in Jobs /\ t < Frames(job)
        /\ DOMAIN fb = Mapped(job) \cup Painted(job, t)
        /\ \A i \in DOMAIN fb : fb[i] = IF i \in Painted(job, t) THEN i ELSE Old
    BY <1>1, <2>1, Shows, PaintTurn
  <2>3. t \in 0 .. Frames(job) - 1 /\ \A s \in 0 .. t - 1 : s \in 0 .. Frames(job) - 1 /\ s # t
    BY <2>2, FramesAre
  <2>4. k \in Mapped(job)
    BY <2>2, <2>3, DotsInside DEF Spilling
  <2>5. \A s \in 0 .. t - 1 : k \notin Dots(job, s)
    <3>1. CASE job.effect = "shut"
      BY <2>2, <2>3, <3>1, ShutOnce DEF Dots, Frames
    <3>2. CASE job.effect = "dot"
      BY <2>2, <2>3, <3>2, DotOnce DEF Dots, Frames
    <3> QED
      BY <3>1, <3>2
  <2>6. k \notin Painted(job, t)
    BY <2>5 DEF Painted
  <2> QED
    BY <2>2, <2>4, <2>6
<1>2. IInv /\ [Next]_vars => [Fresh]_t
  BY <1>1
<1> QED
  BY <1>2, Inductive, PTL DEF Spec, PaintsOnce
=============================================================================
