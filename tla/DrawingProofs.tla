--------------------------- MODULE DrawingProofs ---------------------------
(***************************************************************************)
(* What is drawn appears where it was asked for and changes nothing else,  *)
(* on a screen of any size, for shapes of any size anywhere, and after any *)
(* number of calls.  The pixels of a picture do not share bytes; that a    *)
(* line goes through the pixels nearest to it is about its loop.           *)
(***************************************************************************)
EXTENDS Drawing, FiniteSetTheorems, WellFoundedInduction, TLAPS

-----------------------------------------------------------------------------
(* Pixels and their bytes.                                                 *)

\* What a behaviour keeps: the bytes of the framebuffer, and no others.
DrawingInv == bpp \in Depths /\ DOMAIN memory = FramebufferBytes

\* A pixel has three bytes or four, and they fit in a row.
LEMMA PixelSize ==
    ASSUME bpp \in Depths
    PROVE  /\ bpp \div 8 \in {3, 4}
           /\ \A n \in 0 .. ScreenWidth : n * (bpp \div 8) \in 0 .. Pitch
           /\ \A n \in 0 .. ScreenWidth - 1 :
                 n * (bpp \div 8) \in Nat /\ n * (bpp \div 8) + (bpp \div 8) <= Pitch
  <1>1. ScreenWidth \in Nat /\ Pitch \in Nat
    BY DrawingAssumption
  <1>2. bpp \in {24, 32} /\ ScreenWidth * (bpp \div 8) <= Pitch
    BY DEF Depths
  <1>3. CASE bpp = 24
    <2>1. bpp \div 8 = 3
      BY <1>3
    <2>2. ScreenWidth * 3 <= Pitch
      BY <1>2, <2>1
    <2>3. QED
      BY <1>1, <2>1, <2>2
  <1>4. CASE bpp = 32
    <2>1. bpp \div 8 = 4
      BY <1>4
    <2>2. ScreenWidth * 4 <= Pitch
      BY <1>2, <2>1
    <2>3. QED
      BY <1>1, <2>1, <2>2
  <1>5. QED
    BY <1>2, <1>3, <1>4

\* The pixels of the screen are the pairs gpu_draw_pixel accepts.
LEMMA ScreenPixel ==
    ASSUME NEW x \in Int, NEW y \in Int
    PROVE  OnFramebuffer(x, y) <=> <<x, y>> \in Screen
  <1>1. ScreenWidth \in Nat /\ ScreenHeight \in Nat
    BY DrawingAssumption
  <1>2. QED
    BY <1>1 DEF OnFramebuffer, Screen

\* a is a byte of the pixel p.
ByteOf(a, p) == a \in PixelBytes(p[1], p[2])

\* Rows of the framebuffer do not overlap.
LEMMA RowsApart ==
    ASSUME NEW m \in Int, NEW n \in Int, NEW u \in 0 .. Pitch - 1, NEW v \in 0 .. Pitch - 1,
           m * Pitch + u = n * Pitch + v
    PROVE  m = n /\ u = v
  <1>1. PICK w \in Nat : w = Pitch
    BY DrawingAssumption
  <1>2. m * w + u = n * w + v /\ u \in 0 .. w - 1 /\ v \in 0 .. w - 1
    BY <1>1
  <1>3. PICK d \in Int : d = m - n
    OBVIOUS
  <1>4. d * w = v - u
    <2>1. (m - n) * w = m * w - n * w /\ m * w \in Int /\ n * w \in Int
      BY <1>1
    <2>2. QED
      BY <1>2, <1>3, <2>1
  <1>5. d = 0
    <2>1. CASE d >= 1
      <3>1. d * w >= w
        BY <1>1, <2>1
      <3>2. QED
        BY <1>1, <1>2, <1>4, <3>1
    <2>2. CASE d <= -1
      <3>1. d * w <= -w
        BY <1>1, <2>2
      <3>2. QED
        BY <1>1, <1>2, <1>4, <3>1
    <2>3. QED
      BY <2>1, <2>2
  <1>6. QED
    BY <1>2, <1>3, <1>4, <1>5

\* Where a byte of a pixel of the screen is.
LEMMA ByteFacts ==
    ASSUME bpp \in Depths, NEW p \in Screen, NEW a, ByteOf(a, p)
    PROVE  \E t \in 0 .. (bpp \div 8) - 1 :
              /\ a = p[2] * Pitch + (p[1] * (bpp \div 8) + t)
              /\ p[1] * (bpp \div 8) + t \in 0 .. Pitch - 1
              /\ a \in FramebufferBytes
  <1>1. PICK w \in Nat, h \in Nat : w = Pitch /\ h = ScreenHeight
    BY DrawingAssumption
  <1>2. PICK b \in {3, 4} : b = bpp \div 8
    BY PixelSize
  <1>3. PICK x, y : x = p[1] /\ y = p[2]
    OBVIOUS
  <1>4. x \in 0 .. ScreenWidth - 1 /\ y \in 0 .. h - 1
    BY <1>1, <1>3 DEF Screen
  <1>5. ScreenWidth \in Nat
    BY DrawingAssumption
  <1>6. x * b \in Nat /\ x * b + b <= w
    BY <1>1, <1>2, <1>4, PixelSize
  <1>7. y * w \in Nat
    BY <1>1, <1>4
  <1>8. a \in y * w + x * b .. (y * w + x * b) + b - 1
    BY <1>1, <1>2, <1>3 DEF ByteOf, PixelBytes
  <1>9. PICK t \in 0 .. b - 1 : a = (y * w + x * b) + t
    <2>1. PICK f \in Nat : f = y * w + x * b
      BY <1>6, <1>7
    <2>2. a \in f .. f + b - 1
      BY <1>8, <2>1
    <2>3. a - f \in 0 .. b - 1 /\ a = f + (a - f)
      BY <1>2, <2>2
    <2>4. QED
      BY <2>1, <2>3
  <1>10. PICK u \in Nat : u = x * b
    BY <1>6
  <1>11. u + t \in 0 .. w - 1
    BY <1>2, <1>6, <1>9, <1>10
  <1>12. a = y * w + (u + t)
    BY <1>7, <1>9, <1>10, <1>2
  <1>13. a \in 0 .. w * h - 1
    <2>1. y * w <= w * h - w
      <3>1. (h - 1) * w = w * h - w
        BY <1>1
      <3>2. y * w <= (h - 1) * w
        BY <1>1, <1>4
      <3>3. QED
        BY <3>1, <3>2
    <2>2. w * h \in Nat
      BY <1>1
    <2>3. QED
      BY <1>7, <1>11, <1>12, <1>1, <2>1, <2>2
  <1>14. a \in FramebufferBytes
    BY <1>1, <1>13 DEF FramebufferBytes
  <1>15. QED
    BY <1>1, <1>2, <1>3, <1>9, <1>10, <1>11, <1>12, <1>14

\* Pixels of the screen do not share a byte.
LEMMA PixelsApart ==
    ASSUME bpp \in Depths, NEW p \in Screen, NEW q \in Screen, NEW a,
           ByteOf(a, p), ByteOf(a, q)
    PROVE  p = q
  <1>1. PICK b \in {3, 4} : b = bpp \div 8
    BY PixelSize
  <1>2. PICK s \in 0 .. b - 1 : /\ a = p[2] * Pitch + (p[1] * b + s)
                                /\ p[1] * b + s \in 0 .. Pitch - 1
    BY <1>1, ByteFacts
  <1>3. PICK t \in 0 .. b - 1 : /\ a = q[2] * Pitch + (q[1] * b + t)
                                /\ q[1] * b + t \in 0 .. Pitch - 1
    BY <1>1, ByteFacts
  <1>4. /\ p = <<p[1], p[2]>> /\ q = <<q[1], q[2]>>
        /\ p[1] \in Int /\ p[2] \in Int /\ q[1] \in Int /\ q[2] \in Int
    BY DrawingAssumption DEF Screen
  <1>5. p[2] = q[2] /\ p[1] * b + s = q[1] * b + t
    BY <1>2, <1>3, <1>4, RowsApart
  <1>6. p[1] = q[1]
    <2>1. PICK x, y \in Int : x = p[1] /\ y = q[1]
      BY <1>4
    <2>2. x * b + s = y * b + t
      BY <1>5, <2>1
    <2>3. CASE b = 3
      <3>1. x * 3 + s = y * 3 + t
        BY <2>2, <2>3, Zenon
      <3>2. s \in 0 .. 2 /\ t \in 0 .. 2
        BY <2>3
      <3>3. ~(x < y) /\ ~(y < x)
        BY <3>1, <3>2
      <3>4. QED
        BY <2>1, <3>3
    <2>4. CASE b = 4
      <3>1. x * 4 + s = y * 4 + t
        BY <2>2, <2>4, Zenon
      <3>2. s \in 0 .. 3 /\ t \in 0 .. 3
        BY <2>4
      <3>3. QED
        BY <2>1, <3>1, <3>2
    <2>5. QED
      BY <1>1, <2>3, <2>4
  <1>7. QED
    BY <1>4, <1>5, <1>6

\* Pixels of a picture.
IsPicture(picture) == DOMAIN picture \subseteq Int \X Int

\* The pixels of a picture that are on the screen show it, the others stay, and so does
\* every byte that is of no pixel.
PictureShown(picture) ==
    /\ DOMAIN memory' = FramebufferBytes
    /\ \A p \in Screen : IF p \in DOMAIN picture THEN Shows(memory', p, picture[p]) ELSE Same(p)
    /\ \A a \in FramebufferBytes : (\A p \in Screen : ~ByteOf(a, p)) => memory'[a] = memory[a]

LEMMA DrawShows ==
    ASSUME DrawingInv, NEW picture, IsPicture(picture), Draw(picture)
    PROVE  PictureShown(picture)
  <1> DEFINE drawn     == {p \in DOMAIN picture : OnFramebuffer(p[1], p[2])}
             written   == UNION {PixelBytes(p[1], p[2]) : p \in drawn}
             Holder(a) == CHOOSE p \in drawn : a \in PixelBytes(p[1], p[2])
             First(p)  == p[2] * Pitch + p[1] * (bpp \div 8)
             Value(a)  == IF a \notin written THEN memory[a]
                          ELSE <<picture[Holder(a)], a - First(Holder(a))>>
  <1>1. memory' = [a \in DOMAIN memory \cup written |-> Value(a)]
    BY DEF Draw
  <1>2. bpp \in Depths /\ DOMAIN memory = FramebufferBytes
    BY DEF DrawingInv
  <1>3. \A p : p \in drawn <=> p \in DOMAIN picture /\ p \in Screen
    <2>1. ASSUME NEW p \in DOMAIN picture
          PROVE  OnFramebuffer(p[1], p[2]) <=> p \in Screen
      <3>1. p = <<p[1], p[2]>> /\ p[1] \in Int /\ p[2] \in Int
        BY DEF IsPicture
      <3>2. QED
        BY <3>1, ScreenPixel
    <2>2. QED
      BY <2>1
  <1>4. \A a : a \in written <=> \E p \in drawn : ByteOf(a, p)
    BY DEF ByteOf
  <1>5. written \subseteq FramebufferBytes
    BY <1>2, <1>3, <1>4, ByteFacts
  <1>6. ASSUME NEW p \in drawn, NEW a, ByteOf(a, p) PROVE Holder(a) = p
    <2>1. Holder(a) \in drawn /\ ByteOf(a, Holder(a))
      BY <1>6 DEF ByteOf
    <2>2. QED
      <3> HIDE DEF Holder, drawn
      <3>1. QED
        BY <1>2, <1>3, <1>6, <2>1, PixelsApart
  <1> HIDE DEF drawn, written, Holder
  <1>7. DOMAIN memory' = FramebufferBytes
    <2> HIDE DEF Value
    <2>1. DOMAIN memory \cup written = FramebufferBytes
      BY <1>2, <1>5
    <2>2. QED
      BY <1>1, <2>1
  <1>8. \A a \in FramebufferBytes : memory'[a] = Value(a)
    <2> HIDE DEF Value
    <2>1. QED
      BY <1>1, <1>2
  <1>9. ASSUME NEW p \in drawn PROVE Shows(memory', p, picture[p])
    <2>1. p \in Screen
      BY <1>3
    <2>2. ASSUME NEW i \in 0 .. 2 PROVE memory'[First(p) + i] = <<picture[p], i>>
      <3>1. PICK a : a = First(p) + i
        OBVIOUS
      <3>2. First(p) \in Int
        <4>1. /\ p[2] \in Int /\ p[1] \in Int /\ Pitch \in Int /\ bpp \div 8 \in Int
          BY <1>2, <2>1, PixelSize, DrawingAssumption DEF Screen
        <4>2. p[2] * Pitch \in Int /\ p[1] * (bpp \div 8) \in Int
          BY <4>1
        <4>3. QED
          BY <4>2
      <3>3. ByteOf(a, p)
        <4>1. PICK f \in Int : f = First(p)
          BY <3>2
        <4>2. PICK b \in {3, 4} : b = bpp \div 8
          BY <1>2, PixelSize
        <4>3. a \in f .. f + b - 1
          BY <3>1, <4>1, <4>2
        <4>4. QED
          BY <4>1, <4>2, <4>3 DEF ByteOf, PixelBytes
      <3>4. a \in written /\ Holder(a) = p
        BY <1>4, <1>6, <3>3
      <3>5. Value(a) = <<picture[p], a - First(p)>>
        BY <3>4
      <3>6. a - First(p) = i
        BY <3>1, <3>2
      <3>7. QED
        BY <1>5, <1>8, <3>1, <3>4, <3>5, <3>6
    <2>3. QED
      BY <2>2 DEF Shows
  <1>10. ASSUME NEW a \in FramebufferBytes, \A p \in drawn : ~ByteOf(a, p)
         PROVE  memory'[a] = memory[a]
    BY <1>4, <1>8, <1>10
  <1>11. ASSUME NEW p \in Screen, p \notin DOMAIN picture PROVE Same(p)
    <2>1. ASSUME NEW a, ByteOf(a, p) PROVE memory'[a] = memory[a]
      <3>1. a \in FramebufferBytes
        BY <1>2, <2>1, ByteFacts
      <3>2. \A q \in drawn : ~ByteOf(a, q)
        BY <1>2, <1>3, <1>11, <2>1, PixelsApart
      <3>3. QED
        BY <1>10, <3>1, <3>2
    <2>2. QED
      BY <2>1 DEF Same, ByteOf
  <1>12. \A p \in Screen : IF p \in DOMAIN picture THEN Shows(memory', p, picture[p]) ELSE Same(p)
    BY <1>3, <1>9, <1>11
  <1>13. \A a \in FramebufferBytes :
             (\A p \in Screen : ~ByteOf(a, p)) => memory'[a] = memory[a]
    BY <1>3, <1>10
  <1>14. QED
    BY <1>7, <1>12, <1>13 DEF PictureShown

-----------------------------------------------------------------------------
(* The loop of a line.  Along the longer side, of length A, it goes one    *)
(* step each turn; along the shorter one, of length B, it has gone m steps *)
(* after n turns.                                                          *)

\* The m-th column is the nearest to the line in row n, the lower one when two are.
Nearest(A, B, n, m) == -A <= 2 * (m * A - n * B) /\ 2 * (m * A - n * B) < A

\* When the loop goes to the next column.
Turns(A, B, n, m) == 2 * (m * A - n * B) + A < 2 * B

\* That keeps it so.
LEMMA NearestNext ==
    ASSUME NEW A \in Nat, A > 0, NEW B \in 0 .. A, NEW n \in Nat, NEW m \in Int,
           Nearest(A, B, n, m)
    PROVE  IF Turns(A, B, n, m) THEN Nearest(A, B, n + 1, m + 1) ELSE Nearest(A, B, n + 1, m)
  <1>1. PICK u, v \in Int : u = m * A /\ v = n * B
    OBVIOUS
  <1>2. (m + 1) * A = u + A /\ (n + 1) * B = v + B
    BY <1>1
  <1>3. -A <= 2 * (u - v) /\ 2 * (u - v) < A
    BY <1>1 DEF Nearest
  <1>4. CASE 2 * (u - v) + A < 2 * B
    <2>1. -A <= 2 * ((u + A) - (v + B)) /\ 2 * ((u + A) - (v + B)) < A
      BY <1>3, <1>4
    <2>2. QED
      BY <1>1, <1>2, <1>4, <2>1 DEF Nearest, Turns
  <1>5. CASE ~(2 * (u - v) + A < 2 * B)
    <2>1. -A <= 2 * (u - (v + B)) /\ 2 * (u - (v + B)) < A
      BY <1>3, <1>5
    <2>2. QED
      BY <1>1, <1>2, <1>5, <2>1 DEF Nearest, Turns
  <1>6. QED
    BY <1>1, <1>4, <1>5 DEF Turns

\* There is one nearest column, within the shorter side; at the end it is the end.
LEMMA NearestFacts ==
    ASSUME NEW A \in Nat, A > 0, NEW B \in 0 .. A, NEW n \in 0 .. A, NEW m \in Int,
           Nearest(A, B, n, m)
    PROVE  /\ m \in 0 .. B
           /\ \A k \in Int : Nearest(A, B, n, k) => k = m
           /\ n = A => m = B
           /\ A = B => m = n
  <1>1. PICK u, v \in Int : u = m * A /\ v = n * B
    OBVIOUS
  <1>2. -A <= 2 * (u - v) /\ 2 * (u - v) < A
    BY <1>1 DEF Nearest
  <1>3. \A d \in Int : (d >= 1 => d * A >= A) /\ (d <= -1 => d * A <= -A)
    OBVIOUS
  <1>4. v >= 0 /\ v <= A * B
    <2>1. n * B <= A * B /\ n * B >= 0
      OBVIOUS
    <2>2. QED
      BY <1>1, <2>1
  <1>5. ASSUME NEW k \in Int, Nearest(A, B, n, k) PROVE k = m
    <2>1. PICK w \in Int : w = k * A
      OBVIOUS
    <2>2. -A <= 2 * (w - v) /\ 2 * (w - v) < A
      BY <1>1, <1>5, <2>1 DEF Nearest
    <2>3. (k - m) * A = w - u
      BY <1>1, <2>1
    <2>4. PICK d \in Int : d = k - m
      OBVIOUS
    <2>5. d * A > -A /\ d * A < A
      BY <1>2, <2>2, <2>3, <2>4
    <2>6. ~(d >= 1) /\ ~(d <= -1)
      BY <1>3, <2>5
    <2>7. QED
      BY <2>4, <2>6
  <1>6. m >= 0
    <2>1. ASSUME m <= -1 PROVE FALSE
      BY <1>1, <1>2, <1>3, <1>4, <2>1
    <2>2. QED
      BY <2>1
  <1>7. m <= B
    <2>1. ASSUME m - B >= 1 PROVE FALSE
      <3>1. (m - B) * A = u - A * B /\ A * B \in Int
        BY <1>1
      <3>2. (m - B) * A >= A
        BY <1>3, <2>1
      <3>3. QED
        BY <1>2, <1>4, <3>1, <3>2
    <2>2. QED
      BY <2>1
  <1>8. n = A => Nearest(A, B, n, B)
    <2>1. n = A => B * A - n * B = 0
      OBVIOUS
    <2>2. QED
      BY <2>1 DEF Nearest
  <1>9. A = B => Nearest(A, B, n, n)
    <2>1. A = B => n * A - n * B = 0
      OBVIOUS
    <2>2. QED
      BY <2>1 DEF Nearest
  <1>10. QED
    BY <1>5, <1>6, <1>7, <1>8, <1>9

\* Twice the distance, times A.
Gap(A, B, n, m) == 2 * Abs(m * A - n * B)

\* Less than half a column away is the nearest.
LEMMA NearestMeans ==
    ASSUME NEW A \in Nat, A > 0, NEW B \in 0 .. A, NEW n \in Int, NEW m \in Int
    PROVE  /\ Nearest(A, B, n, m) => Gap(A, B, n, m) <= A
           /\ Gap(A, B, n, m) < A => Nearest(A, B, n, m)
  <1>1. PICK t \in Int : t = m * A - n * B
    OBVIOUS
  <1>2. Nearest(A, B, n, m) <=> -A <= 2 * t /\ 2 * t < A
    BY <1>1 DEF Nearest
  <1>3. Gap(A, B, n, m) = 2 * Abs(t)
    BY <1>1 DEF Gap
  <1>4. QED
    BY <1>2, <1>3 DEF Abs

\* Of two columns that are half a column away one counts as the nearest.
LEMMA NearestOfTwo ==
    ASSUME NEW A \in Nat, A > 0, NEW B \in 0 .. A, NEW n \in Int, NEW m \in Int,
           NEW k \in Int, Gap(A, B, n, m) = A, Gap(A, B, n, k) = A, k # m
    PROVE  Nearest(A, B, n, k) <=> ~Nearest(A, B, n, m)
  <1>1. PICK t \in Int : t = m * A - n * B
    OBVIOUS
  <1>2. Nearest(A, B, n, m) <=> -A <= 2 * t /\ 2 * t < A
    BY <1>1 DEF Nearest
  <1>3. PICK s \in Int : s = k * A - n * B
    OBVIOUS
  <1>4. Nearest(A, B, n, k) <=> -A <= 2 * s /\ 2 * s < A
    BY <1>3 DEF Nearest
  <1>5. s # t
    <2>1. s - t = (k - m) * A
      BY <1>1, <1>3
    <2>2. (k - m) * A # 0
      OBVIOUS
    <2>3. QED
      BY <2>1, <2>2
  <1>6. 2 * Abs(s) = A /\ 2 * Abs(t) = A
    BY <1>1, <1>3 DEF Gap
  <1>7. QED
    BY <1>2, <1>4, <1>5, <1>6 DEF Abs

\* Induction over the natural numbers, for a set.
LEMMA FromZero ==
    ASSUME NEW S, S \subseteq Nat, 0 \in S, \A n \in S : n + 1 \in S
    PROVE  S = Nat
  <1> DEFINE T == {U \in SUBSET Nat : \E t \in Nat \ S : U = 0 .. t}
             R == StrictSubsetOrdering(Nat)
  <1> SUFFICES ASSUME Nat \ S # {} PROVE FALSE
    OBVIOUS
  <1>1. IsWellFoundedOn(R, FiniteSubsetsOf(Nat))
    BY FS_StrictSubsetOrderingWellFounded
  <1>2. T \subseteq FiniteSubsetsOf(Nat)
    BY FS_Interval DEF FiniteSubsetsOf
  <1>3. T # {}
    <2>1. PICK t \in Nat \ S : TRUE
      OBVIOUS
    <2>2. (0 .. t) \in T
      BY <2>1
    <2>3. QED
      BY <2>2
  <1> HIDE DEF T
  <1>4. PICK U \in T : \A V \in T : ~ (<<V, U>> \in R)
    <2> HIDE DEF R
    <2>1. QED
      BY <1>1, <1>2, <1>3, WFMin
  <1>5. PICK m \in Nat \ S : U = 0 .. m
    BY <1>4 DEF T
  <1>6. m # 0
    OBVIOUS
  <1>7. m - 1 \in Nat \ S
    <2>1. m - 1 \in Nat /\ (m - 1) + 1 = m
      BY <1>6
    <2>2. QED
      BY <2>1
  <1>8. (0 .. (m - 1)) \in T
    BY <1>7 DEF T
  <1>9. (0 .. (m - 1)) \subseteq U /\ (0 .. (m - 1)) # U
    BY <1>5
  <1>10. <<0 .. (m - 1), U>> \in R
    BY <1>8, <1>9, <1>5 DEF StrictSubsetOrdering
  <1>11. QED
    BY <1>4, <1>8, <1>10

\* f has the first turns of the loop.
Traced(n, start, d, f) ==
    f = [i \in 0 .. n |-> IF i = 0 THEN start ELSE LineStep(f[i - 1], d)]

\* One turn more.
LEMMA TraceFurther ==
    ASSUME NEW start, NEW d, NEW n \in Nat, NEW f, Traced(n, start, d, f)
    PROVE  \E g : Traced(n + 1, start, d, g)
  <1> DEFINE g == [k \in 0 .. (n + 1) |-> IF k = n + 1 THEN LineStep(f[n], d) ELSE f[k]]
             F(k) == IF k = 0 THEN start ELSE LineStep(g[k - 1], d)
  <1>1. \A k \in 0 .. n : f[k] = IF k = 0 THEN start ELSE LineStep(f[k - 1], d)
    BY DEF Traced
  <1>2. ASSUME NEW k \in 0 .. (n + 1) PROVE g[k] = F(k)
    <2>1. CASE k = n + 1
      <3>1. k - 1 = n /\ n \in 0 .. (n + 1) /\ n # n + 1 /\ k # 0
        BY <2>1
      <3>2. g[k - 1] = f[n]
        BY <3>1
      <3>3. g[k] = LineStep(f[n], d)
        BY <2>1
      <3>4. QED
        BY <3>1, <3>2, <3>3
    <2>2. CASE k = 0
      BY <1>1, <2>2
    <2>3. CASE k # 0 /\ k # n + 1
      <3>1. k \in 0 .. n /\ k - 1 \in 0 .. (n + 1) /\ k - 1 # n + 1
        BY <2>3
      <3>2. g[k - 1] = f[k - 1] /\ g[k] = f[k]
        BY <2>3, <3>1
      <3>3. f[k] = LineStep(f[k - 1], d)
        BY <1>1, <2>3, <3>1
      <3>4. QED
        BY <2>3, <3>2, <3>3
    <2>4. QED
      BY <2>1, <2>2, <2>3
  <1>3. g = [k \in 0 .. (n + 1) |-> F(k)]
    <2> HIDE DEF F
    <2>1. QED
      BY <1>2
  <1>4. Traced(n + 1, start, d, g)
    <2> HIDE DEF g
    <2>1. QED
      BY <1>3 DEF Traced
  <1>5. QED
    BY <1>4

\* The function of the loop.
IsTrace(f, n, start, d) == f = CHOOSE g : Traced(n, start, d, g)

LEMMA TraceFacts ==
    ASSUME NEW start, NEW d, NEW n \in Nat, NEW f, IsTrace(f, n, start, d)
    PROVE  /\ f[0] = start
           /\ \A k \in 0 .. (n - 1) : f[k + 1] = LineStep(f[k], d)
  <1> DEFINE Good == {m \in Nat : \E g : Traced(m, start, d, g)}
  <1>1. 0 \in Good
    <2> DEFINE z == [k \in 0 .. 0 |-> start]
               F(k) == IF k = 0 THEN start ELSE LineStep(z[k - 1], d)
    <2>1. \A k \in 0 .. 0 : z[k] = F(k)
      OBVIOUS
    <2>2. z = [k \in 0 .. 0 |-> F(k)]
      <3> HIDE DEF F
      <3>1. QED
        BY <2>1
    <2>3. Traced(0, start, d, z)
      <3> HIDE DEF z
      <3>1. QED
        BY <2>2 DEF Traced
    <2>4. QED
      BY <2>3
  <1>2. \A m \in Good : m + 1 \in Good
    BY TraceFurther
  <1>3. Good = Nat
    <2> HIDE DEF Good
    <2>1. Good \subseteq Nat
      BY DEF Good
    <2>2. QED
      BY <1>1, <1>2, <2>1, FromZero
  <1>4. Traced(n, start, d, f)
    <2>1. \E g : Traced(n, start, d, g)
      BY <1>3
    <2>2. QED
      BY <2>1, Zenon DEF IsTrace
  <1>5. \A k \in 0 .. n : f[k] = IF k = 0 THEN start ELSE LineStep(f[k - 1], d)
    BY <1>4 DEF Traced
  <1>6. ASSUME NEW k \in 0 .. (n - 1) PROVE f[k + 1] = LineStep(f[k], d)
    <2>1. k + 1 \in 0 .. n /\ k + 1 # 0 /\ (k + 1) - 1 = k
      OBVIOUS
    <2>2. QED
      BY <1>5, <2>1
  <1>7. QED
    BY <1>5, <1>6

\* The distances and directions of a line.
Way(x1, y1, x2, y2) ==
    [dx |-> Abs(x2 - x1), dy |-> Abs(y2 - y1), sx |-> Sign(x1, x2), sy |-> Sign(y1, y2)]

\* The loop of a line, turn by turn.
Loop(at, x1, y1, d) ==
    /\ at[0] = [x |-> x1, y |-> y1, err |-> d.dx - d.dy]
    /\ \A k \in 0 .. d.dx + d.dy : at[k + 1] = LineStep(at[k], d)

\* Its points before it has met the end.
Met(at, n, e) ==
    {<<at[i].x, at[i].y>> : i \in {j \in 0 .. n : \A l \in 0 .. j - 1 : <<at[l].x, at[l].y>> # e}}

IsWay(d, x1, y1, x2, y2) == d = Way(x1, y1, x2, y2)

LineRuns(at, x1, y1, x2, y2, d) ==
    /\ Loop(at, x1, y1, d)
    /\ LinePixels(x1, y1, x2, y2) = Met(at, d.dx + d.dy + 1, <<x2, y2>>)

LEMMA LineLoops ==
    ASSUME NEW x1 \in Int, NEW y1 \in Int, NEW x2 \in Int, NEW y2 \in Int,
           NEW d, IsWay(d, x1, y1, x2, y2)
    PROVE  \E at : LineRuns(at, x1, y1, x2, y2, d)
  <1>1. d = Way(x1, y1, x2, y2)
    BY DEF IsWay
  <1>2. PICK n \in Nat : n = d.dx + d.dy + 1
    BY <1>1 DEF Way, Abs
  <1>3. PICK start : start = [x |-> x1, y |-> y1, err |-> d.dx - d.dy]
    OBVIOUS
  <1>4. PICK at : at = CHOOSE g : Traced(n, start, d, g)
    OBVIOUS
  <1>5. at[0] = start /\ \A k \in 0 .. (n - 1) : at[k + 1] = LineStep(at[k], d)
    <2>1. IsTrace(at, n, start, d)
      BY <1>4 DEF IsTrace
    <2>2. QED
      BY <2>1, TraceFacts
  <1>6. n - 1 = d.dx + d.dy
    BY <1>1, <1>2 DEF Way, Abs
  <1>7. Loop(at, x1, y1, d)
    BY <1>3, <1>5, <1>6 DEF Loop
  <1>8. LinePixels(x1, y1, x2, y2) = Met(at, d.dx + d.dy + 1, <<x2, y2>>)
    <2> DEFINE w == Way(x1, y1, x2, y2)
    <2>1. LinePixels(x1, y1, x2, y2)
              = Met(CHOOSE g : Traced(w.dx + w.dy + 1,
                                      [x |-> x1, y |-> y1, err |-> w.dx - w.dy], w, g),
                    w.dx + w.dy + 1, <<x2, y2>>)
      BY Zenon DEF LinePixels, Met, Traced, Way
    <2>2. QED
      <3> HIDE DEF w
      <3>1. w = d
        BY <1>1 DEF w
      <3>2. QED
        BY <1>2, <1>3, <1>4, <2>1, <3>1
  <1>9. QED
    BY <1>7, <1>8 DEF LineRuns

\* When it meets the end in turn a, and not before, it has turns 0 to a.
LEMMA UntilEnd ==
    ASSUME NEW at, NEW e, NEW n \in Nat, NEW a \in 0 .. n, <<at[a].x, at[a].y>> = e,
           \A l \in 0 .. a - 1 : <<at[l].x, at[l].y>> # e
    PROVE  Met(at, n, e) = {<<at[i].x, at[i].y>> : i \in 0 .. a}
  <1>1. {j \in 0 .. n : \A l \in 0 .. j - 1 : <<at[l].x, at[l].y>> # e} = 0 .. a
    <2>1. ASSUME NEW j \in 0 .. n, \A l \in 0 .. j - 1 : <<at[l].x, at[l].y>> # e
          PROVE  j \in 0 .. a
      <3>1. ~(a \in 0 .. j - 1)
        BY <2>1
      <3>2. QED
        BY <3>1
    <2>2. ASSUME NEW j \in 0 .. a, NEW l \in 0 .. j - 1
          PROVE  j \in 0 .. n /\ <<at[l].x, at[l].y>> # e
      <3>1. l \in 0 .. a - 1
        OBVIOUS
      <3>2. QED
        BY <3>1
    <2>3. QED
      BY <2>1, <2>2
  <1>2. QED
    BY <1>1, Zenon DEF Met

\* The loop after k turns and m steps along the shorter side, for a line that is not
\* steep and for one that is.
FlatAt(x, y, A, B, k, m)  == [x |-> x, y |-> y, err |-> (m + 1) * A - (k + 1) * B]
SteepAt(x, y, A, B, k, m) == [x |-> x, y |-> y, err |-> (k + 1) * B - (m + 1) * A]

\* The loop goes one step along x in each turn of a line that is not steep.
LEMMA FlatStep ==
    ASSUME NEW d, NEW A \in Nat, A > 0, NEW B \in 0 .. A, d.dx = A, d.dy = B,
           NEW k \in 0 .. A, NEW m \in Int, Nearest(A, B, k, m),
           NEW x, NEW y
    PROVE  LineStep(FlatAt(x, y, A, B, k, m), d) =
               IF Turns(A, B, k, m) THEN FlatAt(x + d.sx, y + d.sy, A, B, k + 1, m + 1)
               ELSE FlatAt(x + d.sx, y, A, B, k + 1, m)
  <1>0. PICK p : p = FlatAt(x, y, A, B, k, m)
    OBVIOUS
  <1>1. PICK u, v \in Int : u = m * A /\ v = k * B
    OBVIOUS
  <1>2. PICK t \in Int : t = u - v
    OBVIOUS
  <1>3. -A <= 2 * t /\ 2 * t < A
    BY <1>1, <1>2 DEF Nearest
  <1>4. A = B => t = 0
    <2>1. A = B => m = k
      BY NearestFacts
    <2>2. QED
      BY <1>1, <1>2, <2>1
  <1>5. /\ (m + 1) * A = u + A /\ ((m + 1) + 1) * A = u + 2 * A
        /\ (k + 1) * B = v + B /\ ((k + 1) + 1) * B = v + 2 * B
    BY <1>1
  <1>6. PICK e \in Int : e = t + A - B /\ p = [x |-> x, y |-> y, err |-> e]
    BY <1>0, <1>1, <1>2, <1>5 DEF FlatAt
  <1>7. 2 * e > -B
    BY <1>3, <1>4, <1>6
  <1>8. 2 * e < A <=> 2 * t + A < 2 * B
    BY <1>6
  <1>9. CASE 2 * t + A < 2 * B
    <2>1. LineStep(p, d) = [x |-> x + d.sx, y |-> y + d.sy, err |-> e - B + A]
      BY <1>6, <1>7, <1>8, <1>9 DEF LineStep
    <2>2. e - B + A = (u + 2 * A) - (v + 2 * B)
      BY <1>2, <1>6
    <2>3. QED
      BY <1>0, <1>1, <1>2, <1>5, <1>9, <2>1, <2>2 DEF Turns, FlatAt
  <1>10. CASE ~(2 * t + A < 2 * B)
    <2>1. LineStep(p, d) = [x |-> x + d.sx, y |-> y, err |-> e - B + 0]
      BY <1>6, <1>7, <1>8, <1>10 DEF LineStep
    <2>2. e - B + 0 = (u + A) - (v + 2 * B)
      BY <1>2, <1>6
    <2>3. QED
      BY <1>0, <1>1, <1>2, <1>5, <1>10, <2>1, <2>2 DEF Turns, FlatAt
  <1>11. QED
    BY <1>0, <1>1, <1>2, <1>9, <1>10

\* And along y in each turn of a steep one.
LEMMA SteepStep ==
    ASSUME NEW d, NEW A \in Nat, A > 0, NEW B \in 0 .. A - 1, d.dy = A, d.dx = B,
           NEW k \in 0 .. A, NEW m \in Int, Nearest(A, B, k, m),
           NEW x, NEW y
    PROVE  LineStep(SteepAt(x, y, A, B, k, m), d) =
               IF Turns(A, B, k, m) THEN SteepAt(x + d.sx, y + d.sy, A, B, k + 1, m + 1)
               ELSE SteepAt(x, y + d.sy, A, B, k + 1, m)
  <1>0. PICK p : p = SteepAt(x, y, A, B, k, m)
    OBVIOUS
  <1>1. PICK u, v \in Int : u = m * A /\ v = k * B
    OBVIOUS
  <1>2. PICK t \in Int : t = u - v
    OBVIOUS
  <1>3. -A <= 2 * t /\ 2 * t < A
    BY <1>1, <1>2 DEF Nearest
  <1>4. /\ (m + 1) * A = u + A /\ ((m + 1) + 1) * A = u + 2 * A
        /\ (k + 1) * B = v + B /\ ((k + 1) + 1) * B = v + 2 * B
    BY <1>1
  <1>5. PICK e \in Int : e = B - A - t /\ p = [x |-> x, y |-> y, err |-> e]
    BY <1>0, <1>1, <1>2, <1>4 DEF SteepAt
  <1>6. 2 * e < B
    BY <1>3, <1>5
  <1>7. 2 * e > -A <=> 2 * t + A < 2 * B
    BY <1>5
  <1>8. CASE 2 * t + A < 2 * B
    <2>1. LineStep(p, d) = [x |-> x + d.sx, y |-> y + d.sy, err |-> e - A + B]
      BY <1>5, <1>6, <1>7, <1>8 DEF LineStep
    <2>2. e - A + B = (v + 2 * B) - (u + 2 * A)
      BY <1>2, <1>5
    <2>3. QED
      BY <1>0, <1>1, <1>2, <1>4, <1>8, <2>1, <2>2 DEF Turns, SteepAt
  <1>9. CASE ~(2 * t + A < 2 * B)
    <2>1. LineStep(p, d) = [x |-> x, y |-> y + d.sy, err |-> e - 0 + B]
      BY <1>5, <1>6, <1>7, <1>9 DEF LineStep
    <2>2. e - 0 + B = (v + 2 * B) - (u + A)
      BY <1>2, <1>5
    <2>3. QED
      BY <1>0, <1>1, <1>2, <1>4, <1>9, <2>1, <2>2 DEF Turns, SteepAt
  <1>10. QED
    BY <1>0, <1>1, <1>2, <1>8, <1>9

\* Where the loop is after k turns: k steps along the longer side, and along the other
\* at the nearest column.
FlatPlace(p, k, x1, y1, d) ==
    \E m \in Int : /\ Nearest(d.dx, d.dy, k, m)
                   /\ p = FlatAt(x1 + d.sx * k, y1 + d.sy * m, d.dx, d.dy, k, m)

SteepPlace(p, k, x1, y1, d) ==
    \E m \in Int : /\ Nearest(d.dy, d.dx, k, m)
                   /\ p = SteepAt(x1 + d.sx * m, y1 + d.sy * k, d.dy, d.dx, k, m)

LEMMA FlatPath ==
    ASSUME NEW x1 \in Int, NEW y1 \in Int, NEW d, d.dx \in Nat, d.dx > 0, d.dy \in 0 .. d.dx,
           d.sx \in Int, d.sy \in Int, NEW at, Loop(at, x1, y1, d), NEW k \in 0 .. d.dx
    PROVE  FlatPlace(at[k], k, x1, y1, d)
  <1>1. PICK A \in Nat, B \in Nat : A = d.dx /\ B = d.dy /\ A > 0 /\ B \in 0 .. A
    OBVIOUS
  <1>2. PICK sx, sy \in Int : sx = d.sx /\ sy = d.sy
    OBVIOUS
  <1> DEFINE Good == {n \in Nat : n <= A => FlatPlace(at[n], n, x1, y1, d)}
  <1>3. 0 \in Good
    <2>1. at[0] = FlatAt(x1 + d.sx * 0, y1 + d.sy * 0, d.dx, d.dy, 0, 0)
      BY <1>1, <1>2 DEF Loop, FlatAt
    <2>2. 0 \in Int /\ Nearest(d.dx, d.dy, 0, 0)
      BY <1>1 DEF Nearest
    <2>3. FlatPlace(at[0], 0, x1, y1, d)
      BY <2>1, <2>2, Zenon DEF FlatPlace
    <2>4. QED
      BY <2>3
  <1>4. ASSUME NEW n \in Good PROVE n + 1 \in Good
    <2> SUFFICES ASSUME n + 1 <= A PROVE FlatPlace(at[n + 1], n + 1, x1, y1, d)
      OBVIOUS
    <2>1. n \in Nat /\ n \in 0 .. A /\ n \in 0 .. d.dx + d.dy
      BY <1>1
    <2>2. PICK m \in Int : /\ Nearest(A, B, n, m)
                           /\ at[n] = FlatAt(x1 + sx * n, y1 + sy * m, A, B, n, m)
      <3>1. FlatPlace(at[n], n, x1, y1, d)
        BY <2>1
      <3>2. QED
        BY <1>1, <1>2, <3>1 DEF FlatPlace
    <2>3. at[n + 1] = LineStep(at[n], d)
      BY <2>1 DEF Loop
    <2>4. (x1 + sx * n) + sx = x1 + sx * (n + 1) /\ (y1 + sy * m) + sy = y1 + sy * (m + 1)
      BY <2>1
    <2>5. LineStep(FlatAt(x1 + sx * n, y1 + sy * m, A, B, n, m), d) =
              IF Turns(A, B, n, m)
              THEN FlatAt((x1 + sx * n) + sx, (y1 + sy * m) + sy, A, B, n + 1, m + 1)
              ELSE FlatAt((x1 + sx * n) + sx, y1 + sy * m, A, B, n + 1, m)
      <3>1. PICK x, y : x = x1 + sx * n /\ y = y1 + sy * m
        OBVIOUS
      <3>2. LineStep(FlatAt(x, y, A, B, n, m), d) =
                IF Turns(A, B, n, m) THEN FlatAt(x + d.sx, y + d.sy, A, B, n + 1, m + 1)
                ELSE FlatAt(x + d.sx, y, A, B, n + 1, m)
        BY <1>1, <2>1, <2>2, FlatStep
      <3>3. QED
        BY <1>2, <3>1, <3>2
    <2>6. CASE Turns(A, B, n, m)
      <3>1. m + 1 \in Int /\ Nearest(A, B, n + 1, m + 1)
        BY <1>1, <2>1, <2>2, <2>6, NearestNext
      <3>2. at[n + 1] = FlatAt(x1 + sx * (n + 1), y1 + sy * (m + 1), A, B, n + 1, m + 1)
        BY <2>2, <2>3, <2>4, <2>5, <2>6
      <3>3. QED
        BY <1>1, <1>2, <3>1, <3>2 DEF FlatPlace
    <2>7. CASE ~Turns(A, B, n, m)
      <3>1. Nearest(A, B, n + 1, m)
        BY <1>1, <2>1, <2>2, <2>7, NearestNext
      <3>2. at[n + 1] = FlatAt(x1 + sx * (n + 1), y1 + sy * m, A, B, n + 1, m)
        BY <2>2, <2>3, <2>4, <2>5, <2>7
      <3>3. QED
        BY <1>1, <1>2, <3>1, <3>2 DEF FlatPlace
    <2>8. QED
      BY <2>6, <2>7
  <1>5. Good = Nat
    <2> HIDE DEF Good
    <2>1. Good \subseteq Nat
      BY DEF Good
    <2>2. QED
      BY <1>3, <1>4, <2>1, FromZero
  <1>6. k \in Good
    BY <1>1, <1>5
  <1>7. QED
    BY <1>1, <1>6

LEMMA SteepPath ==
    ASSUME NEW x1 \in Int, NEW y1 \in Int, NEW d, d.dy \in Nat, d.dx \in 0 .. d.dy - 1,
           d.sx \in Int, d.sy \in Int, NEW at, Loop(at, x1, y1, d), NEW k \in 0 .. d.dy
    PROVE  SteepPlace(at[k], k, x1, y1, d)
  <1>1. PICK A \in Nat, B \in Nat : A = d.dy /\ B = d.dx /\ A > 0 /\ B \in 0 .. A - 1
    OBVIOUS
  <1>2. PICK sx, sy \in Int : sx = d.sx /\ sy = d.sy
    OBVIOUS
  <1> DEFINE Good == {n \in Nat : n <= A => SteepPlace(at[n], n, x1, y1, d)}
  <1>3. 0 \in Good
    <2>1. at[0] = SteepAt(x1 + d.sx * 0, y1 + d.sy * 0, d.dy, d.dx, 0, 0)
      BY <1>1, <1>2 DEF Loop, SteepAt
    <2>2. 0 \in Int /\ Nearest(d.dy, d.dx, 0, 0)
      BY <1>1 DEF Nearest
    <2>3. SteepPlace(at[0], 0, x1, y1, d)
      BY <2>1, <2>2, Zenon DEF SteepPlace
    <2>4. QED
      BY <2>3
  <1>4. ASSUME NEW n \in Good PROVE n + 1 \in Good
    <2> SUFFICES ASSUME n + 1 <= A PROVE SteepPlace(at[n + 1], n + 1, x1, y1, d)
      OBVIOUS
    <2>1. n \in Nat /\ n \in 0 .. A /\ n \in 0 .. d.dx + d.dy
      BY <1>1
    <2>2. PICK m \in Int : /\ Nearest(A, B, n, m)
                           /\ at[n] = SteepAt(x1 + sx * m, y1 + sy * n, A, B, n, m)
      <3>1. SteepPlace(at[n], n, x1, y1, d)
        BY <2>1
      <3>2. QED
        BY <1>1, <1>2, <3>1 DEF SteepPlace
    <2>3. at[n + 1] = LineStep(at[n], d)
      BY <2>1 DEF Loop
    <2>4. (x1 + sx * m) + sx = x1 + sx * (m + 1) /\ (y1 + sy * n) + sy = y1 + sy * (n + 1)
      BY <2>1
    <2>5. LineStep(SteepAt(x1 + sx * m, y1 + sy * n, A, B, n, m), d) =
              IF Turns(A, B, n, m)
              THEN SteepAt((x1 + sx * m) + sx, (y1 + sy * n) + sy, A, B, n + 1, m + 1)
              ELSE SteepAt(x1 + sx * m, (y1 + sy * n) + sy, A, B, n + 1, m)
      <3>1. PICK x, y : x = x1 + sx * m /\ y = y1 + sy * n
        OBVIOUS
      <3>2. LineStep(SteepAt(x, y, A, B, n, m), d) =
                IF Turns(A, B, n, m) THEN SteepAt(x + d.sx, y + d.sy, A, B, n + 1, m + 1)
                ELSE SteepAt(x, y + d.sy, A, B, n + 1, m)
        BY <1>1, <2>1, <2>2, SteepStep
      <3>3. QED
        BY <1>2, <3>1, <3>2
    <2>6. CASE Turns(A, B, n, m)
      <3>1. m + 1 \in Int /\ Nearest(A, B, n + 1, m + 1)
        BY <1>1, <2>1, <2>2, <2>6, NearestNext
      <3>2. at[n + 1] = SteepAt(x1 + sx * (m + 1), y1 + sy * (n + 1), A, B, n + 1, m + 1)
        BY <2>2, <2>3, <2>4, <2>5, <2>6
      <3>3. QED
        BY <1>1, <1>2, <3>1, <3>2 DEF SteepPlace
    <2>7. CASE ~Turns(A, B, n, m)
      <3>1. Nearest(A, B, n + 1, m)
        BY <1>1, <2>1, <2>2, <2>7, NearestNext
      <3>2. at[n + 1] = SteepAt(x1 + sx * m, y1 + sy * (n + 1), A, B, n + 1, m)
        BY <2>2, <2>3, <2>4, <2>5, <2>7
      <3>3. QED
        BY <1>1, <1>2, <3>1, <3>2 DEF SteepPlace
    <2>8. QED
      BY <2>6, <2>7
  <1>5. Good = Nat
    <2> HIDE DEF Good
    <2>1. Good \subseteq Nat
      BY DEF Good
    <2>2. QED
      BY <1>3, <1>4, <2>1, FromZero
  <1>6. k \in Good
    BY <1>1, <1>5
  <1>7. QED
    BY <1>1, <1>6

WayIs(x1, y1, x2, y2, d) ==
    /\ d.dx \in Nat /\ d.dy \in Nat /\ d.sx \in {1, -1} /\ d.sy \in {1, -1}
    /\ x2 = x1 + d.sx * d.dx /\ y2 = y1 + d.sy * d.dy

LEMMA WayFacts ==
    ASSUME NEW x1 \in Int, NEW y1 \in Int, NEW x2 \in Int, NEW y2 \in Int,
           NEW d, IsWay(d, x1, y1, x2, y2)
    PROVE  WayIs(x1, y1, x2, y2, d)
  BY DEF WayIs, IsWay, Way, Abs, Sign

\* A distance in a direction.
LEMMA OneWay ==
    ASSUME NEW x \in Int, NEW s \in {1, -1}, NEW k \in Int, NEW l \in Int,
           x + s * k = x + s * l
    PROVE  k = l
  OBVIOUS

\* What a line that is not steep draws, and what a steep one.
LEMMA FlatShape ==
    ASSUME NEW x1 \in Int, NEW y1 \in Int, NEW x2 \in Int, NEW y2 \in Int,
           NEW d, IsWay(d, x1, y1, x2, y2), d.dx > 0, d.dy <= d.dx, NEW i \in Int, NEW j \in Int
    PROVE  <<x1 + d.sx * i, y1 + d.sy * j>> \in LinePixels(x1, y1, x2, y2)
           <=> i \in 0 .. d.dx /\ Nearest(d.dx, d.dy, i, j)
  <1>0. WayIs(x1, y1, x2, y2, d)
    BY WayFacts
  <1>1. PICK A, B \in Nat : A = d.dx /\ B = d.dy /\ A > 0 /\ B \in 0 .. A
    BY <1>0 DEF WayIs
  <1>2. PICK sx, sy \in {1, -1} : /\ sx = d.sx /\ sy = d.sy
                                  /\ <<x2, y2>> = <<x1 + sx * A, y1 + sy * B>>
    BY <1>0, <1>1 DEF WayIs
  <1>3. PICK at : /\ Loop(at, x1, y1, d)
                  /\ LinePixels(x1, y1, x2, y2) = Met(at, d.dx + d.dy + 1, <<x2, y2>>)
    <2>1. \E at : LineRuns(at, x1, y1, x2, y2, d)
      BY LineLoops
    <2>2. QED
      BY <2>1 DEF LineRuns
  <1>4. ASSUME NEW k \in 0 .. A
        PROVE  \E m \in Int : /\ Nearest(A, B, k, m)
                              /\ at[k].x = x1 + sx * k /\ at[k].y = y1 + sy * m
    <2>1. FlatPlace(at[k], k, x1, y1, d)
      <3>1. d.dx \in Nat /\ d.dy \in 0 .. d.dx /\ d.sx \in Int /\ d.sy \in Int
        BY <1>1, <1>2
      <3>2. QED
        BY <1>1, <1>3, <3>1, FlatPath
    <2>2. PICK m \in Int : /\ Nearest(d.dx, d.dy, k, m)
                           /\ at[k] = FlatAt(x1 + d.sx * k, y1 + d.sy * m, d.dx, d.dy, k, m)
      BY <2>1 DEF FlatPlace
    <2>3. at[k].x = x1 + d.sx * k /\ at[k].y = y1 + d.sy * m
      BY <2>2 DEF FlatAt
    <2>4. QED
      BY <1>1, <1>2, <2>2, <2>3
  <1>5. A \in 0 .. d.dx + d.dy + 1
    BY <1>1
  <1>6. <<at[A].x, at[A].y>> = <<x2, y2>>
    <2>1. PICK m \in Int : Nearest(A, B, A, m) /\ at[A].x = x1 + sx * A /\ at[A].y = y1 + sy * m
      BY <1>1, <1>4
    <2>2. m = B
      BY <1>1, <2>1, NearestFacts
    <2>3. QED
      BY <1>2, <2>1, <2>2
  <1>7. ASSUME NEW l \in 0 .. A - 1 PROVE <<at[l].x, at[l].y>> # <<x2, y2>>
    <2>1. PICK m \in Int : at[l].x = x1 + sx * l /\ at[l].y = y1 + sy * m
      <3>1. l \in 0 .. A
        BY <1>1
      <3>2. QED
        BY <1>4, <3>1
    <2>2. x1 + sx * l # x1 + sx * A
      BY <1>1, <1>2
    <2>3. QED
      BY <1>2, <2>1, <2>2
  <1>8. LinePixels(x1, y1, x2, y2) = {<<at[k].x, at[k].y>> : k \in 0 .. A}
    <2>1. PICK n, e : n = d.dx + d.dy + 1 /\ e = <<x2, y2>>
      OBVIOUS
    <2>0. n \in Nat
      BY <1>1, <2>1
    <2>2. Met(at, n, e) = {<<at[k].x, at[k].y>> : k \in 0 .. A}
      BY <1>5, <1>6, <1>7, <2>0, <2>1, UntilEnd
    <2>3. QED
      BY <1>3, <2>1, <2>2
  <1>9. PICK x, y : x = x1 + sx * i /\ y = y1 + sy * j
    OBVIOUS
  <1>10. ASSUME <<x, y>> \in LinePixels(x1, y1, x2, y2)
         PROVE  i \in 0 .. A /\ Nearest(A, B, i, j)
    <2>1. PICK k \in 0 .. A : x = at[k].x /\ y = at[k].y
      BY <1>8, <1>10
    <2>2. PICK m \in Int : Nearest(A, B, k, m) /\ at[k].x = x1 + sx * k /\ at[k].y = y1 + sy * m
      BY <1>4
    <2>3. i = k /\ j = m
      <3>1. k \in Int /\ x1 + sx * i = x1 + sx * k /\ y1 + sy * j = y1 + sy * m
        BY <1>1, <1>9, <2>1, <2>2
      <3>2. i = k
        BY <1>2, <3>1, OneWay
      <3>3. j = m
        BY <1>2, <3>1, OneWay
      <3>4. QED
        BY <3>2, <3>3
    <2>4. QED
      BY <2>2, <2>3
  <1>11. ASSUME i \in 0 .. A, Nearest(A, B, i, j)
         PROVE  <<x, y>> \in LinePixels(x1, y1, x2, y2)
    <2>1. PICK m \in Int : Nearest(A, B, i, m) /\ at[i].x = x1 + sx * i /\ at[i].y = y1 + sy * m
      BY <1>4, <1>11
    <2>2. m = j
      BY <1>1, <1>11, <2>1, NearestFacts
    <2>3. x = at[i].x /\ y = at[i].y
      BY <1>9, <2>1, <2>2
    <2>4. QED
      BY <1>8, <1>11, <2>3
  <1>12. QED
    BY <1>1, <1>2, <1>9, <1>10, <1>11

LEMMA SteepShape ==
    ASSUME NEW x1 \in Int, NEW y1 \in Int, NEW x2 \in Int, NEW y2 \in Int,
           NEW d, IsWay(d, x1, y1, x2, y2), d.dx < d.dy, NEW i \in Int, NEW j \in Int
    PROVE  <<x1 + d.sx * i, y1 + d.sy * j>> \in LinePixels(x1, y1, x2, y2)
           <=> j \in 0 .. d.dy /\ Nearest(d.dy, d.dx, j, i)
  <1>0. WayIs(x1, y1, x2, y2, d)
    BY WayFacts
  <1>1. PICK A, B \in Nat : A = d.dy /\ B = d.dx /\ A > 0 /\ B \in 0 .. A - 1
    BY <1>0 DEF WayIs
  <1>2. PICK sx, sy \in {1, -1} : /\ sx = d.sx /\ sy = d.sy
                                  /\ <<x2, y2>> = <<x1 + sx * B, y1 + sy * A>>
    BY <1>0, <1>1 DEF WayIs
  <1>3. PICK at : /\ Loop(at, x1, y1, d)
                  /\ LinePixels(x1, y1, x2, y2) = Met(at, d.dx + d.dy + 1, <<x2, y2>>)
    <2>1. \E at : LineRuns(at, x1, y1, x2, y2, d)
      BY LineLoops
    <2>2. QED
      BY <2>1 DEF LineRuns
  <1>4. ASSUME NEW k \in 0 .. A
        PROVE  \E m \in Int : /\ Nearest(A, B, k, m)
                              /\ at[k].x = x1 + sx * m /\ at[k].y = y1 + sy * k
    <2>1. SteepPlace(at[k], k, x1, y1, d)
      <3>1. d.dy \in Nat /\ d.dx \in 0 .. d.dy - 1 /\ d.sx \in Int /\ d.sy \in Int
        BY <1>1, <1>2
      <3>2. QED
        BY <1>1, <1>3, <3>1, SteepPath
    <2>2. PICK m \in Int : /\ Nearest(d.dy, d.dx, k, m)
                           /\ at[k] = SteepAt(x1 + d.sx * m, y1 + d.sy * k, d.dy, d.dx, k, m)
      BY <2>1 DEF SteepPlace
    <2>3. at[k].x = x1 + d.sx * m /\ at[k].y = y1 + d.sy * k
      BY <2>2 DEF SteepAt
    <2>4. QED
      BY <1>1, <1>2, <2>2, <2>3
  <1>5. A \in 0 .. d.dx + d.dy + 1
    BY <1>1
  <1>6. <<at[A].x, at[A].y>> = <<x2, y2>>
    <2>1. PICK m \in Int : Nearest(A, B, A, m) /\ at[A].x = x1 + sx * m /\ at[A].y = y1 + sy * A
      BY <1>1, <1>4
    <2>2. m = B
      BY <1>1, <2>1, NearestFacts
    <2>3. QED
      BY <1>2, <2>1, <2>2
  <1>7. ASSUME NEW l \in 0 .. A - 1 PROVE <<at[l].x, at[l].y>> # <<x2, y2>>
    <2>1. PICK m \in Int : at[l].x = x1 + sx * m /\ at[l].y = y1 + sy * l
      <3>1. l \in 0 .. A
        BY <1>1
      <3>2. QED
        BY <1>4, <3>1
    <2>2. y1 + sy * l # y1 + sy * A
      BY <1>1, <1>2
    <2>3. QED
      BY <1>2, <2>1, <2>2
  <1>8. LinePixels(x1, y1, x2, y2) = {<<at[k].x, at[k].y>> : k \in 0 .. A}
    <2>1. PICK n, e : n = d.dx + d.dy + 1 /\ e = <<x2, y2>>
      OBVIOUS
    <2>0. n \in Nat
      BY <1>1, <2>1
    <2>2. Met(at, n, e) = {<<at[k].x, at[k].y>> : k \in 0 .. A}
      BY <1>5, <1>6, <1>7, <2>0, <2>1, UntilEnd
    <2>3. QED
      BY <1>3, <2>1, <2>2
  <1>9. PICK x, y : x = x1 + sx * i /\ y = y1 + sy * j
    OBVIOUS
  <1>10. ASSUME <<x, y>> \in LinePixels(x1, y1, x2, y2)
         PROVE  j \in 0 .. A /\ Nearest(A, B, j, i)
    <2>1. PICK k \in 0 .. A : x = at[k].x /\ y = at[k].y
      BY <1>8, <1>10
    <2>2. PICK m \in Int : Nearest(A, B, k, m) /\ at[k].x = x1 + sx * m /\ at[k].y = y1 + sy * k
      BY <1>4
    <2>3. j = k /\ i = m
      <3>1. k \in Int /\ x1 + sx * i = x1 + sx * m /\ y1 + sy * j = y1 + sy * k
        BY <1>1, <1>9, <2>1, <2>2
      <3>2. i = m
        BY <1>2, <3>1, OneWay
      <3>3. j = k
        BY <1>2, <3>1, OneWay
      <3>4. QED
        BY <3>2, <3>3
    <2>4. QED
      BY <2>2, <2>3
  <1>11. ASSUME j \in 0 .. A, Nearest(A, B, j, i)
         PROVE  <<x, y>> \in LinePixels(x1, y1, x2, y2)
    <2>1. PICK m \in Int : Nearest(A, B, j, m) /\ at[j].x = x1 + sx * m /\ at[j].y = y1 + sy * j
      BY <1>4, <1>11
    <2>2. m = i
      BY <1>1, <1>11, <2>1, NearestFacts
    <2>3. x = at[j].x /\ y = at[j].y
      BY <1>9, <2>1, <2>2
    <2>4. QED
      BY <1>8, <1>11, <2>3
  <1>12. QED
    BY <1>1, <1>2, <1>9, <1>10, <1>11

\* A line from a pixel to itself.
LEMMA DotShape ==
    ASSUME NEW x1 \in Int, NEW y1 \in Int, NEW x2 \in Int, NEW y2 \in Int,
           NEW d, IsWay(d, x1, y1, x2, y2), d.dx = 0, d.dy = 0
    PROVE  LinePixels(x1, y1, x2, y2) = {<<x1, y1>>}
  <1>1. x2 = x1 /\ y2 = y1
    <2>1. WayIs(x1, y1, x2, y2, d)
      BY WayFacts
    <2>2. QED
      BY <2>1 DEF WayIs
  <1>2. PICK at : /\ Loop(at, x1, y1, d)
                  /\ LinePixels(x1, y1, x2, y2) = Met(at, d.dx + d.dy + 1, <<x2, y2>>)
    <2>1. \E at : LineRuns(at, x1, y1, x2, y2, d)
      BY LineLoops
    <2>2. QED
      BY <2>1 DEF LineRuns
  <1>3. <<at[0].x, at[0].y>> = <<x2, y2>>
    BY <1>1, <1>2 DEF Loop
  <1>4. PICK n, e : n = d.dx + d.dy + 1 /\ e = <<x2, y2>>
    OBVIOUS
  <1>5. Met(at, n, e) = {<<at[k].x, at[k].y>> : k \in 0 .. 0}
    <2>1. n = 1
      BY <1>4
    <2>2. \A l \in 0 .. 0 - 1 : <<at[l].x, at[l].y>> # e
      OBVIOUS
    <2>3. QED
      BY <1>3, <1>4, <2>1, <2>2, UntilEnd
  <1>6. QED
    BY <1>1, <1>2, <1>3, <1>4, <1>5

-----------------------------------------------------------------------------
(* The pixels of a line and those of the screen.                           *)

Ends(r) == r.x1 \in Int /\ r.y1 \in Int /\ r.x2 \in Int /\ r.y2 \in Int
WayOf(r) == Way(r.x1, r.y1, r.x2, r.y2)
InBox(r, p) == Between(r.x1, p[1], r.x2) /\ Between(r.y1, p[2], r.y2)
Drawn(r) == LinePixels(r.x1, r.y1, r.x2, r.y2)

\* p is i steps along x and j along y from the start of the line.
Place(r, p, i, j) ==
    LET d == WayOf(r)
    IN  /\ p = <<r.x1 + d.sx * i, r.y1 + d.sy * j>>
        /\ InBox(r, p) <=> i \in 0 .. d.dx /\ j \in 0 .. d.dy
        /\ Off(r, p) = 2 * Abs(j * d.dx - i * d.dy)
        /\ Off(r, p) = 2 * Abs(i * d.dy - j * d.dx)

\* x is i steps from a on the way to b.
Along(a, b, x, i) ==
    /\ x = a + Sign(a, b) * i /\ x - a = Sign(a, b) * i
    /\ b - a = Sign(a, b) * Abs(b - a)
    /\ Between(a, x, b) <=> i \in 0 .. Abs(b - a)

LEMMA AlongAxis ==
    ASSUME NEW a \in Int, NEW b \in Int, NEW x \in Int
    PROVE  \E i \in Int : Along(a, b, x, i)
  <1>1. CASE a < b
    <2>1. Sign(a, b) = 1 /\ Abs(b - a) = b - a
      BY <1>1 DEF Sign, Abs
    <2>2. PICK i \in Int : i = x - a
      OBVIOUS
    <2>3. Between(a, x, b) <=> i \in 0 .. b - a
      BY <1>1, <2>2 DEF Between
    <2>4. x = a + 1 * i /\ x - a = 1 * i /\ b - a = 1 * (b - a)
      BY <2>2
    <2>5. QED
      BY <2>1, <2>3, <2>4 DEF Along
  <1>2. CASE ~(a < b)
    <2>1. Sign(a, b) = -1 /\ Abs(b - a) = a - b
      BY <1>2 DEF Sign, Abs
    <2>2. PICK i \in Int : i = a - x
      OBVIOUS
    <2>3. Between(a, x, b) <=> i \in 0 .. a - b
      BY <1>2, <2>2 DEF Between
    <2>4. x = a + (-1) * i /\ x - a = (-1) * i /\ b - a = (-1) * (a - b)
      BY <2>2
    <2>5. QED
      BY <2>1, <2>3, <2>4 DEF Along
  <1>3. QED
    BY <1>1, <1>2

LEMMA PlaceExists ==
    ASSUME NEW r, Ends(r), NEW p \in Int \X Int
    PROVE  \E i, j \in Int : Place(r, p, i, j)
  <1>1. PICK x, y \in Int : p = <<x, y>> /\ p[1] = x /\ p[2] = y
    OBVIOUS
  <1>2. PICK a, b, e, f \in Int : a = r.x1 /\ b = r.x2 /\ e = r.y1 /\ f = r.y2
    BY DEF Ends
  <1>3. PICK d : d = WayOf(r)
    OBVIOUS
  <1>4. d.dx = Abs(b - a) /\ d.dy = Abs(f - e) /\ d.sx = Sign(a, b) /\ d.sy = Sign(e, f)
    BY <1>2, <1>3 DEF WayOf, Way
  <1>5. d.dx \in Nat /\ d.dy \in Nat /\ d.sx \in {1, -1} /\ d.sy \in {1, -1}
    BY <1>2, <1>4 DEF Abs, Sign
  <1>6. PICK i \in Int : /\ x = a + d.sx * i /\ x - a = d.sx * i /\ b - a = d.sx * d.dx
                         /\ Between(a, x, b) <=> i \in 0 .. d.dx
    <2>1. PICK k \in Int : Along(a, b, x, k)
      BY <1>1, AlongAxis
    <2>2. QED
      BY <1>4, <2>1 DEF Along
  <1>7. PICK j \in Int : /\ y = e + d.sy * j /\ y - e = d.sy * j /\ f - e = d.sy * d.dy
                         /\ Between(e, y, f) <=> j \in 0 .. d.dy
    <2>1. PICK k \in Int : Along(e, f, y, k)
      BY <1>1, AlongAxis
    <2>2. QED
      BY <1>4, <2>1 DEF Along
  <1>8. PICK g, h \in Nat, u, v \in {1, -1} : g = d.dx /\ h = d.dy /\ u = d.sx /\ v = d.sy
    BY <1>5
  <1>9. PICK t \in Int : t = j * g - i * h
    OBVIOUS
  <1>10. PICK n \in Int : n = (y - e) * (b - a) - (x - a) * (f - e)
    BY <1>1, <1>2
  <1>11. n = t \/ n = -t
    <2>1. n = (v * j) * (u * g) - (u * i) * (v * h)
      BY <1>6, <1>7, <1>8, <1>10
    <2>2. PICK k, l \in Int : k = j * g /\ l = i * h
      OBVIOUS
    <2>3. CASE u = 1 /\ v = 1
      BY <1>9, <2>1, <2>3
    <2>4. CASE u = -1 /\ v = -1
      <3>1. ((-1) * j) * ((-1) * g) = k /\ ((-1) * i) * ((-1) * h) = l
        BY <2>2
      <3>2. QED
        BY <1>9, <2>1, <2>2, <2>4, <3>1
    <2>5. CASE u = 1 /\ v = -1
      <3>1. ((-1) * j) * (1 * g) = -k /\ (1 * i) * ((-1) * h) = -l
        BY <2>2
      <3>2. QED
        BY <1>9, <2>1, <2>2, <2>5, <3>1
    <2>6. CASE u = -1 /\ v = 1
      <3>1. (1 * j) * ((-1) * g) = -k /\ ((-1) * i) * (1 * h) = -l
        BY <2>2
      <3>2. QED
        BY <1>9, <2>1, <2>2, <2>6, <3>1
    <2>7. QED
      BY <2>3, <2>4, <2>5, <2>6
  <1>12. Abs(n) = Abs(t) /\ Abs(i * h - j * g) = Abs(t)
    <2>1. PICK k, l \in Int : k = j * g /\ l = i * h
      OBVIOUS
    <2>2. i * h - j * g = -t
      BY <1>9, <2>1
    <2>3. QED
      BY <1>11, <2>2 DEF Abs
  <1>13. Off(r, p) = 2 * Abs(n)
    BY <1>1, <1>2, <1>10 DEF Off
  <1>14. Off(r, p) = 2 * Abs(j * g - i * h) /\ Off(r, p) = 2 * Abs(i * h - j * g)
    BY <1>9, <1>12, <1>13
  <1>15. InBox(r, p) <=> i \in 0 .. d.dx /\ j \in 0 .. d.dy
    BY <1>1, <1>2, <1>6, <1>7 DEF InBox
  <1>16. Place(r, p, i, j)
    BY <1>1, <1>2, <1>3, <1>6, <1>7, <1>8, <1>14, <1>15 DEF Place
  <1>17. QED
    BY <1>16

\* Where the pixels of a line are, by its shape.
LEMMA DrawnWhere ==
    ASSUME NEW r, Ends(r), NEW p, NEW i \in Int, NEW j \in Int, Place(r, p, i, j)
    PROVE  LET d == WayOf(r)
           IN  /\ d.dx > 0 /\ d.dy <= d.dx =>
                     (p \in Drawn(r) <=> i \in 0 .. d.dx /\ Nearest(d.dx, d.dy, i, j))
               /\ d.dx < d.dy =>
                     (p \in Drawn(r) <=> j \in 0 .. d.dy /\ Nearest(d.dy, d.dx, j, i))
               /\ d.dx = 0 /\ d.dy = 0 => (p \in Drawn(r) <=> i = 0 /\ j = 0)
  <1>1. PICK a, b, e, f \in Int : a = r.x1 /\ b = r.x2 /\ e = r.y1 /\ f = r.y2
    BY DEF Ends
  <1>2. PICK d : d = Way(a, e, b, f) /\ d = WayOf(r)
    BY <1>1 DEF WayOf
  <1>0. IsWay(d, a, e, b, f)
    BY <1>2 DEF IsWay
  <1>3. p = <<a + d.sx * i, e + d.sy * j>>
    BY <1>1, <1>2 DEF Place
  <1>4. Drawn(r) = LinePixels(a, e, b, f)
    BY <1>1 DEF Drawn
  <1>5. d.dx > 0 /\ d.dy <= d.dx =>
            (p \in Drawn(r) <=> i \in 0 .. d.dx /\ Nearest(d.dx, d.dy, i, j))
    BY <1>0, <1>3, <1>4, FlatShape
  <1>6. d.dx < d.dy => (p \in Drawn(r) <=> j \in 0 .. d.dy /\ Nearest(d.dy, d.dx, j, i))
    BY <1>0, <1>3, <1>4, SteepShape
  <1>7. ASSUME d.dx = 0, d.dy = 0 PROVE p \in Drawn(r) <=> i = 0 /\ j = 0
    <2>1. Drawn(r) = {<<a, e>>}
      BY <1>0, <1>4, <1>7, DotShape
    <2>2. d.sx \in {1, -1} /\ d.sy \in {1, -1}
      <3>1. WayIs(a, e, b, f, d)
        BY <1>0, WayFacts
      <3>2. QED
        BY <3>1 DEF WayIs
    <2>3. a + d.sx * i = a <=> i = 0
      BY <2>2
    <2>4. e + d.sy * j = e <=> j = 0
      BY <2>2
    <2>5. QED
      BY <1>3, <2>1, <2>3, <2>4
  <1>8. QED
    BY <1>2, <1>5, <1>6, <1>7

\* A line draws what is nearer to it than half a pixel, within the box of its ends, and
\* nothing that is farther away.
LEMMA LineNear ==
    ASSUME NEW r, Ends(r), NEW p \in Int \X Int
    PROVE  /\ InBox(r, p) /\ (Off(r, p) = 0 \/ Off(r, p) < Longer(r)) => p \in Drawn(r)
           /\ ~InBox(r, p) \/ Off(r, p) > Longer(r) => p \notin Drawn(r)
  <1>1. PICK i, j \in Int : Place(r, p, i, j)
    BY PlaceExists
  <1>2. PICK d : d = WayOf(r)
    OBVIOUS
  <1>3. PICK A, B \in Nat : A = d.dx /\ B = d.dy
    BY <1>2 DEF WayOf, Way, Ends, Abs
  <1>4. Longer(r) = IF A >= B THEN A ELSE B
    BY <1>2, <1>3 DEF WayOf, Way, Longer
  <1>5. InBox(r, p) <=> i \in 0 .. A /\ j \in 0 .. B
    BY <1>1, <1>2, <1>3 DEF Place
  <1>6. Off(r, p) = 2 * Abs(j * A - i * B) /\ Off(r, p) = 2 * Abs(i * B - j * A)
    BY <1>1, <1>2, <1>3 DEF Place
  <1>7. CASE A > 0 /\ B <= A
    <2>1. p \in Drawn(r) <=> i \in 0 .. A /\ Nearest(A, B, i, j)
      BY <1>1, <1>2, <1>3, <1>7, DrawnWhere
    <2>2. /\ Nearest(A, B, i, j) => Off(r, p) <= A
          /\ Off(r, p) < A => Nearest(A, B, i, j)
      <3>0. A > 0 /\ B \in 0 .. A
        BY <1>7
      <3>1. Off(r, p) = Gap(A, B, i, j)
        BY <1>6 DEF Gap
      <3>2. QED
        BY <1>7, <3>1, <3>0, NearestMeans
    <2>3. i \in 0 .. A /\ Nearest(A, B, i, j) => j \in 0 .. B
      BY <1>7, NearestFacts
    <2>4. PICK o \in Int : o = Off(r, p)
      BY <1>6 DEF Abs
    <2>5. QED
      BY <1>4, <1>5, <1>6, <1>7, <2>1, <2>2, <2>3, <2>4
  <1>8. CASE A < B
    <2>1. p \in Drawn(r) <=> j \in 0 .. B /\ Nearest(B, A, j, i)
      BY <1>1, <1>2, <1>3, <1>8, DrawnWhere
    <2>2. /\ Nearest(B, A, j, i) => Off(r, p) <= B
          /\ Off(r, p) < B => Nearest(B, A, j, i)
      <3>0. B > 0 /\ A \in 0 .. B
        BY <1>8
      <3>1. Off(r, p) = Gap(B, A, j, i)
        BY <1>6 DEF Gap
      <3>2. QED
        BY <1>8, <3>1, <3>0, NearestMeans
    <2>3. j \in 0 .. B /\ Nearest(B, A, j, i) => i \in 0 .. A
      BY <1>8, NearestFacts
    <2>4. PICK o \in Int : o = Off(r, p)
      BY <1>6 DEF Abs
    <2>5. QED
      BY <1>4, <1>5, <1>6, <1>8, <2>1, <2>2, <2>3, <2>4
  <1>9. CASE A = 0 /\ B = 0
    <2>1. p \in Drawn(r) <=> i = 0 /\ j = 0
      BY <1>1, <1>2, <1>3, <1>9, DrawnWhere
    <2>2. Off(r, p) = 0
      <3>1. j * A - i * B = 0
        BY <1>9
      <3>2. QED
        BY <1>6, <3>1 DEF Abs
    <2>3. QED
      BY <1>4, <1>5, <1>9, <2>1, <2>2
  <1>10. QED
    BY <1>7, <1>8, <1>9

\* Of two pixels that are half a pixel away, on either side, it draws one.
LEMMA LineTwins ==
    ASSUME NEW r, Ends(r), NEW p \in Int \X Int, NEW q \in Int \X Int, q # p,
           InBox(r, p), Longer(r) # 0, Off(r, p) = Longer(r), Off(r, q) = Longer(r),
           IF Abs(r.x2 - r.x1) >= Abs(r.y2 - r.y1) THEN p[1] = q[1] ELSE p[2] = q[2]
    PROVE  q \in Drawn(r) <=> p \notin Drawn(r)
  <1>1. PICK i, j \in Int : Place(r, p, i, j)
    BY PlaceExists
  <1>2. PICK k, l \in Int : Place(r, q, k, l)
    BY PlaceExists
  <1>3. PICK d : d = WayOf(r)
    OBVIOUS
  <1>4. PICK A, B \in Nat : A = d.dx /\ B = d.dy
    BY <1>3 DEF WayOf, Way, Ends, Abs
  <1>5. /\ Longer(r) = IF A >= B THEN A ELSE B
        /\ IF A >= B THEN p[1] = q[1] ELSE p[2] = q[2]
    BY <1>3, <1>4 DEF WayOf, Way, Longer
  <1>6. i \in 0 .. A /\ j \in 0 .. B
    BY <1>1, <1>3, <1>4 DEF Place
  <1>7. /\ Longer(r) = 2 * Abs(j * A - i * B) /\ Longer(r) = 2 * Abs(i * B - j * A)
        /\ Longer(r) = 2 * Abs(l * A - k * B) /\ Longer(r) = 2 * Abs(k * B - l * A)
    BY <1>1, <1>2, <1>3, <1>4 DEF Place
  <1>8. PICK a, e \in Int : a = r.x1 /\ e = r.y1
    BY DEF Ends
  <1>9. PICK u, v \in {1, -1} : u = d.sx /\ v = d.sy
    BY <1>3 DEF WayOf, Way, Sign
  <1>10. p = <<a + u * i, e + v * j>> /\ q = <<a + u * k, e + v * l>>
    BY <1>1, <1>2, <1>3, <1>8, <1>9 DEF Place
  <1>11. CASE A >= B
    <2>1. A > 0 /\ Longer(r) = A
      BY <1>5, <1>11
    <2>2. a + u * i = a + u * k
      BY <1>5, <1>10, <1>11
    <2>3. i = k
      BY <1>8, <1>9, <2>2, OneWay
    <2>4. l # j
      BY <1>10, <2>3
    <2>5. Nearest(A, B, i, l) <=> ~Nearest(A, B, i, j)
      <3>0. A > 0 /\ B \in 0 .. A
        BY <1>11, <2>1
      <3>1. Gap(A, B, i, j) = A /\ Gap(A, B, i, l) = A
        BY <1>7, <2>1, <2>3 DEF Gap
      <3>2. QED
        BY <1>11, <2>1, <2>4, <3>1, <3>0, NearestOfTwo
    <2>6. p \in Drawn(r) <=> i \in 0 .. A /\ Nearest(A, B, i, j)
      BY <1>1, <1>3, <1>4, <1>11, <2>1, DrawnWhere
    <2>7. q \in Drawn(r) <=> k \in 0 .. A /\ Nearest(A, B, k, l)
      BY <1>2, <1>3, <1>4, <1>11, <2>1, DrawnWhere
    <2>8. QED
      BY <1>6, <2>3, <2>5, <2>6, <2>7
  <1>12. CASE A < B
    <2>1. B > 0 /\ Longer(r) = B
      BY <1>5, <1>12
    <2>2. e + v * j = e + v * l
      BY <1>5, <1>10, <1>12
    <2>3. j = l
      BY <1>8, <1>9, <2>2, OneWay
    <2>4. k # i
      BY <1>10, <2>3
    <2>5. Nearest(B, A, j, k) <=> ~Nearest(B, A, j, i)
      <3>0. B > 0 /\ A \in 0 .. B
        BY <1>12
      <3>1. Gap(B, A, j, i) = B /\ Gap(B, A, j, k) = B
        BY <1>7, <2>1, <2>3 DEF Gap
      <3>2. QED
        BY <1>12, <2>1, <2>4, <3>1, <3>0, NearestOfTwo
    <2>6. p \in Drawn(r) <=> j \in 0 .. B /\ Nearest(B, A, j, i)
      BY <1>1, <1>3, <1>4, <1>12, DrawnWhere
    <2>7. q \in Drawn(r) <=> l \in 0 .. B /\ Nearest(B, A, l, k)
      BY <1>2, <1>3, <1>4, <1>12, DrawnWhere
    <2>8. QED
      BY <1>6, <2>3, <2>5, <2>6, <2>7
  <1>13. QED
    BY <1>11, <1>12

\* The pixels of a line are pairs of numbers.
LEMMA DrawnType ==
    ASSUME NEW x1 \in Int, NEW y1 \in Int, NEW x2 \in Int, NEW y2 \in Int,
           NEW d, IsWay(d, x1, y1, x2, y2)
    PROVE  LinePixels(x1, y1, x2, y2) \subseteq Int \X Int
  <1>1. d = Way(x1, y1, x2, y2)
    BY DEF IsWay
  <1>2. PICK at : /\ Loop(at, x1, y1, d)
                  /\ LinePixels(x1, y1, x2, y2) = Met(at, d.dx + d.dy + 1, <<x2, y2>>)
    <2>1. \E at : LineRuns(at, x1, y1, x2, y2, d)
      BY LineLoops
    <2>2. QED
      BY <2>1 DEF LineRuns
  <1>3. d.dx \in Nat /\ d.dy \in Nat /\ d.sx \in {1, -1} /\ d.sy \in {1, -1}
    BY <1>1 DEF Way, Abs, Sign
  <1>4. PICK n \in Nat : n = d.dx + d.dy + 1
    BY <1>3
  <1> DEFINE Good == {k \in Nat : k <= n =>
                         at[k].x \in Int /\ at[k].y \in Int /\ at[k].err \in Int}
  <1>5. 0 \in Good
    BY <1>2, <1>3 DEF Loop
  <1>6. ASSUME NEW k \in Good PROVE k + 1 \in Good
    <2> SUFFICES ASSUME k + 1 <= n
                 PROVE  at[k + 1].x \in Int /\ at[k + 1].y \in Int /\ at[k + 1].err \in Int
      OBVIOUS
    <2>1. at[k].x \in Int /\ at[k].y \in Int /\ at[k].err \in Int
      OBVIOUS
    <2>2. k \in 0 .. d.dx + d.dy
      BY <1>3, <1>4
    <2>3. at[k + 1] = LineStep(at[k], d)
      BY <1>2, <2>2 DEF Loop
    <2>4. QED
      BY <1>3, <2>1, <2>3 DEF LineStep
  <1>7. Good = Nat
    <2> HIDE DEF Good
    <2>1. Good \subseteq Nat
      BY DEF Good
    <2>2. QED
      BY <1>5, <1>6, <2>1, FromZero
  <1>8. \A k \in 0 .. n : <<at[k].x, at[k].y>> \in Int \X Int
    BY <1>7
  <1>9. Met(at, n, <<x2, y2>>) \subseteq Int \X Int
    BY <1>8 DEF Met
  <1>10. QED
    BY <1>2, <1>4, <1>9

-----------------------------------------------------------------------------
(* The calls.                                                              *)

LEMMA LineIsShown ==
    ASSUME NEW r, Ends(r), NEW picture, picture = [p \in Drawn(r) |-> Ink],
           PictureShown(picture)
    PROVE  LineShown(r)
  <1>1. ASSUME NEW p \in Screen
        PROVE  /\ p \in Int \X Int
               /\ IF p \in Drawn(r) THEN Shows(memory', p, Ink) ELSE Same(p)
    <2>1. ScreenWidth \in Nat /\ ScreenHeight \in Nat
      BY DrawingAssumption
    <2>2. p \in Int \X Int
      BY <2>1 DEF Screen
    <2>3. QED
      BY <2>2 DEF PictureShown
  <1>2. ASSUME NEW p \in Screen, NEW q \in Screen \ {p}, InBox(r, p),
               Off(r, p) = Longer(r), Longer(r) # 0, Off(r, q) = Longer(r),
               IF Abs(r.x2 - r.x1) >= Abs(r.y2 - r.y1) THEN p[1] = q[1] ELSE p[2] = q[2]
        PROVE  \/ Shows(memory', p, Ink) /\ Same(q)
               \/ Same(p) /\ Shows(memory', q, Ink)
    <2>1. p \in Int \X Int /\ q \in Int \X Int /\ q # p
      BY <1>1
    <2>2. q \in Drawn(r) <=> p \notin Drawn(r)
      BY <1>2, <2>1, LineTwins
    <2>3. QED
      BY <1>1, <2>2
  <1>3. ASSUME NEW p \in Screen
        PROVE  /\ InBox(r, p) /\ (Off(r, p) = 0 \/ Off(r, p) < Longer(r)) =>
                      Shows(memory', p, Ink)
               /\ ~InBox(r, p) \/ Off(r, p) > Longer(r) => Same(p)
               /\ Shows(memory', p, Ink) \/ Same(p)
    BY <1>1, LineNear
  <1>4. QED
    BY <1>2, <1>3 DEF LineShown, InBox

\* A picture of all the pixels of an area.
LEMMA AreaIsShown ==
    ASSUME NEW r, r.x \in Int, r.y \in Int, r.width \in Int, r.height \in Int,
           NEW color, NEW picture, PictureShown(picture),
           DOMAIN picture = Area(r.x, r.y, r.width, r.height),
           \A p \in DOMAIN picture : picture[p] = color[<<p[1] - r.x, p[2] - r.y>>]
    PROVE  RectangleShown(r, color)
  <1>1. ASSUME NEW p \in Screen
        PROVE  p \in DOMAIN picture <=> /\ p[1] \in r.x .. r.x + r.width - 1
                                        /\ p[2] \in r.y .. r.y + r.height - 1
    BY DEF Screen, Area
  <1>2. QED
    BY <1>1 DEF RectangleShown, PictureShown

\* Nothing but pixels of the screen changes.
LEMMA NothingElse ==
    ASSUME NEW picture, PictureShown(picture)
    PROVE  /\ DOMAIN memory' = FramebufferBytes
           /\ \A a \in FramebufferBytes \ UNION {PixelBytes(p[1], p[2]) : p \in Screen} :
                 memory'[a] = memory[a]
  BY DEF PictureShown, ByteOf

LEMMA LineCall ==
    ASSUME DrawingInv, NEW x1 \in Xs, NEW x2 \in Xs, NEW y1 \in Ys, NEW y2 \in Ys,
           GpuDrawLine(x1, y1, x2, y2)
    PROVE  AsAsked(asked')
  <1>1. PICK r : r = [kind |-> "line", x1 |-> x1, y1 |-> y1, x2 |-> x2, y2 |-> y2]
    OBVIOUS
  <1>2. asked' = r
    BY <1>1 DEF GpuDrawLine, Asks
  <1>3. /\ r.kind = "line" /\ r.x1 = x1 /\ r.y1 = y1 /\ r.x2 = x2 /\ r.y2 = y2
    BY <1>1
  <1>4. Ends(r)
    BY <1>3, DrawingAssumption DEF Ends
  <1>5. PICK picture : picture = [p \in Drawn(r) |-> Ink]
    OBVIOUS
  <1>6. Draw(picture)
    BY <1>3, <1>5 DEF GpuDrawLine, Drawn
  <1>7. PictureShown(picture)
    <2>1. IsPicture(picture)
      <3>1. Drawn(r) \subseteq Int \X Int
        <4>1. IsWay(WayOf(r), r.x1, r.y1, r.x2, r.y2)
          BY DEF IsWay, WayOf
        <4>2. QED
          BY <1>4, <4>1, DrawnType DEF Drawn, Ends
      <3>2. QED
        BY <1>5, <3>1 DEF IsPicture
    <2>2. QED
      BY <1>6, <2>1, DrawShows
  <1>8. LineShown(r)
    BY <1>4, <1>5, <1>7, LineIsShown
  <1>9. r.kind # "rectangle" /\ r.kind # "blit"
    BY <1>3
  <1>10. AsAsked(r)
    BY <1>7, <1>8, <1>9, NothingElse DEF AsAsked
  <1>11. QED
    BY <1>2, <1>10

LEMMA RectangleCall ==
    ASSUME DrawingInv, NEW x \in Xs, NEW y \in Ys, NEW width \in Extents,
           NEW height \in Extents, GpuDrawRectangle(x, y, width, height)
    PROVE  AsAsked(asked')
  <1>1. PICK r : r = [kind |-> "rectangle", x |-> x, y |-> y, width |-> width,
                      height |-> height]
    OBVIOUS
  <1>2. asked' = r
    BY <1>1 DEF GpuDrawRectangle, Asks
  <1>3. /\ r.kind = "rectangle" /\ r.x = x /\ r.y = y /\ r.width = width
        /\ r.height = height
    BY <1>1
  <1>4. x \in Int /\ y \in Int /\ width \in Int /\ height \in Int
    BY DrawingAssumption
  <1>5. PICK picture : picture = [p \in Area(x, y, width, height) |-> Ink]
    OBVIOUS
  <1>6. Draw(picture)
    BY <1>5 DEF GpuDrawRectangle
  <1>7. PictureShown(picture)
    <2>1. IsPicture(picture)
      BY <1>4, <1>5 DEF IsPicture, Area
    <2>2. QED
      BY <1>6, <2>1, DrawShows
  <1>8. PICK color : color = [at \in Area(0, 0, r.width, r.height) |-> Ink]
    OBVIOUS
  <1>9. ASSUME NEW p \in DOMAIN picture
        PROVE  picture[p] = color[<<p[1] - r.x, p[2] - r.y>>]
    <2>1. p \in Area(x, y, width, height) /\ picture[p] = Ink
      BY <1>5
    <2>2. <<p[1] - x, p[2] - y>> \in Area(0, 0, width, height)
      BY <1>4, <2>1 DEF Area
    <2>3. QED
      BY <1>3, <1>8, <2>1, <2>2
  <1>10. RectangleShown(r, color)
    BY <1>3, <1>4, <1>5, <1>7, <1>9, AreaIsShown
  <1>11. r.kind # "line" /\ r.kind # "blit"
    BY <1>3
  <1>12. AsAsked(r)
    BY <1>7, <1>8, <1>10, <1>11, NothingElse DEF AsAsked
  <1>13. QED
    BY <1>2, <1>12

LEMMA BlitCall ==
    ASSUME DrawingInv, NEW x \in Xs, NEW y \in Ys, NEW width \in Extents,
           NEW height \in Extents, NEW sx \in 0 .. SourceWidth - width,
           NEW sy \in 0 .. SourceHeight - height, GpuBlitBuffer(sx, sy, x, y, width, height)
    PROVE  AsAsked(asked')
  <1>1. PICK r : r = [kind |-> "blit", sx |-> sx, sy |-> sy, x |-> x, y |-> y,
                      width |-> width, height |-> height]
    OBVIOUS
  <1>2. asked' = r
    BY <1>1 DEF GpuBlitBuffer, Asks
  <1>3. /\ r.kind = "blit" /\ r.sx = sx /\ r.sy = sy /\ r.x = x /\ r.y = y
        /\ r.width = width /\ r.height = height
    BY <1>1
  <1>4. x \in Int /\ y \in Int /\ width \in Int /\ height \in Int /\ sx \in Int /\ sy \in Int
    BY DrawingAssumption
  <1>5. PICK picture : picture =
            [p \in Area(x, y, width, height) |->
                Source((sy + p[2] - y) * SourceWidth + (sx + p[1] - x))]
    OBVIOUS
  <1>6. Draw(picture)
    BY <1>5 DEF GpuBlitBuffer
  <1>7. PictureShown(picture)
    <2>1. IsPicture(picture)
      BY <1>4, <1>5 DEF IsPicture, Area
    <2>2. QED
      BY <1>6, <2>1, DrawShows
  <1>8. PICK color : color = [at \in Area(0, 0, r.width, r.height) |->
                                 Source((r.sy + at[2]) * SourceWidth + (r.sx + at[1]))]
    OBVIOUS
  <1>9. ASSUME NEW p \in DOMAIN picture
        PROVE  picture[p] = color[<<p[1] - r.x, p[2] - r.y>>]
    <2>1. /\ p \in Area(x, y, width, height)
          /\ picture[p] = Source((sy + p[2] - y) * SourceWidth + (sx + p[1] - x))
      BY <1>5
    <2>2. p[1] \in Int /\ p[2] \in Int
      BY <1>4, <2>1 DEF Area
    <2>3. PICK at : at = <<p[1] - x, p[2] - y>>
      OBVIOUS
    <2>4. at \in Area(0, 0, width, height) /\ at[1] = p[1] - x /\ at[2] = p[2] - y
      BY <1>4, <2>1, <2>3 DEF Area
    <2>5. sy + p[2] - y = sy + at[2] /\ sx + p[1] - x = sx + at[1]
      BY <1>4, <2>2, <2>4
    <2>6. color[at] = Source((sy + at[2]) * SourceWidth + (sx + at[1]))
      BY <1>3, <1>8, <2>4
    <2>7. QED
      BY <1>3, <2>1, <2>3, <2>5, <2>6
  <1>10. RectangleShown(r, color)
    BY <1>3, <1>4, <1>5, <1>7, <1>9, AreaIsShown
  <1>11. r.kind # "line" /\ r.kind # "rectangle"
    BY <1>3
  <1>12. AsAsked(r)
    BY <1>7, <1>8, <1>10, <1>11, NothingElse DEF AsAsked
  <1>13. QED
    BY <1>2, <1>12

LEMMA DrawingStep ==
    ASSUME DrawingInv, DrawingNext
    PROVE  AsAsked(asked') /\ DrawingInv'
  <1>1. AsAsked(asked')
    BY LineCall, RectangleCall, BlitCall DEF DrawingNext
  <1>2. UNCHANGED bpp
    <2>1. \A request : Asks(request) => UNCHANGED bpp
      BY DEF Asks
    <2>2. \E request : Asks(request)
      BY Zenon DEF DrawingNext, GpuDrawLine, GpuDrawRectangle, GpuBlitBuffer
    <2>3. QED
      BY <2>1, <2>2
  <1>3. DOMAIN memory' = FramebufferBytes
    BY <1>1 DEF AsAsked
  <1>4. QED
    BY <1>1, <1>2, <1>3 DEF DrawingInv, FramebufferBytes

\* gpu_draw_line, gpu_draw_rectangle and gpu_blit_buffer draw what they were asked for
\* where they were asked to, and change no other byte: on screens of any size and pitch,
\* with 24 or 32 bits, for shapes of any size, wherever they are, and after any number of
\* calls.  A line goes through the pixels nearest to it, to its end.
THEOREM AlwaysDrawnAsAsked == DrawingSpec => DrawnAsAsked
  <1>1. DrawingInit => DrawingInv
    BY DEF DrawingInit, DrawingInv
  <1>2. DrawingInv /\ [DrawingNext]_drawingVars => DrawingInv'
    BY DrawingStep DEF DrawingInv, FramebufferBytes, drawingVars
  <1>3. DrawingInv /\ [DrawingNext]_drawingVars => [AsAsked(asked')]_drawingVars
    BY DrawingStep DEF drawingVars
  <1>4. QED
    BY <1>1, <1>2, <1>3, PTL DEF DrawingSpec, DrawnAsAsked
=============================================================================
