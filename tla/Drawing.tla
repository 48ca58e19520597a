------------------------------ MODULE Drawing ------------------------------
(***************************************************************************)
(* gpu_draw_pixel, gpu_draw_rectangle, gpu_draw_line and gpu_blit_buffer   *)
(* of src/drivers/gpu/gpu_driver.c after gpu initialisation, without       *)
(* hardware acceleration: what they write into the framebuffer, byte by    *)
(* byte.  A byte holds a colour and which byte of it this is.  Coordinates *)
(* are far from the ends of int.                                           *)
(***************************************************************************)
EXTENDS Integers

CONSTANTS
    ScreenWidth, ScreenHeight, Pitch,   \* gpu_ctx.width, height, pitch
    Xs, Ys,         \* coordinates that callers pass
    Extents,        \* widths and heights that callers pass
    SourceWidth, SourceHeight,  \* of the buffer that is blitted
    MaxCalls        \* bounds the calls of a behaviour

ASSUME DrawingAssumption ==
    /\ ScreenWidth \in Nat /\ ScreenHeight \in Nat
    /\ Pitch \in Nat
    /\ SourceWidth \in Nat /\ SourceHeight \in Nat
    /\ Xs \subseteq Int /\ Ys \subseteq Int /\ Extents \subseteq Int

\* The depths that gpu_draw_pixel knows, of modes whose rows fit their pitch.
Depths == {d \in {24, 32} : ScreenWidth * (d \div 8) <= Pitch}

VARIABLES
    bpp,        \* gpu_ctx.bpp
    memory,     \* the framebuffer, and any byte beyond it that is written
    calls,      \* how many calls were made
    asked       \* the last one: its pixels and its arguments

drawingVars == <<bpp, memory, calls, asked>>

FramebufferBytes == 0 .. Pitch * ScreenHeight - 1

Paper == <<"paper">>
Ink   == <<"ink">>
\* What the caller's buffer holds at an offset
Source(offset) == <<"source", offset>>

DrawingInit ==
    /\ bpp \in Depths
    /\ memory = [a \in FramebufferBytes |-> <<Paper, 0>>]
    /\ calls = 0
    /\ asked = [kind |-> "nothing"]

-----------------------------------------------------------------------------
OnFramebuffer(x, y) == x >= 0 /\ y >= 0 /\ x < ScreenWidth /\ y < ScreenHeight

\* The bytes of a pixel: three of them, or four.
PixelBytes(x, y) ==
    LET first == y * Pitch + x * (bpp \div 8) IN first .. first + (bpp \div 8) - 1

\* gpu_draw_pixel for every pixel of a picture: a function from pixels to colours.
Draw(picture) ==
    LET drawn   == {p \in DOMAIN picture : OnFramebuffer(p[1], p[2])}
        written == UNION {PixelBytes(p[1], p[2]) : p \in drawn}
        Holder(a) == CHOOSE p \in drawn : a \in PixelBytes(p[1], p[2])
    IN  memory' = [a \in DOMAIN memory \cup written |->
            IF a \notin written THEN memory[a]
            ELSE LET p == Holder(a)
                 IN  <<picture[p], a - (p[2] * Pitch + p[1] * (bpp \div 8))>>]

Asks(request) == calls < MaxCalls /\ calls' = calls + 1 /\ asked' = request /\ UNCHANGED bpp

\* The pixels of the two loops over rows and columns.
Area(x, y, width, height) == (x .. x + width - 1) \X (y .. y + height - 1)

\* gpu_draw_rectangle, its software fallback
GpuDrawRectangle(x, y, width, height) ==
    /\ Asks([kind |-> "rectangle", x |-> x, y |-> y, width |-> width, height |-> height])
    /\ Draw([p \in Area(x, y, width, height) |-> Ink])

\* gpu_blit_buffer
GpuBlitBuffer(sx, sy, x, y, width, height) ==
    /\ Asks([kind |-> "blit", sx |-> sx, sy |-> sy,
             x |-> x, y |-> y, width |-> width, height |-> height])
    /\ Draw([p \in Area(x, y, width, height) |->
                Source((sy + p[2] - y) * SourceWidth + (sx + p[1] - x))])

Abs(n) == IF n < 0 THEN -n ELSE n
Sign(from, to) == IF from < to THEN 1 ELSE -1

\* (Mutant of LineStep: the second test reads the error the first one left.)
StepWithNewError(p, d) ==
    LET right == 2 * p.err > -d.dy
        mid   == IF right THEN p.err - d.dy ELSE p.err
        up    == 2 * mid < d.dx
    IN  [x |-> IF right THEN p.x + d.sx ELSE p.x,
         y |-> IF up THEN p.y + d.sy ELSE p.y,
         err |-> IF up THEN mid + d.dx ELSE mid]

\* One turn of the loop of gpu_draw_line: e2 is taken before either step.
LineStep(p, d) ==
    LET right == 2 * p.err > -d.dy
        up    == 2 * p.err < d.dx
    IN  [x |-> IF right THEN p.x + d.sx ELSE p.x,
         y |-> IF up THEN p.y + d.sy ELSE p.y,
         err |-> p.err - (IF right THEN d.dy ELSE 0) + (IF up THEN d.dx ELSE 0)]

\* The pixels of the loop, until it meets the end (or, never wanted, has run for
\* more turns than there are pixels between the ends).
LinePixels(x1, y1, x2, y2) ==
    LET d == [dx |-> Abs(x2 - x1), dy |-> Abs(y2 - y1),
              sx |-> Sign(x1, x2), sy |-> Sign(y1, y2)]
        turns == 0 .. d.dx + d.dy + 1
        at[i \in turns] == IF i = 0 THEN [x |-> x1, y |-> y1, err |-> d.dx - d.dy]
                           ELSE LineStep(at[i - 1], d)
        before(i) == \A j \in 0 .. i - 1 : <<at[j].x, at[j].y>> # <<x2, y2>>
    IN  {<<at[i].x, at[i].y>> : i \in {j \in turns : before(j)}}

\* gpu_draw_line
GpuDrawLine(x1, y1, x2, y2) ==
    /\ Asks([kind |-> "line", x1 |-> x1, y1 |-> y1, x2 |-> x2, y2 |-> y2])
    /\ Draw([p \in LinePixels(x1, y1, x2, y2) |-> Ink])

DrawingNext ==
    \/ \E x1 \in Xs, x2 \in Xs, y1 \in Ys, y2 \in Ys : GpuDrawLine(x1, y1, x2, y2)
    \/ \E x \in Xs, y \in Ys, width \in Extents, height \in Extents :
          \/ GpuDrawRectangle(x, y, width, height)
          \/ \E sx \in 0 .. SourceWidth - width, sy \in 0 .. SourceHeight - height :
                GpuBlitBuffer(sx, sy, x, y, width, height)

DrawingSpec == DrawingInit /\ [][DrawingNext]_drawingVars

-----------------------------------------------------------------------------
(* The picture on the screen.                                              *)

Screen == (0 .. ScreenWidth - 1) \X (0 .. ScreenHeight - 1)

\* A pixel shows a colour when its blue, green and red bytes are those of it.
Shows(mem, p, color) ==
    LET first == p[2] * Pitch + p[1] * (bpp \div 8)
    IN  \A i \in 0 .. 2 : mem[first + i] = <<color, i>>

Same(p) == \A a \in PixelBytes(p[1], p[2]) : memory'[a] = memory[a]

Between(a, n, b) == (a <= n /\ n <= b) \/ (b <= n /\ n <= a)

\* How far a point is from the line, in halves of a pixel along the shorter side,
\* times the length of the longer side.
Off(r, p) == 2 * Abs((p[2] - r.y1) * (r.x2 - r.x1) - (p[1] - r.x1) * (r.y2 - r.y1))
Longer(r) == IF Abs(r.x2 - r.x1) >= Abs(r.y2 - r.y1) THEN Abs(r.x2 - r.x1)
             ELSE Abs(r.y2 - r.y1)

\* A pixel of the smallest box around both ends is drawn when it is less than half
\* a pixel away from the line, and not drawn when it is more.  Of two that are half a
\* pixel away, on either side, one is drawn.
LineShown(r) ==
    \A p \in Screen :
        LET inBox == Between(r.x1, p[1], r.x2) /\ Between(r.y1, p[2], r.y2)
            twins == {q \in Screen \ {p} :
                        /\ Off(r, q) = Longer(r)
                        /\ IF Abs(r.x2 - r.x1) >= Abs(r.y2 - r.y1)
                           THEN p[1] = q[1] ELSE p[2] = q[2]}
        IN  /\ inBox /\ (Off(r, p) = 0 \/ Off(r, p) < Longer(r)) => Shows(memory', p, Ink)
            /\ ~inBox \/ Off(r, p) > Longer(r) => Same(p)
            /\ inBox /\ Off(r, p) = Longer(r) /\ Longer(r) # 0 =>
                  /\ Shows(memory', p, Ink) \/ Same(p)
                  /\ \A q \in twins : \/ Shows(memory', p, Ink) /\ Same(q)
                                      \/ Same(p) /\ Shows(memory', q, Ink)

\* The part of the rectangle that is on the screen has its colours, the rest of the
\* screen those it had.
RectangleShown(r, color) ==
    \A p \in Screen :
        IF p[1] \in r.x .. r.x + r.width - 1 /\ p[2] \in r.y .. r.y + r.height - 1
        THEN Shows(memory', p, color[<<p[1] - r.x, p[2] - r.y>>])
        ELSE Same(p)

\* Where a call draws, and that it changes nothing else.
AsAsked(r) ==
    LET pixels == UNION {PixelBytes(p[1], p[2]) : p \in Screen}
    IN  /\ DOMAIN memory' = FramebufferBytes
        /\ \A a \in FramebufferBytes \ pixels : memory'[a] = memory[a]
        /\ r.kind = "line" => LineShown(r)
        /\ r.kind = "rectangle" =>
              RectangleShown(r, [at \in Area(0, 0, r.width, r.height) |-> Ink])
        /\ r.kind = "blit" =>
              RectangleShown(r, [at \in Area(0, 0, r.width, r.height) |->
                                    Source((r.sy + at[2]) * SourceWidth + (r.sx + at[1]))])

\* Whatever part of it is off the screen, a shape appears where it was asked for and
\* changes nothing else: no other pixel, not the padding of a row, no byte outside the
\* framebuffer.  A line comes to its end, through the pixels that are nearest to it.
\* (gpu_draw_line's error term, gpu_draw_pixel's bounds and address, 24 and 32 bits.)
DrawnAsAsked == [][AsAsked(asked')]_drawingVars
=============================================================================
