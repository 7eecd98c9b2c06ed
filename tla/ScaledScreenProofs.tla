-------------------------- MODULE ScaledScreenProofs --------------------------
(***************************************************************************)
(* Proofs about the scaled screen, for every size of picture, client       *)
(* rectangle, surface, resolution and changed rectangle.                   *)
(*                                                                         *)
(* calcScale: integer division rounds down, and that is enough for the     *)
(* properties of OverlayGeometry.                                          *)
(*                                                                         *)
(* sdl_zoom_blit: the pixels written are the window's and those read are   *)
(* the guest screen's, since the position the loop has accumulated is      *)
(* exactly the column times the step.                                      *)
(*                                                                         *)
(* Both, one after the other in vga_draw_graphic: the rows the overlay     *)
(* covers are among the rows the zoom has redrawn.                         *)
(***************************************************************************)
EXTENDS ScaledScreen, TLAPS

(***************************************************************************)
(* calcScale                                                               *)
(***************************************************************************)
(* Products and order: what the provers need to know of multiplication.    *)
LEMMA TimesMonotone ==
    ASSUME NEW a \in Int, NEW b \in Int, NEW c \in Nat, a <= b
    PROVE  a * c <= b * c
<1>1. PICK d \in Nat : b = a + d
  <2>1. b - a \in Nat /\ b = a + (b - a)
    OBVIOUS
  <2> QED BY <2>1
<1>2. b * c = a * c + d * c
  BY <1>1
<1>3. d * c >= 0
  OBVIOUS
<1> QED BY <1>2, <1>3

(* A factor common to both sides of < can be dropped.                      *)
LEMMA TimesCancel ==
    ASSUME NEW a \in Int, NEW b \in Int, NEW c \in Nat, a * c < b * c
    PROVE  a < b
<1>1. ~(b <= a)
  <2> SUFFICES ASSUME b <= a PROVE FALSE
    OBVIOUS
  <2>1. b * c <= a * c
    BY TimesMonotone
  <2> QED BY <2>1
<1> QED BY <1>1

(* C's division of a number that is not negative: it rounds down.          *)
LEMMA CDivBounds ==
    ASSUME NEW a \in Nat, NEW b \in Pixels
    PROVE  /\ CDiv(a, b) \in Nat
           /\ CDiv(a, b) * b <= a
           /\ a < (CDiv(a, b) + 1) * b
  BY DEF CDiv, Pixels

(* C's division yields an integer.                                         *)
LEMMA CDivInt ==
    ASSUME NEW a \in Int, NEW b \in Pixels
    PROVE  CDiv(a, b) \in Int
  BY DEF CDiv, Pixels

(* Half of what is left over.                                              *)
LEMMA HalfBounds ==
    ASSUME NEW a \in Nat
    PROVE  /\ CDiv(a, 2) \in Nat
           /\ a - 2 * CDiv(a, 2) \in {0, 1}
  BY DEF CDiv

(* The clamped width and height.                                           *)
LEMMA ClampBounds ==
    ASSUME NEW n \in Int
    PROVE  Clamp(n) \in Nat /\ (n >= 0 => Clamp(n) <= n)
  BY DEF Clamp, MaxWindow

(* The fitted picture is not larger than the window, and is the largest    *)
(* of its shape.                                                           *)
LEMMA FitBounds ==
    ASSUME NEW v, v.w \in Pixels, v.h \in Pixels, NEW ww \in Nat, NEW wh \in Nat
    PROVE  LET f == Fit(v, ww, wh)
           IN /\ f.w \in Nat /\ f.h \in Nat /\ f.w <= ww /\ f.h <= wh
              /\ \/ /\ f.h = wh
                    /\ f.w * v.h <= f.h * v.w
                    /\ f.h * v.w < (f.w + 1) * v.h
                 \/ /\ f.w = ww
                    /\ f.h * v.w <= f.w * v.h
                    /\ f.w * v.h < (f.h + 1) * v.w
<1> DEFINE f == Fit(v, ww, wh)
<1>1. v.w \in Nat /\ v.h \in Nat
  BY DEF Pixels
<1>2. CASE FitsHeight(v, ww, wh)
  <2> DEFINE q == CDiv(v.w * wh, v.h)
  <2>1. f.w = q /\ f.h = wh
    BY <1>2 DEF Fit
  <2>2. v.w * wh \in Nat /\ v.w * wh = wh * v.w
    BY <1>1
  <2>3. q \in Nat /\ q * v.h <= v.w * wh /\ v.w * wh < (q + 1) * v.h
    BY <2>2, CDivBounds
  <2>4. v.w * wh < ww * v.h
    BY <1>2, <2>2 DEF FitsHeight
  <2> HIDE DEF q
  <2>5. q * v.h < ww * v.h
    BY <1>1, <2>2, <2>3, <2>4
  <2>6. q < ww
    BY <1>1, <2>3, <2>5, TimesCancel
  <2> QED BY <2>1, <2>2, <2>3, <2>6
<1>3. CASE ~FitsHeight(v, ww, wh)
  <2> DEFINE q == CDiv(v.h * ww, v.w)
  <2>1. f.w = ww /\ f.h = q
    BY <1>3 DEF Fit
  <2>2. v.h * ww \in Nat /\ v.h * ww = ww * v.h
    BY <1>1
  <2>3. q \in Nat /\ q * v.w <= v.h * ww /\ v.h * ww < (q + 1) * v.w
    BY <2>2, CDivBounds
  <2>4. ww * v.h <= wh * v.w
    BY <1>1, <1>3 DEF FitsHeight
  <2> HIDE DEF q
  <2>5. q * v.w < (wh + 1) * v.w
    <3>1. (wh + 1) * v.w = wh * v.w + v.w
      BY <1>1
    <3>2. v.w > 0
      BY DEF Pixels
    <3> QED BY <1>1, <2>2, <2>3, <2>4, <3>1, <3>2
  <2>6. q < wh + 1
    BY <1>1, <2>3, <2>5, TimesCancel
  <2> QED BY <2>1, <2>2, <2>3, <2>6
<1> QED BY <1>2, <1>3

(* One direction of the conversion to the screen: a piece [l, l + w) of    *)
(* 0..m - 1 becomes a piece of 0..s - 1.                                   *)
LEMMA ScaledInside ==
    ASSUME NEW l \in Nat, NEW w \in Nat, NEW m \in Pixels, NEW s \in Pixels, l + w <= m
    PROVE  /\ CDiv(l * s, m) \in Nat
           /\ CDiv(w * s, m) \in Nat
           /\ CDiv(l * s, m) + CDiv(w * s, m) <= s
<1> DEFINE p == CDiv(l * s, m)
           q == CDiv(w * s, m)
<1>1. s \in Nat /\ m \in Nat /\ m > 0
  BY DEF Pixels
<1>2. l * s \in Nat /\ w * s \in Nat
  BY <1>1
<1>3. p \in Nat /\ q \in Nat /\ p * m <= l * s /\ q * m <= w * s
  BY <1>2, CDivBounds
<1>4. (l + w) * s <= m * s
  BY <1>1, TimesMonotone
<1>5. (l + w) * s = l * s + w * s
  BY <1>1
<1> HIDE DEF p, q
<1>6. (p + q) * m = p * m + q * m
  BY <1>1, <1>3
<1>7. (p + q) * m < (s + 1) * m
  <2>1. (s + 1) * m = s * m + m /\ s * m = m * s
    BY <1>1
  <2> QED BY <1>1, <1>2, <1>3, <1>4, <1>5, <1>6, <2>1
<1>8. p + q < s + 1
  BY <1>1, <1>3, <1>7, TimesCancel
<1> QED BY <1>1, <1>3, <1>8 DEF p, q

(* The placed picture: its size is the fitted one, its corner the window's *)
(* plus half of the margin.                                                *)
LEMMA PlacedBounds ==
    ASSUME NEW v, v.w \in Pixels, v.h \in Pixels,
           NEW r, r.l \in Int, r.t \in Int, r.w \in Int, r.h \in Int
    PROVE  LET ww == Clamp(r.w)
               wh == Clamp(r.h)
               f  == Fit(v, ww, wh)
               p  == Placed(v, r)
           IN /\ ww \in Nat /\ wh \in Nat
              /\ p.w = f.w /\ p.h = f.h
              /\ p.w \in Nat /\ p.h \in Nat /\ p.l \in Int /\ p.t \in Int
              /\ r.l <= p.l /\ p.l + p.w <= r.l + ww
              /\ r.t <= p.t /\ p.t + p.h <= r.t + wh
              /\ r.l + ww - (p.l + p.w) - (p.l - r.l) \in {0, 1}
              /\ r.t + wh - (p.t + p.h) - (p.t - r.t) \in {0, 1}
<1> DEFINE ww == Clamp(r.w)
           wh == Clamp(r.h)
           f  == Fit(v, ww, wh)
           ml == CDiv(ww - f.w, 2)
           mt == CDiv(wh - f.h, 2)
<1>1. ww \in Nat /\ wh \in Nat
  BY ClampBounds
<1> HIDE DEF ww, wh
<1>2. f.w \in Nat /\ f.h \in Nat /\ f.w <= ww /\ f.h <= wh
  BY <1>1, FitBounds
<1> HIDE DEF f
<1>3. ww - f.w \in Nat /\ wh - f.h \in Nat
  BY <1>1, <1>2
<1>4. /\ ml \in Nat /\ ww - f.w - 2 * ml \in {0, 1}
      /\ mt \in Nat /\ wh - f.h - 2 * mt \in {0, 1}
  BY <1>3, HalfBounds
<1>5. /\ Placed(v, r).l = r.l + ml /\ Placed(v, r).w = f.w
      /\ Placed(v, r).t = r.t + mt /\ Placed(v, r).h = f.h
  BY DEF Placed, f, ww, wh
<1> HIDE DEF ml, mt
<1>6. /\ ml <= ww - f.w - ml /\ mt <= wh - f.h - mt
  BY <1>1, <1>2, <1>3, <1>4
<1> QED BY <1>1, <1>2, <1>4, <1>5, <1>6 DEF f, ww, wh

(* The inductive invariant: after the call the results are calcScale's.    *)
GeometryInv ==
    /\ TypeOK
    /\ returned => /\ placed = Placed(video, clientRect)
                   /\ overlay = calcScale(video, clientRect, screen, mode)

(* Before the call nothing is claimed of the results.                      *)
LEMMA InitGeometry == Init => GeometryInv
  BY DEF Init, GeometryInv, TypeOK, Unset

(* What the input's types are.                                             *)
LEMMA InputTyped ==
    ASSUME TypeOK
    PROVE  /\ video.w \in Pixels /\ video.h \in Pixels
           /\ screen.w \in Pixels /\ screen.h \in Pixels
           /\ mode.w \in Pixels /\ mode.h \in Pixels
           /\ clientRect.l \in Int /\ clientRect.t \in Int
           /\ clientRect.w \in Int /\ clientRect.h \in Int
  BY InputsAssumption DEF TypeOK

(* The call stores integers, and nothing happens after it.                 *)
LEMMA NextGeometry == GeometryInv /\ [Call]_vars => GeometryInv'
<1> SUFFICES ASSUME GeometryInv, [Call]_vars PROVE GeometryInv'
  OBVIOUS
<1>1. CASE Call
  <2> DEFINE p == Placed(video, clientRect)
             o == calcScale(video, clientRect, screen, mode)
  <2>1. placed' = p /\ overlay' = o /\ UNCHANGED <<video, clientRect, screen, mode>>
    BY <1>1 DEF Call, input
  <2>2. p.l \in Int /\ p.t \in Int /\ p.w \in Nat /\ p.h \in Nat
    BY PlacedBounds, InputTyped DEF GeometryInv
  <2>3. o.l \in Int /\ o.t \in Int /\ o.w \in Nat /\ o.h \in Nat
    <3> HIDE DEF p
    <3>1. /\ o.l = CDiv(p.l * screen.w, mode.w) /\ o.w = CDiv(p.w * screen.w, mode.w)
          /\ o.t = CDiv(p.t * screen.h, mode.h) /\ o.h = CDiv(p.h * screen.h, mode.h)
      BY DEF calcScale, ToScreen, p
    <3>2. /\ screen.w \in Pixels /\ screen.h \in Pixels
          /\ mode.w \in Pixels /\ mode.h \in Pixels
      BY InputTyped DEF GeometryInv
    <3>3. /\ p.l * screen.w \in Int /\ p.w * screen.w \in Nat
          /\ p.t * screen.h \in Int /\ p.h * screen.h \in Nat
      BY <2>2, <3>2 DEF Pixels
    <3> QED BY <3>1, <3>2, <3>3, CDivInt, CDivBounds
  <2> HIDE DEF p, o
  <2>4. TypeOK'
    BY <2>1, <2>2, <2>3 DEF GeometryInv, TypeOK
  <2> QED BY <2>1, <2>4 DEF GeometryInv, p, o
<1>2. CASE UNCHANGED vars
  BY <1>2 DEF vars, input, GeometryInv, TypeOK
<1> QED BY <1>1, <1>2

(* The invariant holds throughout.                                         *)
THEOREM GeometryInvariance == Spec => []GeometryInv
  BY InitGeometry, NextGeometry, PTL DEF Spec

(* The results are integers, and no size is negative.                      *)
THEOREM GeometryTyped == Spec => []TypeOK
<1>1. GeometryInv => TypeOK
  BY DEF GeometryInv
<1> QED BY <1>1, GeometryInvariance, PTL

(* The fitted picture lies inside the client rectangle.                    *)
THEOREM FitsWindow == Spec => []InsideWindow
<1>1. GeometryInv => InsideWindow
  BY PlacedBounds, InputTyped DEF GeometryInv, InsideWindow, windoww, windowh
<1> QED BY <1>1, GeometryInvariance, PTL

(* It is the largest one of the video's shape.                             *)
THEOREM FitsLargest == Spec => []LargestFit
<1>1. GeometryInv => LargestFit
  <2> SUFFICES ASSUME GeometryInv, returned PROVE LargestFit
    BY DEF LargestFit
  <2>1. video.w \in Pixels /\ video.h \in Pixels
    BY InputTyped DEF GeometryInv
  <2>2. /\ windoww \in Nat /\ windowh \in Nat
        /\ placed.w = Fit(video, windoww, windowh).w
        /\ placed.h = Fit(video, windoww, windowh).h
    BY PlacedBounds, InputTyped DEF GeometryInv, windoww, windowh
  <2> QED BY <2>1, <2>2, FitBounds DEF LargestFit
<1> QED BY <1>1, GeometryInvariance, PTL

(* It is centred.                                                          *)
THEOREM FitsCentred == Spec => []Centred
<1>1. GeometryInv => Centred
  <2> SUFFICES ASSUME GeometryInv, returned PROVE Centred
    BY DEF Centred
  <2> QED BY PlacedBounds, InputTyped DEF GeometryInv, Centred, windoww, windowh
<1> QED BY <1>1, GeometryInvariance, PTL

(* A window on the guest's screen has its overlay on the SDL surface.      *)
THEOREM FitsScreen == Spec => []OnScreen
<1>1. GeometryInv => OnScreen
  <2> SUFFICES ASSUME GeometryInv, returned,
                      0 <= clientRect.l, clientRect.l + clientRect.w <= mode.w,
                      0 <= clientRect.w,
                      0 <= clientRect.t, clientRect.t + clientRect.h <= mode.h,
                      0 <= clientRect.h
               PROVE  /\ 0 <= overlay.l /\ overlay.l + overlay.w <= screen.w
                      /\ 0 <= overlay.t /\ overlay.t + overlay.h <= screen.h
    BY DEF OnScreen
  <2>1. /\ placed.l \in Int /\ placed.t \in Int /\ placed.w \in Nat /\ placed.h \in Nat
        /\ clientRect.l <= placed.l /\ placed.l + placed.w <= clientRect.l + windoww
        /\ clientRect.t <= placed.t /\ placed.t + placed.h <= clientRect.t + windowh
    BY PlacedBounds, InputTyped DEF GeometryInv, windoww, windowh
  <2>2. /\ windoww \in Nat /\ windowh \in Nat
        /\ windoww <= clientRect.w /\ windowh <= clientRect.h
    BY ClampBounds, InputTyped DEF GeometryInv, windoww, windowh
  <2>3. /\ placed.l \in Nat /\ placed.l + placed.w <= mode.w
        /\ placed.t \in Nat /\ placed.t + placed.h <= mode.h
    BY <2>1, <2>2, InputTyped DEF GeometryInv, Pixels
  <2>4. /\ screen.w \in Pixels /\ screen.h \in Pixels
        /\ mode.w \in Pixels /\ mode.h \in Pixels
    BY InputTyped DEF GeometryInv
  <2>5. /\ overlay.l = CDiv(placed.l * screen.w, mode.w)
        /\ overlay.w = CDiv(placed.w * screen.w, mode.w)
        /\ overlay.t = CDiv(placed.t * screen.h, mode.h)
        /\ overlay.h = CDiv(placed.h * screen.h, mode.h)
    BY DEF GeometryInv, calcScale, ToScreen
  <2>6. /\ CDiv(placed.l * screen.w, mode.w) \in Nat
        /\ CDiv(placed.l * screen.w, mode.w) + CDiv(placed.w * screen.w, mode.w) <= screen.w
    BY <2>1, <2>3, <2>4, ScaledInside
  <2>7. /\ CDiv(placed.t * screen.h, mode.h) \in Nat
        /\ CDiv(placed.t * screen.h, mode.h) + CDiv(placed.h * screen.h, mode.h) <= screen.h
    BY <2>1, <2>3, <2>4, ScaledInside
  <2> QED BY <2>5, <2>6, <2>7
<1> QED BY <1>1, GeometryInvariance, PTL

(***************************************************************************)
(* sdl_zoom_blit                                                           *)
(***************************************************************************)
(* The arguments sdl_zoom_blit is called with.                             *)
CallOK ==
    /\ call \in [src : Sizes, dst : Sizes, x : Nat, w : Nat]
    /\ call.src \in Nat /\ call.src > 1 /\ call.dst \in Nat /\ call.dst > 1
    /\ call.x < call.src /\ call.w > 0

(* The place of the loop: csax without its whole part is the fraction of   *)
(* the position whose whole part c00 has already taken.                    *)
Accumulated ==
    /\ x \in Nat /\ csax \in Nat /\ c00 \in Nat
    /\ c00 * One + (csax % One) = x * Step(call)

(* The inductive invariant                                                 *)
ZoomInv ==
    /\ CallOK
    /\ pc \in {"blit", "jump", "draw", "done"}
    /\ IF pc = "blit" THEN zoom = None
       ELSE zoom \in Rectangles /\ zoom.w > 0 /\ zoom.x + zoom.w <= call.dst
    /\ Accumulated

(* Division rounds down.                                                   *)
LEMMA DivBounds ==
    ASSUME NEW a \in Nat, NEW b \in Nat, b > 0
    PROVE  /\ a \div b \in Nat
           /\ (a \div b) * b <= a
           /\ a = (a \div b) * b + (a % b)
           /\ a % b \in Nat /\ a % b < b
  OBVIOUS

(* A quotient is below what the number is below a multiple of.             *)
LEMMA DivBelow ==
    ASSUME NEW a \in Nat, NEW b \in Nat, NEW c \in Nat, b > 0, a < c * b
    PROVE  a \div b < c
<1>1. ~(c <= a \div b)
  <2> SUFFICES ASSUME c <= a \div b PROVE FALSE
    OBVIOUS
  <2> DEFINE q == a \div b
  <2>1. q \in Nat /\ q * b <= a
    BY DivBounds
  <2> HIDE DEF q
  <2>2. c * b <= q * b
    BY <2>1, TimesMonotone DEF q
  <2> QED BY <2>1, <2>2
<1>2. a \div b \in Nat
  BY DivBounds
<1> QED BY <1>1, <1>2

(* The rectangle that sdl_zoom_blit passes on lies on the window.          *)
LEMMA ZoomedInside ==
    ASSUME CallOK
    PROVE  /\ Zoomed(call) \in Rectangles
           /\ Zoomed(call).w > 0
           /\ Zoomed(call).x + Zoomed(call).w <= call.dst
<1> DEFINE g == Grown(call)
           s == call.src
           d == call.dst
           left == (g.x * d) \div s
           w == (g.w * d + (s - 1)) \div s
           extra == (d - 1) \div s + 1
<1>1. s \in Nat /\ s > 1 /\ d \in Nat /\ d > 1 /\ call.x \in Nat /\ call.x < s /\ call.w \in Nat
  BY DEF CallOK
<1>2. g.x \in Nat /\ g.x < s /\ g.w \in Nat
  BY <1>1 DEF Grown
<1> HIDE DEF g
<1>3. left \in Nat /\ left < d
  <2>1. g.x * d \in Nat /\ g.x * d < d * s
    <3>1. (g.x + 1) * d <= s * d
      BY <1>1, <1>2, TimesMonotone
    <3>2. (g.x + 1) * d = g.x * d + d /\ s * d = d * s
      BY <1>1, <1>2
    <3> QED BY <1>1, <1>2, <3>1, <3>2
  <2> QED BY <1>1, <2>1, DivBelow, DivBounds
<1>4. w \in Nat
  <2>1. g.w * d + (s - 1) \in Nat
    BY <1>1, <1>2
  <2> QED BY <1>1, <2>1, DivBounds
<1>5. extra \in Nat /\ extra > 0
  <2>1. d - 1 \in Nat
    BY <1>1
  <2>2. (d - 1) \div s \in Nat
    BY <1>1, <2>1, DivBounds
  <2> QED BY <2>2
<1>6. Zoomed(call) = [x |-> left,
                      w |-> IF left + w < d - extra THEN w + extra ELSE d - left]
  BY DEF Zoomed, WithExtra, g
<1> HIDE DEF left, w, extra, s, d
<1>7. d \in Nat
  BY <1>1
<1> DEFINE ww == IF left + w < d - extra THEN w + extra ELSE d - left
<1>8. ww \in Nat /\ ww > 0 /\ left + ww <= d
  BY <1>3, <1>4, <1>5, <1>7
<1> HIDE DEF ww
<1>9. Zoomed(call) = [x |-> left, w |-> ww]
  BY <1>6 DEF ww
<1> QED BY <1>3, <1>8, <1>9 DEF Rectangles, d

(* The step is a number, and all the steps over the window stay before the *)
(* last column of the source.                                              *)
LEMMA StepBounds ==
    ASSUME CallOK
    PROVE  Step(call) \in Nat /\ Step(call) * call.dst <= One * (call.src - 1)
<1>1. One * (call.src - 1) \in Nat /\ call.dst \in Nat /\ call.dst > 0
  BY DEF CallOK, One
<1> QED BY <1>1, DivBounds DEF Step

(* One turn of either loop keeps the place exact.                          *)
LEMMA AdvanceExact ==
    ASSUME CallOK, Accumulated, Advance, call' = call
    PROVE  Accumulated'
<1> DEFINE st == Step(call)
<1>1. st \in Nat
  BY StepBounds
<1>2. csax' = (csax % One) + st /\ x' = x + 1 /\ c00' = c00 + csax' \div One
  BY DEF Advance, NextEntry
<1>3. Step(call)' = st
  BY DEF Step, One
<1> HIDE DEF st
<1>4. csax % One \in Nat /\ csax' \in Nat
  BY <1>1, <1>2 DEF Accumulated, One
<1>5. csax' \div One \in Nat /\ csax' = (csax' \div One) * One + (csax' % One)
  <2>1. One \in Nat /\ One > 0
    BY DEF One
  <2> QED BY <1>4, <2>1, DivBounds, Zenon
<1>6. c00' * One = c00 * One + (csax' \div One) * One
  BY <1>2, <1>5 DEF Accumulated, One
<1>7. c00 * One + (csax % One) = x * st
  BY DEF Accumulated, st
<1>8. x' * st = x * st + st
  BY <1>1, <1>2 DEF Accumulated
<1>9. c00' * One + (csax' % One) = x' * st
  BY <1>1, <1>2, <1>4, <1>5, <1>6, <1>7, <1>8 DEF Accumulated, One
<1> QED BY <1>2, <1>3, <1>4, <1>5, <1>9 DEF Accumulated, One

(* Every call begins in the invariant.                                     *)
LEMMA ZoomInitially == ZoomInit => ZoomInv
<1> SUFFICES ASSUME ZoomInit PROVE ZoomInv
  OBVIOUS
<1>1. CallOK
  <2>1. PICK s \in Sizes, d \in Sizes : \E left \in 0 .. s - 1 :
            \E w \in (1 .. s - left) \cup {v \in {d} : left = 0} :
               call = [src |-> s, dst |-> d, x |-> left, w |-> w]
    BY DEF ZoomInit
  <2>2. s \in Nat /\ s > 1 /\ d \in Nat /\ d > 1
    BY ZoomAssumption
  <2>3. PICK left \in 0 .. s - 1 :
            \E w \in (1 .. s - left) \cup {v \in {d} : left = 0} :
               call = [src |-> s, dst |-> d, x |-> left, w |-> w]
    BY <2>1
  <2>4. PICK w \in (1 .. s - left) \cup {v \in {d} : left = 0} :
               call = [src |-> s, dst |-> d, x |-> left, w |-> w]
    BY <2>3
  <2>5. left \in Nat /\ left < s /\ w \in Nat /\ w > 0
    BY <2>2, <2>3, <2>4
  <2> QED BY <2>2, <2>4, <2>5 DEF CallOK
<1>2. Accumulated
  <2>1. Step(call) \in Nat
    BY <1>1, StepBounds
  <2> QED BY <2>1 DEF ZoomInit, Accumulated, One
<1> QED BY <1>1, <1>2 DEF ZoomInit, ZoomInv

(* Every step keeps the invariant: the blit by ZoomedInside, a turn of a   *)
(* loop by AdvanceExact.                                                   *)
LEMMA ZoomStep == ZoomInv /\ [ZoomNext]_zoomVars => ZoomInv'
<1> SUFFICES ASSUME ZoomInv, [ZoomNext]_zoomVars PROVE ZoomInv'
  OBVIOUS
<1>1. CASE sdl_zoom_blit
  <2>1. CallOK' /\ Accumulated'
    BY <1>1 DEF sdl_zoom_blit, ZoomInv, CallOK, Accumulated, Step, One
  <2>2. zoom' = Zoomed(call) /\ call' = call /\ pc' = "jump"
    BY <1>1 DEF sdl_zoom_blit
  <2>3. zoom' \in Rectangles /\ zoom'.w > 0 /\ zoom'.x + zoom'.w <= call'.dst
    BY <2>2, ZoomedInside DEF ZoomInv
  <2> QED BY <2>1, <2>2, <2>3 DEF ZoomInv
<1>2. CASE Jump \/ Draw
  <2>1. UNCHANGED <<call, zoom>> /\ pc # "blit" /\ pc' \in {"jump", "draw", "done"}
    BY <1>2 DEF Jump, Draw
  <2>2. CallOK'
    BY <2>1 DEF ZoomInv, CallOK
  <2>3. Accumulated'
    <3>1. CASE Advance
      BY <2>1, <3>1, AdvanceExact DEF ZoomInv
    <3>2. CASE UNCHANGED <<x, csax, c00>>
      BY <2>1, <3>2 DEF ZoomInv, Accumulated, Step, One
    <3> QED BY <1>2, <3>1, <3>2 DEF Jump, Draw
  <2> QED BY <2>1, <2>2, <2>3 DEF ZoomInv
<1>3. CASE UNCHANGED zoomVars
  BY <1>3 DEF zoomVars, ZoomInv, CallOK, Accumulated, Step, One
<1> QED BY <1>1, <1>2, <1>3 DEF ZoomNext

(* The inductive invariant holds throughout a call.                        *)
THEOREM ZoomInvariant == ZoomSpec => []ZoomInv
<1> QED BY ZoomInitially, ZoomStep, PTL DEF ZoomSpec

(* The blit's rectangles and positions are numbers, never negative ones,   *)
(* and from the blit on there is a rectangle to draw.                      *)
THEOREM ZoomTyped == ZoomSpec => []ZoomTypeOK
<1>1. ZoomInv => ZoomTypeOK
  BY Zenon DEF ZoomInv, ZoomTypeOK, CallOK, Calls, Accumulated
<1> QED BY <1>1, ZoomInvariant, PTL

(* sdl_zoom_rgb16 and sdl_zoom_rgb32 write to pixels of the window only.   *)
THEOREM ZoomInsideDestination == ZoomSpec => []InsideDestination
<1>1. ZoomInv => InsideDestination
  BY DEF ZoomInv, InsideDestination
<1> QED BY <1>1, ZoomInvariant, PTL

(* A pixel is read from the place its own column stands for, wherever the  *)
(* drawing began.                                                          *)
THEOREM ZoomNoDrift == ZoomSpec => []NoDrift
<1>1. ZoomInv => NoDrift
  <2> SUFFICES ASSUME ZoomInv PROVE NoDrift
    OBVIOUS
  <2> DEFINE f == csax % One
             p == x * Step(call)
  <2>1. f \in Nat /\ f < One /\ c00 \in Nat /\ p = c00 * One + f
    BY DEF ZoomInv, Accumulated, One
  <2> HIDE DEF f, p
  <2>2. p \div One = c00
    BY <2>1 DEF One
  <2> QED BY <2>2 DEF NoDrift, p
<1> QED BY <1>1, ZoomInvariant, PTL

(* The two columns of the guest screen a pixel is mixed from exist.        *)
THEOREM ZoomInsideSource == ZoomSpec => []InsideSource
<1>1. ZoomInv => InsideSource
  <2> SUFFICES ASSUME ZoomInv, Drawing PROVE c00 + 1 < call.src
    BY DEF InsideSource
  <2> DEFINE s == call.src
             d == call.dst
             st == Step(call)
  <2>1. s \in Nat /\ s > 1 /\ d \in Nat /\ d > 1
    BY DEF ZoomInv, CallOK
  <2>2. st \in Nat /\ st * d <= One * (s - 1)
    BY StepBounds DEF ZoomInv
  <2>3. x \in Nat /\ x + 1 <= d
    BY <2>1 DEF ZoomInv, Drawing, Accumulated, Rectangles
  <2>4. c00 \in Nat /\ c00 * One <= x * st
    BY DEF ZoomInv, Accumulated, One
  <2> HIDE DEF s, d, st
  <2>5. x * st + st <= d * st
    <3>1. (x + 1) * st <= d * st
      BY <2>1, <2>2, <2>3, TimesMonotone
    <3> QED BY <2>2, <2>3, <3>1
  <2>6. d * st = st * d
    BY <2>1, <2>2
  <2>7. c00 * One + st <= One * (s - 1)
    BY <2>1, <2>2, <2>3, <2>4, <2>5, <2>6 DEF One
  <2>8. CASE st = 0
    <3>1. c00 = 0
      BY <2>3, <2>4, <2>8 DEF One
    <3> QED BY <2>1, <3>1 DEF s
  <2>9. CASE st > 0
    BY <2>1, <2>2, <2>4, <2>7, <2>9 DEF One, s
  <2> QED BY <2>2, <2>8, <2>9
<1> QED BY <1>1, ZoomInvariant, PTL

(***************************************************************************)
(* vga_draw_graphic                                                        *)
(***************************************************************************)
(* A frame is one call of calcScale and one of sdl_zoom_blit.              *)
LEMMA ScaledParts == ScaledSpec => Spec /\ ZoomSpec
<1>1. ScaledInit => Init /\ ZoomInit
  BY DEF ScaledInit
<1>2. [vga_draw_graphic]_<<vars, zoomVars>> => [Call]_vars /\ [ZoomNext]_zoomVars
  BY DEF vga_draw_graphic, Flush, Overlay
<1> QED BY <1>1, <1>2, PTL DEF ScaledSpec, Spec, ZoomSpec

(* What the two parts have in common: they scale by the same sizes, and    *)
(* the overlay is placed when the rows are drawn.                          *)
FrameInv ==
    /\ call.src = mode.h /\ call.dst = screen.h
    /\ pc # "blit" => zoom = Zoomed(call)
    /\ returned => pc = "done"

(* Every step of a frame keeps this.                                       *)
LEMMA FrameStep == FrameInv /\ [vga_draw_graphic]_<<vars, zoomVars>> => FrameInv'
<1> SUFFICES ASSUME FrameInv, [vga_draw_graphic]_<<vars, zoomVars>> PROVE FrameInv'
  OBVIOUS
<1> USE DEF FrameInv
<1>1. CASE Flush
  <2>1. UNCHANGED <<mode, screen, returned>>
    BY <1>1 DEF Flush, vars, input
  <2>2. CASE sdl_zoom_blit
    BY <2>1, <2>2 DEF sdl_zoom_blit
  <2>3. CASE Jump \/ Draw
    BY <2>1, <2>3 DEF Jump, Draw, Zoomed, WithExtra, Grown
  <2> QED BY <1>1, <2>2, <2>3 DEF Flush, ZoomNext
<1>2. CASE Overlay
  BY <1>2 DEF Overlay, Call, input, zoomVars, Zoomed, WithExtra, Grown
<1>3. CASE UNCHANGED <<vars, zoomVars>>
  BY <1>3 DEF vars, input, zoomVars, Zoomed, WithExtra, Grown
<1> QED BY <1>1, <1>2, <1>3 DEF vga_draw_graphic

(* One direction of the two roundings.  The rows first .. first + rows - 1 *)
(* contain those of the picture, t .. t + h - 1; d rows are shown for s.   *)
LEMMA RoundingsAgree ==
    ASSUME NEW s \in Pixels, NEW d \in Pixels,
           NEW first \in Nat, NEW rows \in Nat, NEW t \in Nat, NEW h \in Nat,
           first <= t, t + h <= first + rows, t + h <= s
    PROVE  LET left == (first * d) \div s
               w    == (rows * d + (s - 1)) \div s
           IN  /\ left <= CDiv(t * d, s)
               /\ CDiv(t * d, s) + CDiv(h * d, s) <= left + w
<1> DEFINE left == (first * d) \div s
           w    == (rows * d + (s - 1)) \div s
           ot   == CDiv(t * d, s)
           oh   == CDiv(h * d, s)
<1>1. s \in Nat /\ d \in Nat /\ s > 0
  BY DEF Pixels
<1>2. /\ first * d \in Nat /\ rows * d \in Nat /\ rows * d + (s - 1) \in Nat
      /\ t * d \in Nat /\ h * d \in Nat
  BY <1>1
<1>3. left \in Nat /\ left * s <= first * d /\ first * d < (left + 1) * s
  <2> DEFINE n == first * d
             r == n % s
  <2>1. n \in Nat
    BY <1>2
  <2> HIDE DEF n
  <2>2. n \div s \in Nat /\ n = (n \div s) * s + r /\ r < s /\ r \in Nat
    BY <1>1, <2>1, DivBounds
  <2>3. left = n \div s
    BY DEF n
  <2> HIDE DEF r, left
  <2>4. left \in Nat /\ n = left * s + r /\ (left + 1) * s = left * s + s /\ left * s \in Nat
    BY <1>1, <2>2, <2>3
  <2> QED BY <1>1, <2>1, <2>2, <2>4 DEF n
<1>4. w \in Nat /\ rows * d <= w * s
  <2> DEFINE n == rows * d + (s - 1)
             r == n % s
  <2>1. n \in Nat /\ rows * d = n - (s - 1)
    BY <1>1, <1>2
  <2> HIDE DEF n
  <2>2. n \div s \in Nat /\ n = (n \div s) * s + r /\ r < s /\ r \in Nat
    BY <1>1, <2>1, DivBounds
  <2>3. w = n \div s
    BY DEF n
  <2> HIDE DEF r, w
  <2>4. w \in Nat /\ n = w * s + r /\ w * s \in Nat
    BY <1>1, <2>2, <2>3
  <2> QED BY <1>1, <2>1, <2>2, <2>4
<1>5. /\ ot \in Nat /\ ot * s <= t * d /\ t * d < (ot + 1) * s
      /\ oh \in Nat /\ oh * s <= h * d
  BY <1>2, CDivBounds
<1> HIDE DEF left, w, ot, oh
<1>6. left <= ot
  <2>1. first * d <= t * d
    BY <1>1, TimesMonotone
  <2>2. left * s < (ot + 1) * s
    <3>1. left * s \in Nat /\ (ot + 1) * s \in Nat
      BY <1>1, <1>3, <1>5
    <3> QED BY <1>2, <1>3, <1>5, <2>1, <3>1
  <2>3. left < ot + 1
    BY <1>1, <1>3, <1>5, <2>2, TimesCancel
  <2> QED BY <1>3, <1>5, <2>3
<1>7. ot + oh <= left + w
  <2>1. (ot + oh) * s = ot * s + oh * s /\ ot * s \in Nat /\ oh * s \in Nat
    BY <1>1, <1>5
  <2>2. (t + h) * d = t * d + h * d /\ (first + rows) * d = first * d + rows * d
    BY <1>1
  <2>3. (t + h) * d <= (first + rows) * d
    BY <1>1, TimesMonotone
  <2>4. (left + w + 1) * s = (left + 1) * s + w * s /\ (left + 1) * s \in Nat /\ w * s \in Nat
    BY <1>1, <1>3, <1>4
  <2>5. (ot + oh) * s < (left + w + 1) * s
    BY <1>2, <1>3, <1>4, <1>5, <2>1, <2>2, <2>3, <2>4
  <2>6. ot + oh < left + w + 1
    BY <1>1, <1>3, <1>4, <1>5, <2>5, TimesCancel
  <2> QED BY <1>3, <1>4, <1>5, <2>6
<1> QED BY <1>6, <1>7 DEF left, w, ot, oh

(* The properties of the two parts hold in a frame.                        *)
THEOREM ScaledSafe ==
    ScaledSpec => [](LargestFit /\ OnScreen /\ InsideDestination /\ InsideSource)
BY ScaledParts, FitsLargest, FitsScreen, ZoomInsideDestination, ZoomInsideSource, PTL

(* The picture lies over the player's window as it is shown: calcScale and *)
(* sdl_zoom_blit round the same scale differently, but never apart.        *)
THEOREM ScaledOverPlayer == ScaledSpec => []OverPlayer
<1>1. ScaledInit => FrameInv
  BY DEF ScaledInit, Init, ZoomInit, FrameInv
<1>2. ScaledSpec => []FrameInv
  BY <1>1, FrameStep, PTL DEF ScaledSpec
<1>3. ScaledSpec => [](FrameInv /\ GeometryInv /\ ZoomInv)
  BY <1>2, ScaledParts, GeometryInvariance, ZoomInvariant, PTL
<1>4. FrameInv /\ GeometryInv /\ ZoomInv => OverPlayer
  <2> SUFFICES ASSUME FrameInv, GeometryInv, ZoomInv, returned, RowsShown, Rows = PlayerRows
               PROVE  zoom.x <= overlay.t /\ overlay.t + overlay.h <= zoom.x + zoom.w
    BY DEF OverPlayer
  <2> DEFINE s == mode.h
             d == screen.h
             g == Grown(call)
             left  == (g.x * d) \div s
             w     == (g.w * d + (s - 1)) \div s
             extra == (d - 1) \div s + 1
  <2>1. s \in Pixels /\ d \in Pixels /\ call.src = s /\ call.dst = d
    BY InputTyped DEF GeometryInv, FrameInv
  <2>2. /\ clientRect.t \in Nat /\ clientRect.h \in Nat
        /\ clientRect.t + clientRect.h <= s
        /\ call.x = clientRect.t /\ call.w = clientRect.h
    <3>1. clientRect.t \in Int /\ clientRect.h \in Int
      BY InputTyped DEF GeometryInv
    <3>2. call.x = clientRect.t /\ call.w = clientRect.h
      BY DEF Rows, PlayerRows
    <3> QED BY <3>1, <3>2 DEF RowsShown
  <2>3. /\ placed.t \in Nat /\ placed.h \in Nat /\ clientRect.t <= placed.t
        /\ placed.t + placed.h <= clientRect.t + clientRect.h
    <3>1. /\ placed.t \in Int /\ placed.h \in Nat /\ clientRect.t <= placed.t
          /\ placed.t + placed.h <= clientRect.t + windowh
      BY PlacedBounds, InputTyped DEF GeometryInv, windowh
    <3>2. windowh \in Nat /\ windowh <= clientRect.h
      BY <2>2, ClampBounds, InputTyped DEF GeometryInv, windowh
    <3> QED BY <2>2, <3>1, <3>2
  <2>4. overlay.t = CDiv(placed.t * d, s) /\ overlay.h = CDiv(placed.h * d, s)
    BY DEF GeometryInv, calcScale, ToScreen
  <2>5. /\ g.x \in Nat /\ g.w \in Nat /\ g.x <= clientRect.t
        /\ clientRect.t + clientRect.h <= g.x + g.w
    BY <2>1, <2>2 DEF Grown, Pixels
  <2>6. zoom = [x |-> left, w |-> IF left + w < d - extra THEN w + extra ELSE d - left]
    BY <2>1 DEF FrameInv, Zoomed, WithExtra
  <2> HIDE DEF s, d, g, left, w, extra
  <2>7. /\ left <= overlay.t
        /\ overlay.t + overlay.h <= left + w
    <3>1. /\ g.x <= placed.t /\ placed.t + placed.h <= g.x + g.w
          /\ placed.t + placed.h <= s
      BY <2>1, <2>2, <2>3, <2>5 DEF Pixels
    <3> DEFINE f == g.x
               n == g.w
               t == placed.t
               h == placed.h
    <3>2. /\ f \in Nat /\ n \in Nat /\ t \in Nat /\ h \in Nat
          /\ f <= t /\ t + h <= f + n /\ t + h <= s
      BY <2>3, <2>5, <3>1
    <3> HIDE DEF f, n, t, h
    <3>3. /\ (f * d) \div s <= CDiv(t * d, s)
          /\ CDiv(t * d, s) + CDiv(h * d, s) <= (f * d) \div s + (n * d + (s - 1)) \div s
      BY <2>1, <3>2, RoundingsAgree
    <3> QED BY <2>4, <3>3 DEF left, w, f, n, t, h
  <2>8. overlay.t \in Nat /\ overlay.h \in Nat /\ overlay.t + overlay.h <= d
    <3>1. placed.t + placed.h <= s
      BY <2>1, <2>2, <2>3 DEF Pixels
    <3> QED BY <2>1, <2>3, <2>4, <3>1, ScaledInside
  <2>9. left \in Nat /\ w \in Nat /\ extra \in Nat /\ d \in Nat
    <3>1. s \in Nat /\ s > 0 /\ d \in Nat /\ d - 1 \in Nat
      BY <2>1 DEF Pixels
    <3>2. g.x * d \in Nat /\ g.w * d + (s - 1) \in Nat
      BY <2>5, <3>1
    <3>3. \A n \in Nat : n \div s \in Nat
      BY <3>1, DivBounds
    <3>4. (d - 1) \div s \in Nat /\ left \in Nat /\ w \in Nat
      BY <3>1, <3>2, <3>3 DEF left, w
    <3> QED BY <3>1, <3>4 DEF extra
  <2> QED BY <2>6, <2>7, <2>8, <2>9
<1> QED BY <1>3, <1>4, PTL

=============================================================================
