------------------------------ MODULE CalcScale ------------------------------
(***************************************************************************)
(* The geometry of the video overlay: calcScale of                         *)
(* qemu/qemu-kvm-0.12.3+noroms/va.c.                                       *)
(*                                                                         *)
(* The guest tells the host, in guest pixels, the client rectangle of its  *)
(* player window.  calcScale fits the picture into that rectangle keeping  *)
(* the picture's aspect ratio, centres it, and converts the result from    *)
(* guest pixels to pixels of the SDL window.                               *)
(*                                                                         *)
(* C's "int" is modelled by the integers: the rectangles considered are    *)
(* those for which no product leaves 32 bits.                              *)
(***************************************************************************)
EXTENDS Integers

(* Integer division of C: the quotient is truncated towards zero.  Every   *)
(* divisor of this module is positive.                                     *)
CDiv(a, b) == IF a >= 0 THEN a \div b ELSE -((-a) \div b)

(* The bound on a client rectangle's width and height.                     *)
MaxWindow == 2000

Clamp(n) == IF n < 0 THEN 0 ELSE IF n > MaxWindow THEN MaxWindow ELSE n

(* The picture is narrower than the window: its height is the window's.    *)
FitsHeight(video, windoww, windowh) ==
    windoww * video.h > windowh * video.w

(* The number calcScale divides by to fit the picture into the window.     *)
FitDivisor(video, windoww, windowh) ==
    IF FitsHeight(video, windoww, windowh) THEN video.h ELSE video.w

(* Variant: the picture fills the window.                                  *)
Stretch(video, windoww, windowh) == [w |-> windoww, h |-> windowh]

(* The largest picture of the video's aspect ratio inside the window.      *)
Fit(video, windoww, windowh) ==
    IF FitsHeight(video, windoww, windowh)
    THEN [w |-> CDiv(video.w * windowh, video.h), h |-> windowh]
    ELSE [w |-> windoww, h |-> CDiv(video.h * windoww, video.w)]

(* Where the fitted picture lies in the guest's screen: centred in the     *)
(* clamped client rectangle.                                               *)
Placed(video, rect) ==
    LET windoww == Clamp(rect.w)
        windowh == Clamp(rect.h)
        fit     == Fit(video, windoww, windowh)
    IN [l |-> rect.l + CDiv(windoww - fit.w, 2),
        t |-> rect.t + CDiv(windowh - fit.h, 2),
        w |-> fit.w,
        h |-> fit.h]

(* Variant: width and height of the resolution swapped.                    *)
ToScreenSwapped(p, screen, mode) ==
    [l |-> CDiv(p.l * screen.w, mode.h),
     t |-> CDiv(p.t * screen.h, mode.w),
     w |-> CDiv(p.w * screen.w, mode.h),
     h |-> CDiv(p.h * screen.h, mode.w)]

(* From guest pixels to pixels of the SDL window.                          *)
ToScreen(p, screen, mode) ==
    [l |-> CDiv(p.l * screen.w, mode.w),
     t |-> CDiv(p.t * screen.h, mode.h),
     w |-> CDiv(p.w * screen.w, mode.w),
     h |-> CDiv(p.h * screen.h, mode.h)]

(* What calcScale stores through its out-parameters.                       *)
calcScale(video, rect, screen, mode) ==
    ToScreen(Placed(video, rect), screen, mode)

=============================================================================
