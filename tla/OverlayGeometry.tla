--------------------------- MODULE OverlayGeometry ---------------------------
(***************************************************************************)
(* calcScale by itself: one call, on any picture, client rectangle, SDL    *)
(* surface and guest resolution, against what its result has to be.        *)
(***************************************************************************)
EXTENDS CalcScale

CONSTANTS
    Videos,    \* sizes of pictures
    Rects,     \* client rectangles the guest may send
    Screens,   \* sizes of the SDL surface
    Modes      \* resolutions of the guest's screen

Pixels == Nat \ {0}

ASSUME InputsAssumption ==
    /\ \A s \in Videos \union Screens \union Modes : s.w \in Pixels /\ s.h \in Pixels
    /\ \A r \in Rects : r.l \in Int /\ r.t \in Int /\ r.w \in Int /\ r.h \in Int

VARIABLES video, clientRect, screen, mode,
          placed,    \* nwindowl, nwindowt, nwindoww, nwindowh
          overlay,   \* *vl, *vt, *vw, *vh
          returned

input == <<video, clientRect, screen, mode>>
vars  == <<input, placed, overlay, returned>>
Unset == [l |-> 0, t |-> 0, w |-> 0, h |-> 0]

Init ==
    /\ video \in Videos /\ clientRect \in Rects /\ screen \in Screens /\ mode \in Modes
    /\ placed = Unset /\ overlay = Unset
    /\ returned = FALSE

(* The call of va_do_drawing_locked.                                       *)
Call ==
    /\ ~returned
    /\ placed' = Placed(video, clientRect)
    /\ overlay' = calcScale(video, clientRect, screen, mode)
    /\ returned' = TRUE
    /\ UNCHANGED input

Spec == Init /\ [][Call]_vars

windoww == Clamp(clientRect.w)
windowh == Clamp(clientRect.h)

(***************************************************************************)
(* Properties                                                              *)
(***************************************************************************)
(* The input is one the program can meet, and the results are integers.    *)
TypeOK ==
    /\ video \in Videos /\ clientRect \in Rects /\ screen \in Screens /\ mode \in Modes
    /\ \A r \in {placed, overlay} : r.l \in Int /\ r.t \in Int /\ r.w \in Nat /\ r.h \in Nat

(* The fitted picture lies inside the client rectangle of the player, cut  *)
(* down to 2000 pixels: it never covers the guest's other windows.         *)
InsideWindow ==
    returned =>
        /\ clientRect.l <= placed.l /\ placed.l + placed.w <= clientRect.l + windoww
        /\ clientRect.t <= placed.t /\ placed.t + placed.h <= clientRect.t + windowh

(* The picture is as large as the window lets it be: it touches two        *)
(* opposite sides, and in the other direction it has the video's aspect    *)
(* ratio, rounded down to a pixel.                                         *)
LargestFit ==
    returned =>
        \/ /\ placed.h = windowh
           /\ placed.w * video.h <= placed.h * video.w
           /\ placed.h * video.w < (placed.w + 1) * video.h
        \/ /\ placed.w = windoww
           /\ placed.h * video.w <= placed.w * video.h
           /\ placed.w * video.h < (placed.h + 1) * video.w

(* The picture is centred: opposite margins differ by at most one pixel.   *)
Centred ==
    LET right  == clientRect.l + windoww - (placed.l + placed.w)
        bottom == clientRect.t + windowh - (placed.t + placed.h)
    IN returned =>
        /\ right - (placed.l - clientRect.l) \in {0, 1}
        /\ bottom - (placed.t - clientRect.t) \in {0, 1}

(* A client rectangle on the guest's screen gives an overlay rectangle on  *)
(* the SDL surface, however the surface is scaled: roundings do not add up *)
(* to a pixel outside it.                                                  *)
OnScreen ==
    returned
    /\ 0 <= clientRect.l /\ clientRect.l + clientRect.w <= mode.w /\ 0 <= clientRect.w
    /\ 0 <= clientRect.t /\ clientRect.t + clientRect.h <= mode.h /\ 0 <= clientRect.h
    =>  /\ 0 <= overlay.l /\ overlay.l + overlay.w <= screen.w
        /\ 0 <= overlay.t /\ overlay.t + overlay.h <= screen.h

=============================================================================
