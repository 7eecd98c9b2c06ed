------------------------------ MODULE SdlZoom ------------------------------
(***************************************************************************)
(* sdl_zoom_blit and sdl_zoom_rgb16/32 (sdl_zoom.c, sdl_zoom_template.h):  *)
(* a changed rectangle of the guest screen is drawn, smoothed, into the    *)
(* window it is scaled to.  Columns and rows are treated alike, so this is *)
(* one dimension of it.  Positions in the source are 16.16 fixed point.    *)
(* The divisions of blit are made in floating point and converted to int;  *)
(* for sizes up to 4096 that is division rounded down.                     *)
(***************************************************************************)
EXTENDS Integers

CONSTANTS Sizes,   \* sizes of the guest screen and the window
          None

One == 65536

ASSUME ZoomAssumption == Sizes \subseteq Nat \ {0, 1}

VARIABLES
    call,   \* the arguments: sizes of source and destination, in_rect
    zoom,   \* the rectangle of the destination to draw
    pc,     \* "blit", then the loops "jump" and "draw", then "done"
    x,      \* the destination column next drawn
    csax,   \* the entry of the table sax for it
    c00     \* the source column the pointer c00 is at

zoomVars == <<call, zoom, pc, x, csax, c00>>

Calls == [src : Sizes, dst : Sizes, x : Nat, w : Nat]
Rectangles == [x : Nat, w : Nat]

ZoomTypeOK ==
    /\ call \in Calls
    /\ call.w > 0 /\ call.x < call.src
    /\ zoom \in Rectangles \cup {None}
    /\ pc \in {"blit", "jump", "draw", "done"}
    /\ pc # "blit" => zoom \in Rectangles
    /\ x \in Nat /\ csax \in Nat /\ c00 \in Nat

(* in_rect lies on the guest screen, or is the whole window when the       *)
(* window was exposed.                                                     *)
ZoomInit ==
    /\ \E s, d \in Sizes : \E left \in 0 .. s - 1 :
          \E w \in (1 .. s - left) \cup {v \in {d} : left = 0} :
              call = [src |-> s, dst |-> d, x |-> left, w |-> w]
    /\ zoom = None
    /\ pc = "blit"
    /\ x = 0 /\ csax = 0 /\ c00 = 0

(* src_rect: the changed rectangle, grown to avoid edge artefacts          *)
Grown(c) ==
    LET left == IF c.x > 0 THEN c.x - 1 ELSE 0
    IN  [x |-> left,
         w |-> IF left + c.w + 1 > c.src THEN c.src - left ELSE c.w + 1]

(* One source pixel's worth of destination pixels more, up to the edge     *)
WithExtra(c, left, w) ==
    LET extra == (c.dst - 1) \div c.src + 1
    IN  IF left + w < c.dst - extra THEN w + extra ELSE c.dst - left

Zoomed(c) ==
    LET left == (Grown(c).x * c.dst) \div c.src
        w    == (Grown(c).w * c.dst + (c.src - 1)) \div c.src
    IN  [x |-> left, w |-> WithExtra(c, left, w)]

StepFullWidth(c) == (One * c.src) \div c.dst

(* sx, by which the position in the source grows from column to column     *)
Step(c) == (One * (c.src - 1)) \div c.dst

sdl_zoom_blit ==
    /\ pc = "blit"
    /\ zoom' = Zoomed(call)
    /\ pc' = "jump"
    /\ UNCHANGED <<call, x, csax, c00>>

(* The table: csx &= 0xffff; csx += sx                                     *)
NextEntry(e) == (e % One) + Step(call)

Advance ==
    /\ x' = x + 1
    /\ csax' = NextEntry(csax)
    /\ c00' = c00 + csax' \div One

(* sstep_jump: over the columns before the rectangle                       *)
Jump ==
    /\ pc = "jump"
    /\ IF x < zoom.x THEN Advance /\ UNCHANGED pc
                     ELSE pc' = "draw" /\ UNCHANGED <<x, csax, c00>>
    /\ UNCHANGED <<call, zoom>>

(* The column is interpolated from c00 and c01 = c00 + 1.                  *)
Draw ==
    /\ pc = "draw"
    /\ IF x < zoom.x + zoom.w THEN Advance /\ UNCHANGED pc
                              ELSE pc' = "done" /\ UNCHANGED <<x, csax, c00>>
    /\ UNCHANGED <<call, zoom>>

ZoomNext == sdl_zoom_blit \/ Jump \/ Draw

ZoomSpec == ZoomInit /\ [][ZoomNext]_zoomVars

-----------------------------------------------------------------------------
(* The rectangle is not empty and lies on the window, so that drawing it   *)
(* writes to the window's pixels only.                                     *)
InsideDestination ==
    zoom # None => zoom.w > 0 /\ zoom.x + zoom.w <= call.dst

Drawing == pc = "draw" /\ x < zoom.x + zoom.w

(* Both columns read for a column drawn are columns of the guest screen:   *)
(* the steps that accumulate in c00 do not run over the right edge.        *)
InsideSource == Drawing => c00 + 1 < call.src

(* Where a column is read from does not depend on where the drawing began: *)
(* the fractions the table drops are not lost.                             *)
NoDrift == c00 = (x * Step(call)) \div One

=============================================================================
