---------------------------- MODULE MCVaPlayback ----------------------------
(***************************************************************************)
(* Small instances of VaPlayback: two surface addresses, one of them used  *)
(* again for another size, a video that grows, a player window that is     *)
(* moved and one without height.                                           *)
(***************************************************************************)
EXTENDS VaPlayback

CONSTANTS s1, s2

SomeSurfaces ==
    {[id |-> s1, w |-> 800, h |-> 600],
     [id |-> s2, w |-> 400, h |-> 300],
     [id |-> s1, w |-> 400, h |-> 300]}
OneMode     == {[w |-> 800, h |-> 600]}
TwoSizes    == {[w |-> 320, h |-> 240], [w |-> 640, h |-> 360]}
OneSize     == {[w |-> 640, h |-> 360]}
SomeRects   == {[l |-> 10, t |-> 20, w |-> 320, h |-> 200],
                [l |-> -5, t |-> 0, w |-> 300, h |-> -1]}
VisibleRect == {[l |-> 10, t |-> 20, w |-> 320, h |-> 200]}

=============================================================================
