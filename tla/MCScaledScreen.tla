--------------------------- MODULE MCScaledScreen ---------------------------
(* A small instance of ScaledScreen: pictures, surfaces and resolutions    *)
(* whose ratios do not divide evenly, rectangles that are empty, negative, *)
(* off the screen or beyond the 2000 pixels of calcScale.                  *)
EXTENDS ScaledScreen

SomeVideos  == {[w |-> 1, h |-> 1], [w |-> 4, h |-> 3], [w |-> 3, h |-> 7],
                [w |-> 20, h |-> 9]}
SomeScreens == {[w |-> 5, h |-> 4], [w |-> 9, h |-> 9], [w |-> 20, h |-> 13]}
SomeModes   == {[w |-> 9, h |-> 8], [w |-> 7, h |-> 12]}
SomeRects   ==
    [l : {-3, 0, 2}, t : {-1, 0, 1}, w : {-1, 0, 1, 5, 7}, h : {-1, 0, 2, 7, 8}]
        \union [l : {0}, t : {0}, w : {3, 2001}, h : {5, 2001}]

=============================================================================
