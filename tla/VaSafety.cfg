SPECIFICATION Spec
CONSTANTS
    s1 = s1
    s2 = s2
    NULL = NULL
    Surfaces <- SomeSurfaces
    Modes <- OneMode
    VideoSizes <- TwoSizes
    GuestRects <- SomeRects
    CodecIds = {5, 8, 9}
    OverlayIds = {o1, o2}
    MaxReads = 4
    GuestDisciplined = FALSE
    SizeStable = FALSE
    OverlayMayFail = TRUE
INVARIANTS
    OverlayOwned
    DisplayedFits
    DisplayedIsNew
