SPECIFICATION FairSpec
CONSTANTS
    s1 = s1
    s2 = s2
    NULL = NULL
    Surfaces <- SomeSurfaces
    Modes <- OneMode
    VideoSizes <- TwoSizes
    GuestRects <- VisibleRect
    CodecIds = {5, 8}
    OverlayIds = {o1, o2}
    MaxReads = 4
    GuestDisciplined = TRUE
    SizeStable = TRUE
    OverlayMayFail = FALSE
INVARIANTS
    PictureReady
    NoFault
PROPERTIES
    OverlayReleased
    PictureDrawn
