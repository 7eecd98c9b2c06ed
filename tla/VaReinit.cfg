SPECIFICATION Spec
CONSTANTS
    s1 = s1
    s2 = s2
    NULL = NULL
    Surfaces <- SomeSurfaces
    Modes <- OneMode
    VideoSizes <- OneSize
    GuestRects <- VisibleRect
    CodecIds = {5, 8}
    OverlayIds = {o1, o2}
    MaxReads = 3
    GuestDisciplined = FALSE
    SizeStable = TRUE
    OverlayMayFail = FALSE
INVARIANT
    PictureReady
