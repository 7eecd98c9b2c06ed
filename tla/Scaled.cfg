SPECIFICATION ScaledSpec
CONSTANTS
    Videos <- SomeVideos
    Rects <- SomeRects
    Screens <- SomeScreens
    Modes <- SomeModes
    Sizes = {4, 8, 9, 12, 13}
    None = None
INVARIANTS LargestFit OnScreen OverPlayer InsideSource
CHECK_DEADLOCK FALSE
