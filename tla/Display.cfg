SPECIFICATION Spec
CONSTANTS
    Sizes = {1, 2}
    StartSize = 2
    Depths = {8, 16, 32}
    HostBpp = 32
    None = None
INVARIANTS OwnerKnown NoDangling DrawInside ZoomPossible
CHECK_DEADLOCK FALSE
