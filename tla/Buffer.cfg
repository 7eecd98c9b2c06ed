SPECIFICATION BufferSpec
CONSTANTS
    Base = 4
    Word = 2
    IntTypes <- SomeTypes
    Items <- SomeItems
    InitCaps = {0, 3}
    Reserves = {2, 5}
    MaxAlloc = 11
    MaxString = 4
    MaxWrite = 4
    MaxItems = 2
INVARIANTS InBounds RoundTrip
