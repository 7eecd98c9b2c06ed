SPECIFICATION MemorySpec
CONSTANTS
    Messages = {m1, m2, m3}
    Readers = {r1, r2}
    Builders = {b1, b2}
    Buffers = {a1, a2, a3, a4, a5}
    NULL = NULL
SYMMETRY Symmetry
INVARIANTS RefcountExact NothingLeaked BuilderUnshared ReaderPointerLive
CHECK_DEADLOCK FALSE
