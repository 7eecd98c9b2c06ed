SPECIFICATION FairSpec
CONSTANTS
    Block = 3
    Puts = {1, 2, 3}
    SockRoom = 4
    Limits = {0, 2, 5}
    MaxBytes = 12
INVARIANTS StreamInOrder HandlersRight VmKept
PROPERTIES FlushedAtEnd MigrationEnds
CHECK_DEADLOCK FALSE
