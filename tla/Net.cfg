SPECIFICATION FairSpec
CONSTANTS
    tap = tap
    user = user
    nic = nic
    None = None
    Clients <- AllThree
    Refusers = {tap, nic}
    Droppers = {nic}
    Repliers = {user}
    Callbacks = {tap, nic}
    Vectors = {nic}
    Room = 1
    MaxSent <- Sent
INVARIANTS InOrder CallbackOwed
PROPERTY SenderResumes
CHECK_DEADLOCK FALSE
