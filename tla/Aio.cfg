SPECIFICATION FairSpec
CONSTANTS
    Acbs = {a1, a2}
    Threads = {t1, t2}
    MaxContext = 1
    MaxSubmits = 3
    None = None
INVARIANTS RequestNoticed OneOwner
PROPERTIES RightContext EveryRequestEnds
CHECK_DEADLOCK FALSE
