SPECIFICATION ServerFairSpec
CONSTANTS
    Server = Server
    Children = {k1, k2, k3}
    Clients = {c1, c2, c3}
    None = None
    MaxFiles = 2
    Backlog = 2
INVARIANT FilesAccounted
PROPERTIES SocketsReleased NoClientWaits
CHECK_DEADLOCK FALSE
