SPECIFICATION FairSpec
CONSTANTS
    None = None
    Ports = {1, 2}
    Ids = {1}
    Tokens = {11, 12, 13, 14}
    Timeout = 1
    ProbePeriod = 3
    Window = 1
    MaxStall = 1
    Watched = {1}
INVARIANTS TypeOK OpenOnce TimeoutCached
PROPERTIES KeepsContract SilentLost Discovered
