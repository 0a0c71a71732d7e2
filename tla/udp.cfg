SPECIFICATION FairSpec
CONSTANTS
    None = None
    Addrs = {1, 2}
    Ids = {1}
    Timeout = 2
    Period = 2
    MaxStall = 1
    MaxGap = 1
    Watched = {1}
INVARIANTS TypeOK TimeoutCached
PROPERTY KeepsContract PunctualStays SilentLost Discovered
