SPECIFICATION FairSpec
CONSTANTS
    None = None
    Hosts = {1, 2}
    Watched = {1}
    Ifaces = {1}
    Timeout = 2
    RetryDelay = 3
    Period = 3
    RxCap = 2
    LineCap = 1
    MaxDelay = 2
    MaxStall = 1
    MaxGap = 1
    MaxRestarts = 1
INVARIANTS TypeOK AnswersGoHome
PROPERTIES ActiveKept HostServed Discoverable GroupsLeft
