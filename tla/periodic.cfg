SPECIFICATION FairPeriodicSpec
CONSTANTS
    Mio = Mio
    Nobody = Nobody
    None = None
    Ids = {r1}
    Addrs = {a1, a2}
    Senders = {thread, user}
    Receivers = {receiver}
    Periodic = thread
    EnableMetrics = TRUE
    OutCap = 1
    CtlCap = 1
    PCtlCap = 1
    MaxBatch = 1
    AllowDrop = TRUE
INVARIANT PeriodicTypeOK
PROPERTIES RobotsServed PeriodicCallsReturn PeriodicDropReturns
CHECK_DEADLOCK FALSE
