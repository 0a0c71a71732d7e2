SPECIFICATION FairSpec
CONSTANTS
    Mio = Mio
    Nobody = Nobody
    None = None
    Ids = {r1}
    Addrs = {a1}
    Senders = {client}
    Receivers = {client}
    EnableMetrics = TRUE
    OutCap = 1
    CtlCap = 1
    MaxBatch = 1
    AllowDrop = FALSE
PROPERTY CallsReturn
CHECK_DEADLOCK FALSE
