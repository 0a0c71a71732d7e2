SPECIFICATION Spec
CONSTANTS
    Mio = Mio
    Nobody = Nobody
    None = None
    Ids = {r1, r2}
    Addrs = {a1, a2}
    Senders = {sender}
    Receivers = {receiver}
    EnableMetrics = TRUE
    OutCap = 2
    CtlCap = 2
    MaxBatch = 2
    AllowDrop = TRUE
SYMMETRY Symmetry
CHECK_DEADLOCK FALSE
INVARIANTS TypeOK ConnsConsistent CacheCoherent EventsFitCache NoZombie FilterCurrent NoLostWakeup
