SPECIFICATION Spec
CONSTANTS
    MaxPending = 2
    CounterMod = 4
    MaxSent = 7
    MaxDelay = 3
INVARIANT NoSilentLoss
CHECK_DEADLOCK FALSE
