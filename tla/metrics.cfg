SPECIFICATION Spec
CONSTANTS
    MaxPending = 2
    CounterMod = 4
    MaxSent = 7
    MaxDelay = 3
INVARIANTS TypeOK SampledOnce LossIsLate RttExact OutageSeen
CHECK_DEADLOCK FALSE
