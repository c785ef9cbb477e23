\* The freeze overlay and the circuit breaker alone.
SPECIFICATION MCSpec
CONSTANTS
    Addr = {a1}
    MaxTime = 6
    MaxBills = 1
    MaxBindings = 1
    EMERGENCY_RESUME_DELAY = 2
    MAX_FREEZE_DURATION = 2
    FreezeDurations = {0, 2, 3}
CHECK_DEADLOCK FALSE
INVARIANTS
    FreezesExpire
PROPERTIES
    PauseOutlastsDelay
