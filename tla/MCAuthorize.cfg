\* Documented: authorize is one of the contract's operations.
SPECIFICATION SCPSpec
CONSTANTS
    Addr = {a1, a2}
    Token = {usdc}
    LockAmounts = {5}
    InitialFunds = 20
    TaskId = {}
    IntentTask = intentTask
    NoTask = noTask
    PenaltyRates = {}
    IntentExpiries = {}
    ShareBps = {}
    FeeQuotes = {0}
    DefaultTiming <- MCTiming
    TimingChoices <- NoTimingChange
    BatchThresholds = {}
    TokenFlags = {}
    BridgeFlags = {}
    GuardFlags = {}
    FreezeDurations = {}
    MaxBills = 2
    MaxBindings = 1
    MaxTime = 2
    Horizon = 2
    DAY = 1
    EMERGENCY_RESUME_DELAY = 1
    MAX_FREEZE_DURATION = 1
    AuthExpiries = {0}
CHECK_DEADLOCK FALSE
INVARIANTS
    AuthorizeWorks
