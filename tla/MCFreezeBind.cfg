\* Documented: a freeze blocks bind.
SPECIFICATION Spec
CONSTANTS
    Addr = {a1, a2}
    Token = {usdc}
    LockAmounts = {15}
    InitialFunds = 15
    TaskId = {task}
    IntentTask = intentTask
    NoTask = noTask
    PenaltyRates = {}
    IntentExpiries = {}
    ShareBps = {}
    FeeQuotes = {0}
    DefaultTiming <- MCTiming
    TimingChoices <- NoTimingChange
    BatchThresholds = {}
    TokenFlags = {}
    BridgeFlags = {}
    GuardFlags = {TRUE}
    FreezeDurations = {1}
    MaxBills = 2
    MaxBindings = 1
    MaxTime = 3
    Horizon = 3
    DAY = 1
    EMERGENCY_RESUME_DELAY = 1
    MAX_FREEZE_DURATION = 1
SYMMETRY Accounts
CONSTRAINT TwoScopes
CHECK_DEADLOCK FALSE
PROPERTIES
    FreezeBlocksBind
