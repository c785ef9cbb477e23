\* Lifecycle: one binding, every bind function, the administrator moving windows,
\* threshold and allow list under it.
SPECIFICATION NoFreezeSpec
CONSTANTS
    Addr = {a1, a2}
    Token = {usdc}
    LockAmounts = {5, 15}
    InitialFunds = 20
    TaskId = {task}
    IntentTask = intentTask
    NoTask = noTask
    PenaltyRates = {3333, 3334, 10000}
    IntentExpiries = {1, 3}
    ShareBps = {0, 3333, 10000, 10001}
    FeeQuotes = {0}
    DefaultTiming <- MCTiming
    TimingChoices <- TimingChange
    BatchThresholds = {0, 20}
    TokenFlags = {TRUE, FALSE}
    BridgeFlags = {}
    GuardFlags = {}
    FreezeDurations = {}
    MaxBills = 2
    MaxBindings = 1
    MaxTime = 5
    Horizon = 5
    DAY = 1
    EMERGENCY_RESUME_DELAY = 1
    MAX_FREEZE_DURATION = 1
SYMMETRY Accounts
CHECK_DEADLOCK FALSE

    
PROPERTIES
    ClosedIsFinal
    DisputeProtectsBuyer
