\* Accounting: four bills, two bindings, every way of closing them.
SPECIFICATION NoFreezeSpec
CONSTANTS
    Addr = {a1, a2}
    Token = {usdc}
    LockAmounts = {0, 5, 15}
    InitialFunds = 20
    TaskId = {task}
    IntentTask = intentTask
    NoTask = noTask
    PenaltyRates = {}
    IntentExpiries = {}
    ShareBps = {3333}
    FeeQuotes = {0}
    DefaultTiming <- MCTiming
    TimingChoices <- NoTimingChange
    BatchThresholds = {}
    TokenFlags = {}
    BridgeFlags = {}
    GuardFlags = {}
    FreezeDurations = {}
    MaxBills = 4
    MaxBindings = 2
    MaxTime = 3
    Horizon = 3
    DAY = 1
    EMERGENCY_RESUME_DELAY = 1
    MAX_FREEZE_DURATION = 1
SYMMETRY Accounts
CHECK_DEADLOCK FALSE
INVARIANTS
    TypeOK
    CountersAgree
    BillsFitBindings
    TotalsMatchBills
