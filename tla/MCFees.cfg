\* Fees: a bridge that quotes nothing, a little or too much, and pulls at once,
\* later or never, while a second binding holds money in the same escrow.
SPECIFICATION NoFreezeSpec
CONSTANTS
    Addr = {a1, a2}
    Token = {usdc}
    LockAmounts = {15}
    InitialFunds = 30
    TaskId = {}
    IntentTask = intentTask
    NoTask = noTask
    PenaltyRates = {}
    IntentExpiries = {}
    ShareBps = {}
    FeeQuotes = {0, 1, 100}
    DefaultTiming <- MCTiming
    TimingChoices <- NoTimingChange
    BatchThresholds = {}
    TokenFlags = {}
    BridgeFlags = {TRUE, FALSE}
    GuardFlags = {}
    FreezeDurations = {}
    MaxBills = 4
    MaxBindings = 2
    MaxTime = 3
    Horizon = 3
    DAY = 1
    EMERGENCY_RESUME_DELAY = 1
    MAX_FREEZE_DURATION = 1
SYMMETRY Accounts
CHECK_DEADLOCK FALSE
INVARIANTS
    Solvent
PROPERTIES
    PayoutSharesPool
