\* Freeze: the whole system with one binding; operators freeze, pause and rewire
\* between any two transactions of the parties.
SPECIFICATION Spec
CONSTANTS
    Addr = {a1, a2}
    Token = {usdc}
    LockAmounts = {15}
    InitialFunds = 15
    TaskId = {task}
    IntentTask = intentTask
    NoTask = noTask
    PenaltyRates = {}
    IntentExpiries = {}
    ShareBps = {0, 10000}
    FeeQuotes = {0}
    DefaultTiming <- MCTiming
    TimingChoices <- NoTimingChange
    BatchThresholds = {}
    TokenFlags = {}
    BridgeFlags = {}
    GuardFlags = {TRUE, FALSE}
    FreezeDurations = {1}
    MaxBills = 2
    MaxBindings = 1
    MaxTime = 3
    Horizon = 3
    DAY = 1
    EMERGENCY_RESUME_DELAY = 1
    MAX_FREEZE_DURATION = 1
SYMMETRY Accounts
CONSTRAINT TwoScopes
CHECK_DEADLOCK FALSE
INVARIANTS
    FreezeLeavesExits
PROPERTIES
    FrozenPaysNoSeller
