SPECIFICATION MCSpec
CONSTANTS
  Nil = Nil
  Tasks = {"t1"}
  Bindings = {"b1"}
  Verifiers = {"v1", "v2"}
  bindingTaskId <- GatewayBinding
  Thresholds <- GatewayThresholds
  Windows = {1}
  MinWindow = 1
  Configs = {}
  Stakes = {0}
  MaxStake = 0
  MaxPool = 0
  MaxListed = 2
  MaxTime = 1
  Zero = Nil
  Parts = {"worker", "faults", "crashes", "scans", "onescan", "anchoring", "settling",
           "root", "miniapp", "restart", "network", "challenge", "gateway", "othertask",
           "staking"}
INVARIANTS
  ProgressTypeOK
  OneVoteEach
  ChallengedAfterOnly
PROPERTIES
  SettledByMajority
  
  
  EverythingEnds
CHECK_DEADLOCK FALSE
