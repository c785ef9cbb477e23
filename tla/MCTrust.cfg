SPECIFICATION MCSpec
CONSTANTS
  Nil = Nil
  MaxVersion = 2
  MaxRequests = 1
  MaxClock = 3
  Approvers = {"ann", "ben", "cid"}
  Required = 2
  Rollouts = {10}
  Buckets = {5, 50}
  Overlap = FALSE
  Overrides = TRUE
  Agent = {"a1", "a2"}
  MaxAttempts = 2
  Nonce = {"n1", "n2"}
  MaxCount = 4
  NoAgent = Nil
  Parts = {"directory", "production", "processes", "ranking", "kinds", "reputation", "wash",
           "attestation", "policies", "brake", "operations", "delivery", "sweep", "fields",
           "procurement", "food", "quorum", "window", "registry", "chain", "stress",
           "graph", "order"}
INVARIANTS
  TrustTypeOK
  PolicyGoverns
  
  
PROPERTIES
  FieldsSealed
  DirectoryIsTrue
  
  
  
CHECK_DEADLOCK FALSE
