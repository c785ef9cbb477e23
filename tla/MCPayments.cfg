SPECIFICATION MCSpec
CONSTANTS
  Nil = Nil
  Tasks = {"t1"}
  Wallets = {"w1"}
  Requesters = {"alice"}
  Nonces = {1, 2, 3}
  Amounts = {0, 4}
  MaxSigned = 3
  MaxEvents = 3
  Parts = {"settlement", "side", "pair", "cycle", "arbitration", "keys", "spend", "trade",
           "launch", "codes", "profiles", "dids", "a2a", "chat", "billing", "ledger",
           "ledgercrash", "store", "receipts", "retry"}
INVARIANTS
  PaymentsTypeOK
  SignedOnce
  TasksFollowLog
  
  
PROPERTIES
  RefinesSignedLog
  PaidIsEarned
  
  
  RecordsTellOneStory
CHECK_DEADLOCK FALSE
