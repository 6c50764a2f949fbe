SPECIFICATION Spec
CONSTANTS
  DedupCalls <- MCDedupCalls
  NoCall = "none"
  Tasks <- MCTasks
  WorkerCount = 2
  TradeCalls <- MCTradeCalls
  Users <- MCUsers
  Asset = "BTC"
  OrderIds <- MCOrderIds
  Bids <- MCBids
  Asks <- MCAsks
  Deposits <- MCDeposits
INVARIANTS
  TypeOK
  EntriesAreLive
  QueueIsServed
  NoOverdraft
PROPERTIES
  JoinersAnswered
  TasksAnswered
  RunsEnd
CHECK_DEADLOCK FALSE
