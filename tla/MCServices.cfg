CONSTANTS
  Orders = {"o1", "o2"}
  MaxPrice = 1
  Prices = {1}
  Requests <- MCRequests
  Nobody = "nobody"
  MaxCrashes = 1
  NoRow = NoRow
  EscrowCalls <- MCEscrowCalls
  NoSigner = "none"
  SignerOf <- MCSignerOf
  Authorized = {"s1", "s2"}
  Required = 2
  Voters <- MCVoters
  Others <- MCOthers
  VoterOf <- MCVoterOf
  ChoiceOf <- MCChoiceOf
  GovernanceOp <- MCGovernanceOp
  ChangesTo = {"SUCCEEDED", "CANCELLED"}
  Quorum = 2
  StakedAmounts = {0, 1}
  Bidders = {"a", "b"}
  NoBidder = "none"
  BidAmounts <- MCBidAmounts
  EndsAt = 2
  StartingPrice = 1
  MinBidIncrement = 1
  ReservePrice = 2
  MaxExtensions = 1
  Threshold = 1
  Extension = 1
  MaxNow = 3
  MaxBids = 2
  MaxRestarts = 1
  MaxReleases = 1
  MaxPending <- MCMaxPending
  KeyCalls <- MCKeyCalls
  KeyOp <- MCKeyOp
  MaxUses = 2
  MaxKeys = 3
  StepCount = 3
  Modes = {"sequential", "parallel"}
  Compensable <- MCCompensable
  MessageIds = {"m", "n"}
  MaxAdded = 4
  Sockets = {"s1", "s2", "s3"}
  Rooms = {"r1", "r2"}
  Users = {"u"}
  NoUser = "none"
  MaxPerUser = 1
  MaxRooms = 2
  MinCount = 0
  Assets = {"USDT", "BTC", "ETH", "BNB", "SOL", "ADA"}
  Tables <- MCTables
  MaxHops = 4
SPECIFICATION ServicesSpec
INVARIANTS
  ServicesTypeOK
  ReleaseIsBacked
  RowsFollowEngine
  OutcomeIsBacked
  FundsFollowBids
  RetiredKeysAreReplaced
  FailedSagaIsUndone
  AddedInOrder
  RoomsMatchSubscriptions
  RouteIsShortest
PROPERTIES
  HandedOutInOrder
CHECK_DEADLOCK FALSE
