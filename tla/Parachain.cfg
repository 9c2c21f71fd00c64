SPECIFICATION ChainSpec
CONSTANTS
  alice = alice
  bob = bob
  charlie = charlie
  here = here
  Accounts <- ChainAccounts
  GenesisCandidates <- ChainAccounts
  Joiners = {}
  Backers = {}
  Amounts = {1}
  InitialBtc <- NobodysBtc
  MaxRound = 4
  MaxCandidates = 2
  MaxTopDelegationsPerCandidate = 1
  MaxBottomDelegationsPerCandidate = 1
  MinDelegation = 1
  MaxDelegationsPerDelegator = 1
  LeaveCandidatesDelay = 1
  CandidateBondLessDelay = 1
  RevokeDelegationDelay = 1
  MaxGroupSize = 2
  MaxGroupNumber = 2
  MaxRunningAPP = 2
  GenesisMetric <- TwoGroups
  Metrics <- ChainMetrics
  Seeds = {0, 1}
  Processors <- ChainProcessors
  Addresses <- ChainAddresses
  CandidateLists = {}
  Announcements = {}
  AccountOrder <- ChainOrder
  GenesisBlocksPerRound = 3
  MinBlocksPerRound = 3
  BlockLengths = {3, 6}
  RewardPaymentDelay = 1
  MaxOfflineRounds = 1
  RoundReward = 20
  Accuracy = 100
  GenesisCommission = 10
  Commissions = {}
  Awardees = {}
  Awards = {}
  GenesisPot = 0
  Deposits = {}
  MaxPot = 0
  MaxPoints = 1
  MaxCalls = 5
  MaxBlock = 10
  AppInfos = {1}
  Urls = {1, 2}
  MaxRuningAPP = 2
INVARIANTS
  RunOpensRound
  RunnersAreStaked
  NoGroupWaits
  ToldBeforeRun
CHECK_DEADLOCK FALSE
