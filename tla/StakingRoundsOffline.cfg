SPECIFICATION RoundsSpec
CONSTANTS
  alice = alice
  bob = bob
  carol = carol
  charlie = charlie
  here = here
  Accounts <- RoundsAccounts
  GenesisCandidates <- RoundsCandidates
  Joiners = {}
  Backers <- RoundsBackers
  Amounts = {1}
  InitialBtc <- RoundsBtc
  MaxRound = 4
  MaxCandidates = 2
  MaxTopDelegationsPerCandidate = 1
  MaxBottomDelegationsPerCandidate = 1
  MinDelegation = 1
  MaxDelegationsPerDelegator = 1
  LeaveCandidatesDelay = 1
  CandidateBondLessDelay = 1
  RevokeDelegationDelay = 1
  MaxGroupSize = 2
  MaxGroupNumber = 2
  MaxRunningAPP = 1
  GenesisMetric <- PairMetric
  Metrics <- TwoSelected
  Seeds = {0}
  Processors <- RoundsProcessors
  Addresses <- RoundsAddresses
  CandidateLists = {}
  Announcements = {}
  AccountOrder <- RoundsOrder
  GenesisBlocksPerRound = 3
  MinBlocksPerRound = 3
  BlockLengths = {3, 4}
  RewardPaymentDelay = 1
  MaxOfflineRounds = 2
  RoundReward = 20
  Accuracy = 100
  GenesisCommission = 10
  Commissions = {10, 20}
  Awardees <- RoundsCandidates
  Awards = {1}
  GenesisPot = 10
  Deposits = {40}
  MaxPot = 50
  MaxPoints = 1
  MaxCalls = 4
  MaxBlock = 10
INVARIANT
  InactiveIsNotifiable
CHECK_DEADLOCK FALSE
