SPECIFICATION Spec
CONSTANTS
  alice = alice
  bob = bob
  carol = carol
  dave = dave
  erin = erin
  Accounts <- BookAccounts
  AccountOrder <- AllAccounts
  GenesisCandidates = {}
  Joiners <- OneCandidate
  Backers <- FourBackers
  Amounts = {1, 2}
  InitialBtc <- BookBtc
  MaxRound = 2
  MaxCandidates = 1
  MaxTopDelegationsPerCandidate = 2
  MaxBottomDelegationsPerCandidate = 1
  MinDelegation = 1
  MaxDelegationsPerDelegator = 1
  LeaveCandidatesDelay = 1
  CandidateBondLessDelay = 1
  RevokeDelegationDelay = 1
SYMMETRY BackerSymmetry
INVARIANTS
  TypeOK
  MetadataMatchesBook
  TotalsMatchBook
  TopIsTheLargest
  RecordsAgree
  RequestsFitBonds
  PalletCoversStakes
  NoRequestStuck
PROPERTIES
  WealthPreserved
  StakeFallsOnlyByRule
