SPECIFICATION Spec
CONSTANTS
  alice = alice
  bob = bob
  carol = carol
  dave = dave
  erin = erin
  Accounts <- SharedAccounts
  AccountOrder <- AllAccounts
  GenesisCandidates = {}
  Joiners <- TwoCandidates
  Backers <- CrossBackers
  Amounts = {1, 2}
  InitialBtc <- CrossBtc
  MaxRound = 2
  MaxCandidates = 2
  MaxTopDelegationsPerCandidate = 1
  MaxBottomDelegationsPerCandidate = 1
  MinDelegation = 1
  MaxDelegationsPerDelegator = 2
  LeaveCandidatesDelay = 1
  CandidateBondLessDelay = 1
  RevokeDelegationDelay = 1
SYMMETRY CrossSymmetry
INVARIANTS
  PoolMatchesActive
  RolesExclusive
  RecordsAgree
  RequestsFitBonds
PROPERTIES
  SetsFollowVectors
