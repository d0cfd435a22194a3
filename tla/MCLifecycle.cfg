SPECIFICATION Spec
CONSTANTS
  p1 = p1
  p2 = p2
  n1 = n1
  n2 = n2
  n3 = n3
  Payers <- TwoPayers
  LockupPeriod = 1
  MaxDataSets = 2
  MaxPieces = 2
  Nonces <- TwoNonces
  FirstEpoch = 1
  MaxEpoch = 3
  ProvingConfigs = {}
  InitialConfig <- TwoByOne
  StoragePrices = {}
  MinimumRates = {}
  InitialStoragePrice = 1
  InitialMinimumRate = 1
  MaxStoragePrice = 2
  MaxMinimumRate = 2
  DustRate = 1
  PiecesPerUnit = 1
  CdnOptions = {FALSE}
  CdnLockup = 1
  CacheMissLockup = 1
  CdnAmounts = {}
  MaxCdnLockup = 1
  RemovablePieces = {0}
  ChallengeFinality = 2
  DryPayers = {}
INVARIANTS
  PayingRailsKeepTheirDataSet
  RegistersAgreeWithVerifier
PROPERTY
  NoncesAreSpentForGood
SYMMETRY PayerAndNonceSymmetry
CHECK_DEADLOCK FALSE
