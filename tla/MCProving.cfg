SPECIFICATION Spec
CONSTANTS
  p1 = p1
  p2 = p2
  n1 = n1
  n2 = n2
  n3 = n3
  Payers <- OnePayer
  LockupPeriod = 4
  MaxDataSets = 1
  MaxPieces = 2
  Nonces <- ThreeNonces
  FirstEpoch = 1
  MaxEpoch = 8
  ProvingConfigs = {}
  InitialConfig <- TwoByOne
  StoragePrices = {}
  MinimumRates = {}
  InitialStoragePrice = 1
  InitialMinimumRate = 1
  MaxStoragePrice = 2
  MaxMinimumRate = 2
  DustRate = 1
  PiecesPerUnit = 1
  CdnOptions = {FALSE}
  CdnLockup = 1
  CacheMissLockup = 1
  CdnAmounts = {}
  MaxCdnLockup = 1
  RemovablePieces = {}
  ChallengeFinality = 1
  DryPayers = {}
INVARIANT
  DeadlinesOnTheGrid
PROPERTIES
  ProofsCountForTheirOwnPeriod
  ImplementsArbitratedPayment
SYMMETRY NonceSymmetry
CHECK_DEADLOCK FALSE
