SPECIFICATION Spec
CONSTANTS
  p1 = p1
  p2 = p2
  n1 = n1
  n2 = n2
  n3 = n3
  Payers <- OnePayer
  LockupPeriod = 2
  MaxDataSets = 1
  MaxPieces = 0
  Nonces <- ThreeNonces
  FirstEpoch = 1
  MaxEpoch = 5
  ProvingConfigs = {}
  InitialConfig <- TwoByOne
  StoragePrices = {}
  MinimumRates = {}
  InitialStoragePrice = 1
  InitialMinimumRate = 1
  MaxStoragePrice = 2
  MaxMinimumRate = 2
  DustRate = 1
  PiecesPerUnit = 1
  CdnOptions = {TRUE, FALSE}
  CdnLockup = 1
  CacheMissLockup = 1
  CdnAmounts = {0, 1}
  MaxCdnLockup = 2
  RemovablePieces = {}
  ChallengeFinality = 1
  DryPayers = {}
INVARIANTS
  TypeOK
  NoCdnRailOutlivesItsKey
  ServiceCanAlwaysBeTerminated
SYMMETRY NonceSymmetry
CHECK_DEADLOCK FALSE
