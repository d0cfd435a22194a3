SPECIFICATION Spec
CONSTANTS
  MaxEpoch = 6
  MaxPeriodLength = 4
INVARIANTS
  LoopComputesFindProvenEpochs
  LoopMeetsTheSettlementRules
  OnlyTheLastPeriodCanBeOpen
CHECK_DEADLOCK FALSE
