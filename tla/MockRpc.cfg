SPECIFICATION FairSpec
CONSTANTS
  Conns = {c1, c2}
  NoConn = NoConn
  MaxSubID = 2
  FirstHeight = 0
  MaxHeight = 2
INVARIANTS
  NoSubscriberMissesTheHead
PROPERTIES
  AppliesLeaveNoGap
  ClosedSubscriptionsAreSilent
  EverySubscriberHearsOfTheLastBlock
  RequestsAreAnswered
CHECK_DEADLOCK FALSE
