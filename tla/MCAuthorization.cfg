SPECIFICATION Spec
CONSTANTS
  Payers = {p}
  SessionKeys = {k}
  Payees = {x, y}
  Contents = {a}
  Numbers = {n1, n2, n3}
  Nobody = Nobody
  PermissionSets <- OneOrAll
  MaxDataSets = 2
  MaxPieces = 1
  MaxExpiry = 1
  MaxTime = 2
  MaxSignatures = 3
INVARIANTS
  DataSetsHoldWhatWasOrdered
  MarshaledSignaturesAreAccepted
PROPERTIES
  ImplementsConsent
  KeysSpeakWithinTheirPermission
SYMMETRY Symmetry
CHECK_DEADLOCK FALSE
