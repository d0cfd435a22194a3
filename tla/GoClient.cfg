SPECIFICATION ClientSpec
CONSTANTS
  MaxPrefix = 2
  MissingErrors = {"RailNotFullySettled", "ReentrancyGuardReentrantCall"}
  Chains = {314, 314159}
  ThisChain = 314
  MetadataKeys = {key}
  MetadataValues = {value}
  EmptyValue = EmptyValue
  Cids = {cid}
  MaxEntries = 2
  MaxAdded = 2
INVARIANTS
  DocumentedFormatsAreParsed
  TypedErrorsAreTrue
  WhatIsStoredWasSigned
PROPERTIES
  OrdersSurviveTheirEncoding
CHECK_DEADLOCK FALSE
