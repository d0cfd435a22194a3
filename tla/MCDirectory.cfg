SPECIFICATION DirectorySpec
CONSTANTS
  sp1 = sp1
  sp2 = sp2
  serviceURL = serviceURL
  ipniPiece = ipniPiece
  v1 = v1
  Addresses <- TwoAddresses
  NoAddress = NoAddress
  Infos = {1}
  Keys <- TwoKeys
  Values <- OneValue
  NoValue = NoValue
  KeyBits <- OverlappingBits
  RequiredKeys <- OneRequiredKey
  MaxCapabilities = 2
  MaxUint = 15
  MaxProviders = 3
  MaxProducts = 3
  ProviderIds = {1, 2, 3, 4, 8}
  SlotsPerWord = 2
  IdLimit = 8
  ApprovableIds = {1, 2, 3}
  LargestNumber = 15
  fwss1 = fwss1
  fwss2 = fwss2
  fwss3 = fwss3
  view1 = view1
  Implementations <- ThreeImplementations
  FirstImplementation = fwss1
  NoImplementation = NoImplementation
  Views <- OneView
  NoView = NoView
  MaxHeight = 3
INVARIANTS
  PagesListActiveProviders
  RegistrationsAgree
  CapabilitiesMatchTheirKeys
  ListedOnceWithoutGaps
  ApprovedOnExactlyOnePage
PROPERTIES
  IdsNameOneProviderForGood
  ImplementsIdSet
  UpgradesHaveNotice
SYMMETRY AddressSymmetry
CHECK_DEADLOCK FALSE
