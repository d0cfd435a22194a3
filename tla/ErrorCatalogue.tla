-------------------------- MODULE ErrorCatalogue --------------------------
(***************************************************************************)
(* The custom errors of the contracts as the generated Go package          *)
(* evmerrors knows them, in the order of its files. A row of Types is      *)
(* <<struct, ErrorSelector(), Go types of its fields>>, of Decoders        *)
(* <<struct that is returned, ABI types that are unpacked>>.               *)
(***************************************************************************)
EXTENDS Sequences

\* Go types of fields.
Big   == "*big.Int"
Adr   == "common.Address"
Byte  == "uint8"
Str   == "string"
Bool  == "bool"
Bytes == "[]byte"

\* Solidity types of parameters.
U   == "uint256"
A   == "address"
U8  == "uint8"
S   == "string"
B   == "bool"
B32 == "bytes32"

----------------------------------------------------------------------------
(* errors.go: a struct for each error *)

Types1 == {<<"AddressAlreadySet", "0xca062e88", <<Byte>>>>,
    <<"AddressEmptyCode", "0x9996b315", <<Adr>>>>,
    <<"AtLeastOnePriceMustBeNonZero", "0x84b8dcae", <<>>>>,
    <<"CDNPaymentAlreadyTerminated", "0x8b82bf2b", <<Big>>>>,
    <<"CacheMissPaymentAlreadyTerminated", "0x34fee1da", <<Big>>>>,
    <<"CallerNotPayer", "0x1176a89f", <<Big, Adr, Adr>>>>,
    <<"CallerNotPayerOrPayee", "0x7e47554b", <<Big, Adr, Adr, Adr>>>>,
    <<"CallerNotPayments", "0xed73634e", <<Adr, Adr>>>>}
Types2 == {<<"CannotModifyTerminatedRailBeyondEndEpoch", "0x323d3c67", <<Big, Big, Big>>>>,
    <<"CannotSettleFutureEpochs", "0x1d932033", <<Big, Big, Big>>>>,
    <<"CannotSettleTerminatedRailBeforeMaxEpoch", "0x20827009", <<Big, Big, Big>>>>,
    <<"ChallengeWindowTooEarly", "0xc41d66e8", <<Big, Big, Big>>>>,
    <<"ClientDataSetAlreadyRegistered", "0xdb94c961", <<Big>>>>,
    <<"CommissionExceedsMaximum", "0x45d4d477", <<Byte, Big, Big>>>>,
    <<"CommissionRateTooHigh", "0x49c4e4f0", <<Big, Big>>>>}
Types3 == {<<"CurrentLockupLessThanOldLockup", "0x92dfe5fc", <<Adr, Adr, Big, Big>>>>,
    <<"DataSetNotFoundForRail", "0x1f7a6b73", <<Big>>>>,
    <<"DataSetNotRegistered", "0x8a961ba3", <<Big>>>>,
    <<"DataSetPaymentAlreadyTerminated", "0x211a40c0", <<Big>>>>,
    <<"DataSetPaymentBeyondEndEpoch", "0xd7c45de5", <<Big, Big, Big>>>>,
    <<"DivisionByZero", "0x23d359a3", <<>>>>,
    <<"DuplicateMetadataKey", "0xca210722", <<Big, Str>>>>,
    <<"ERC1967InvalidImplementation", "0x4c9c8ce3", <<Adr>>>>}
Types4 == {<<"ERC1967NonPayable", "0xb398979f", <<>>>>, <<"ExtraDataRequired", "0x6a514229", <<>>>>,
    <<"ExtraDataTooLarge", "0xa9255222", <<Big, Big>>>>, <<"FailedCall", "0xd6bda275", <<>>>>,
    <<"FeeWithdrawalNativeTransferFailed", "0xfadd7dd5", <<Adr, Big>>>>,
    <<"FilBeamServiceNotConfigured", "0x54f754fd", <<Big>>>>,
    <<"IndexedError", "0xc7b67cf3", <<Big, Str>>>>,
    <<"InsufficientCapabilitiesForProduct", "0xdd978c4f", <<Byte>>>>}
Types5 == {<<"InsufficientCurrentLockup", "0x6fb42560", <<Adr, Adr, Big, Big>>>>,
    <<"InsufficientFundsForOneTimePayment", "0xcdc76e7c", <<Adr, Adr, Big, Big>>>>,
    <<"InsufficientFundsForSettlement", "0x707dfeab", <<Adr, Adr, Big, Big>>>>,
    <<"InsufficientLockupAllowance", "0xdfca894c", <<Adr, Adr, Big, Big, Big>>>>,
    <<"InsufficientLockupForSettlement", "0x18d8ed64", <<Adr, Adr, Big, Big>>>>,
    <<"InsufficientLockupFunds", "0xdae03403", <<Adr, Big, Big>>>>,
    <<"InsufficientMaxLockupPeriod", "0x591b6546", <<Adr, Adr, Big, Big>>>>}
Types6 == {<<"InsufficientNativeTokenForBurn", "0x3e2f02c1", <<Big, Big>>>>,
    <<"InsufficientRateAllowance", "0x3a66032e", <<Adr, Adr, Big, Big, Big>>>>,
    <<"InsufficientUnlockedFunds", "0xe610210c", <<Big, Big>>>>,
    <<"InvalidChallengeCount", "0x985bf88a", <<Big, Big, Big>>>>,
    <<"InvalidChallengeEpoch", "0x25a0c7f7", <<Big, Big, Big, Big>>>>,
    <<"InvalidChallengeWindowSize", "0x5d0ad0ad", <<Big, Big>>>>,
    <<"InvalidDataSetId", "0xcba16d8c", <<Big>>>>}
Types7 == {<<"InvalidEpochRange", "0xbb4e0af7", <<Big, Big>>>>,
    <<"InvalidInitialization", "0xf92ee8a9", <<>>>>,
    <<"InvalidRateChangeQueueState", "0x2e78e91f", <<Big, Big>>>>,
    <<"InvalidServiceDescriptionLength", "0x028af3d4", <<Big>>>>,
    <<"InvalidServiceNameLength", "0x57e65eb8", <<Big>>>>,
    <<"InvalidSignature", "0x42d750dc", <<Adr, Adr>>>>,
    <<"InvalidSignatureLength", "0xd615d706", <<Big, Big>>>>,
    <<"InvalidTerminatedRailModification", "0xf72a2118", <<Big, Big, Big, Big>>>>}
Types8 == {<<"InvalidTopUpAmount", "0x2c5e9e88", <<Big>>>>,
    <<"LockupExceedsFundsInvariant", "0x3bea1fb8", <<Adr, Adr, Big, Big>>>>,
    <<"LockupFixedIncreaseNotAllowedDueToInsufficientFunds", "0x249e1b0e", <<Adr, Adr, Big, Big>>>>,
    <<"LockupInconsistencyDuringRailFinalization", "0xdb3137ef", <<Big, Adr, Adr, Big, Big>>>>,
    <<"LockupNotSettledRateChangeNotAllowed", "0x020c2e30", <<Big, Adr, Bool, Big, Big>>>>,
    <<"LockupPeriodChangeNotAllowedDueToInsufficientFunds", "0x9bd4f7f6", <<Adr, Adr, Big, Big>>>>,
    <<"LockupPeriodExceedsOperatorMaximum", "0xb8afa055", <<Adr, Adr, Big, Big>>>>}
Types9 == {<<"LockupRateInconsistent", "0xa18ff4af", <<Big, Adr, Big, Big>>>>,
    <<"LockupRateLessThanOldRate", "0xd909f4e2", <<Big, Adr, Big, Big>>>>,
    <<"MaxProvingPeriodZero", "0xab9ff1e7", <<>>>>,
    <<"MetadataArrayCountMismatch", "0x9b7cf882", <<Big, Big>>>>,
    <<"MetadataKeyAndValueLengthMismatch", "0xa3741480", <<Big, Big>>>>,
    <<"MetadataKeyExceedsMaxLength", "0xd307879f", <<Big, Big, Big>>>>,
    <<"MetadataValueExceedsMaxLength", "0x9a16e82a", <<Big, Big, Big>>>>}
Types10 == {<<"MissingServiceFeeRecipient", "0xe237a731", <<>>>>,
    <<"MustSendExactNativeAmount", "0x753a1281", <<Big, Big>>>>,
    <<"NativeTokenNotAccepted", "0x2546923b", <<Big>>>>,
    <<"NativeTokenNotSupported", "0xb10b947e", <<>>>>,
    <<"NativeTransferFailed", "0xa5b05eec", <<Adr, Big>>>>,
    <<"NextProvingPeriodAlreadyCalled", "0x033bf3f1", <<Big, Big, Big>>>>,
    <<"NoPDPPaymentRail", "0x5d3bfcbb", <<Big>>>>,
    <<"NoProgressInSettlement", "0xae296731", <<Big, Big, Big>>>>}
Types11 == {<<"NotAuthorizedToTerminateRail", "0x766e1d31", <<Big, Adr, Adr, Adr>>>>,
    <<"NotInitializing", "0xd7e6bcf8", <<>>>>,
    <<"OldServiceProviderMismatch", "0x23964715", <<Big, Adr, Adr>>>>,
    <<"OneTimePaymentExceedsLockup", "0xc58d5cbc", <<Big, Big, Big>>>>,
    <<"OnlyFilBeamControllerAllowed", "0xc2aebdff", <<Adr, Adr>>>>,
    <<"OnlyPDPVerifierAllowed", "0x6459cb42", <<Adr, Adr>>>>,
    <<"OnlyRailClientAllowed", "0x2c0d8add", <<Adr, Adr>>>>}
Types12 == {<<"OnlyRailOperatorAllowed", "0xf4d2d70a", <<Adr, Adr>>>>,
    <<"OnlyRailParticipantAllowed", "0x1dcd4c5f", <<Adr, Adr, Adr, Adr>>>>,
    <<"OnlySelf", "0x3ce8f537", <<Adr, Adr>>>>,
    <<"OperatorLockupAllowanceExceeded", "0x8dcd0606", <<Big, Big>>>>,
    <<"OperatorNotApproved", "0xeef23db6", <<Adr, Adr>>>>,
    <<"OperatorRateAllowanceExceeded", "0x6c577bf9", <<Big, Big>>>>,
    <<"OwnableInvalidOwner", "0x1e4fbdf7", <<Adr>>>>,
    <<"OwnableUnauthorizedAccount", "0x118cdaa7", <<Adr>>>>}
Types13 == {<<"PaymentRailsNotFinalized", "0x23fe2e89", <<Big, Big>>>>,
    <<"PriceExceedsMaximum", "0x40dc9097", <<Byte, Big, Big>>>>,
    <<"ProofAlreadySubmitted", "0x425335c3", <<Big>>>>,
    <<"ProviderAlreadyApproved", "0x431cf638", <<Big>>>>,
    <<"ProviderNotInApprovedList", "0x52d6fdb5", <<Big>>>>,
    <<"ProviderNotRegistered", "0x232cb27a", <<Adr>>>>,
    <<"ProvingNotStarted", "0x28bb1a79", <<Big>>>>,
    <<"ProvingPeriodNotInitialized", "0x999010d5", <<Big>>>>}
Types14 == {<<"ProvingPeriodPassed", "0x9514f828", <<Big, Big, Big>>>>,
    <<"RailAlreadyTerminated", "0x4947b7af", <<Big>>>>,
    <<"RailInactiveOrSettled", "0xd87df04d", <<Big>>>>,
    <<"RailNotAssociated", "0x797fec96", <<Big>>>>, <<"RailNotTerminated", "0x5a70954b", <<Big>>>>,
    <<"RateChangeNotAllowedOnTerminatedRail", "0x9eb55fd7", <<Big>>>>,
    <<"RateChangeQueueNotEmpty", "0xe60266a8", <<Big>>>>,
    <<"ServiceContractMustTerminateRail", "0x1a1e3e28", <<>>>>}
Types15 == {<<"SignerMustBeMsgSender", "0x5269c0dd", <<Adr, Adr>>>>,
    <<"TooManyMetadataKeys", "0xd516067a", <<Big, Big>>>>,
    <<"UUPSUnauthorizedCallContext", "0xe07c8dba", <<>>>>,
    <<"UUPSUnsupportedProxiableUUID", "0xaa1d49a4", <<Bytes>>>>,
    <<"UnsupportedSignatureV", "0x425c1fae", <<Byte>>>>,
    <<"ValidatorModifiedAmountExceedsMaximum", "0x1fccb6c4", <<Big, Big, Big>>>>,
    <<"ValidatorSettledBeforeSegmentStart", "0x0696a4a4", <<Big, Big, Big>>>>,
    <<"ValidatorSettledBeyondSegmentEnd", "0xcaa0872a", <<Big, Big, Big>>>>}
Types16 == {<<"WithdrawAmountExceedsAccumulatedFees", "0xf7a5ad6d", <<Adr, Big, Big>>>>,
    <<"ZeroAddress", "0x620b9903", <<Byte>>>>, <<"ZeroAddressNotAllowed", "0x44034241", <<Str>>>>}

----------------------------------------------------------------------------
(* decoders.go: a decoder for each error, found by its selector *)

Decoders1 == {<<"AddressAlreadySet", <<U8>>>>, <<"AddressEmptyCode", <<A>>>>,
    <<"AtLeastOnePriceMustBeNonZero", <<>>>>, <<"CDNPaymentAlreadyTerminated", <<U>>>>,
    <<"CacheMissPaymentAlreadyTerminated", <<U>>>>, <<"CallerNotPayer", <<U, A, A>>>>}
Decoders2 == {<<"CallerNotPayerOrPayee", <<U, A, A, A>>>>, <<"CallerNotPayments", <<A, A>>>>,
    <<"CannotModifyTerminatedRailBeyondEndEpoch", <<U, U, U>>>>,
    <<"CannotSettleFutureEpochs", <<U, U, U>>>>,
    <<"CannotSettleTerminatedRailBeforeMaxEpoch", <<U, U, U>>>>}
Decoders3 == {<<"ChallengeWindowTooEarly", <<U, U, U>>>>,
    <<"ClientDataSetAlreadyRegistered", <<U>>>>, <<"CommissionExceedsMaximum", <<U8, U, U>>>>,
    <<"CommissionRateTooHigh", <<U, U>>>>, <<"CurrentLockupLessThanOldLockup", <<A, A, U, U>>>>}
Decoders4 == {<<"DataSetNotFoundForRail", <<U>>>>, <<"DataSetNotRegistered", <<U>>>>,
    <<"DataSetPaymentAlreadyTerminated", <<U>>>>, <<"DataSetPaymentBeyondEndEpoch", <<U, U, U>>>>,
    <<"DivisionByZero", <<>>>>, <<"DuplicateMetadataKey", <<U, S>>>>,
    <<"ERC1967InvalidImplementation", <<A>>>>}
Decoders5 == {<<"ERC1967NonPayable", <<>>>>, <<"ExtraDataRequired", <<>>>>,
    <<"ExtraDataTooLarge", <<U, U>>>>, <<"FailedCall", <<>>>>,
    <<"FeeWithdrawalNativeTransferFailed", <<A, U>>>>, <<"FilBeamServiceNotConfigured", <<U>>>>,
    <<"IndexedError", <<U, S>>>>, <<"InsufficientCapabilitiesForProduct", <<U8>>>>}
Decoders6 == {<<"InsufficientCurrentLockup", <<A, A, U, U>>>>,
    <<"InsufficientFundsForOneTimePayment", <<A, A, U, U>>>>,
    <<"InsufficientFundsForSettlement", <<A, A, U, U>>>>,
    <<"InsufficientLockupAllowance", <<A, A, U, U, U>>>>,
    <<"InsufficientLockupForSettlement", <<A, A, U, U>>>>}
Decoders7 == {<<"InsufficientLockupFunds", <<A, U, U>>>>,
    <<"InsufficientMaxLockupPeriod", <<A, A, U, U>>>>,
    <<"InsufficientNativeTokenForBurn", <<U, U>>>>,
    <<"InsufficientRateAllowance", <<A, A, U, U, U>>>>, <<"InsufficientUnlockedFunds", <<U, U>>>>}
Decoders8 == {<<"InvalidChallengeCount", <<U, U, U>>>>, <<"InvalidChallengeEpoch", <<U, U, U, U>>>>,
    <<"InvalidChallengeWindowSize", <<U, U>>>>, <<"InvalidDataSetId", <<U>>>>,
    <<"InvalidEpochRange", <<U, U>>>>, <<"InvalidInitialization", <<>>>>}
Decoders9 == {<<"InvalidRateChangeQueueState", <<U, U>>>>,
    <<"InvalidServiceDescriptionLength", <<U>>>>, <<"InvalidServiceNameLength", <<U>>>>,
    <<"InvalidSignature", <<A, A>>>>, <<"InvalidSignatureLength", <<U, U>>>>,
    <<"InvalidTerminatedRailModification", <<U, U, U, U>>>>}
Decoders10 == {<<"InvalidTopUpAmount", <<U>>>>, <<"LockupExceedsFundsInvariant", <<A, A, U, U>>>>,
    <<"LockupFixedIncreaseNotAllowedDueToInsufficientFunds", <<A, A, U, U>>>>,
    <<"LockupInconsistencyDuringRailFinalization", <<U, A, A, U, U>>>>,
    <<"LockupNotSettledRateChangeNotAllowed", <<U, A, B, U, U>>>>}
Decoders11 == {<<"LockupPeriodChangeNotAllowedDueToInsufficientFunds", <<A, A, U, U>>>>,
    <<"LockupPeriodExceedsOperatorMaximum", <<A, A, U, U>>>>,
    <<"LockupRateInconsistent", <<U, A, U, U>>>>, <<"LockupRateLessThanOldRate", <<U, A, U, U>>>>,
    <<"MaxProvingPeriodZero", <<>>>>, <<"MetadataArrayCountMismatch", <<U, U>>>>}
Decoders12 == {<<"MetadataKeyAndValueLengthMismatch", <<U, U>>>>,
    <<"MetadataKeyExceedsMaxLength", <<U, U, U>>>>,
    <<"MetadataValueExceedsMaxLength", <<U, U, U>>>>, <<"MissingServiceFeeRecipient", <<>>>>,
    <<"MustSendExactNativeAmount", <<U, U>>>>, <<"NativeTokenNotAccepted", <<U>>>>,
    <<"NativeTokenNotSupported", <<>>>>}
Decoders13 == {<<"NativeTransferFailed", <<A, U>>>>,
    <<"NextProvingPeriodAlreadyCalled", <<U, U, U>>>>, <<"NoPDPPaymentRail", <<U>>>>,
    <<"NoProgressInSettlement", <<U, U, U>>>>, <<"NotAuthorizedToTerminateRail", <<U, A, A, A>>>>,
    <<"NotInitializing", <<>>>>}
Decoders14 == {<<"OldServiceProviderMismatch", <<U, A, A>>>>,
    <<"OneTimePaymentExceedsLockup", <<U, U, U>>>>, <<"OnlyFilBeamControllerAllowed", <<A, A>>>>,
    <<"OnlyPDPVerifierAllowed", <<A, A>>>>, <<"OnlyRailClientAllowed", <<A, A>>>>}
Decoders15 == {<<"OnlyRailOperatorAllowed", <<A, A>>>>,
    <<"OnlyRailParticipantAllowed", <<A, A, A, A>>>>, <<"OnlySelf", <<A, A>>>>,
    <<"OperatorLockupAllowanceExceeded", <<U, U>>>>, <<"OperatorNotApproved", <<A, A>>>>}
Decoders16 == {<<"OperatorRateAllowanceExceeded", <<U, U>>>>, <<"OwnableInvalidOwner", <<A>>>>,
    <<"OwnableUnauthorizedAccount", <<A>>>>, <<"PaymentRailsNotFinalized", <<U, U>>>>,
    <<"PriceExceedsMaximum", <<U8, U, U>>>>, <<"ProofAlreadySubmitted", <<U>>>>}
Decoders17 == {<<"ProviderAlreadyApproved", <<U>>>>, <<"ProviderNotInApprovedList", <<U>>>>,
    <<"ProviderNotRegistered", <<A>>>>, <<"ProvingNotStarted", <<U>>>>,
    <<"ProvingPeriodNotInitialized", <<U>>>>, <<"ProvingPeriodPassed", <<U, U, U>>>>}
Decoders18 == {<<"RailAlreadyTerminated", <<U>>>>, <<"RailInactiveOrSettled", <<U>>>>,
    <<"RailNotAssociated", <<U>>>>, <<"RailNotTerminated", <<U>>>>,
    <<"RateChangeNotAllowedOnTerminatedRail", <<U>>>>, <<"RateChangeQueueNotEmpty", <<U>>>>,
    <<"ServiceContractMustTerminateRail", <<>>>>}
Decoders19 == {<<"SignerMustBeMsgSender", <<A, A>>>>, <<"TooManyMetadataKeys", <<U, U>>>>,
    <<"UUPSUnauthorizedCallContext", <<>>>>, <<"UUPSUnsupportedProxiableUUID", <<B32>>>>,
    <<"UnsupportedSignatureV", <<U8>>>>, <<"ValidatorModifiedAmountExceedsMaximum", <<U, U, U>>>>}
Decoders20 == {<<"ValidatorSettledBeforeSegmentStart", <<U, U, U>>>>,
    <<"ValidatorSettledBeyondSegmentEnd", <<U, U, U>>>>,
    <<"WithdrawAmountExceedsAccumulatedFees", <<A, U, U>>>>, <<"ZeroAddress", <<U8>>>>,
    <<"ZeroAddressNotAllowed", <<S>>>>}

DecoderMap == {<<"0xca062e88", "AddressAlreadySet">>, <<"0x9996b315", "AddressEmptyCode">>,
    <<"0x84b8dcae", "AtLeastOnePriceMustBeNonZero">>,
    <<"0x8b82bf2b", "CDNPaymentAlreadyTerminated">>,
    <<"0x34fee1da", "CacheMissPaymentAlreadyTerminated">>, <<"0x1176a89f", "CallerNotPayer">>,
    <<"0x7e47554b", "CallerNotPayerOrPayee">>, <<"0xed73634e", "CallerNotPayments">>,
    <<"0x323d3c67", "CannotModifyTerminatedRailBeyondEndEpoch">>,
    <<"0x1d932033", "CannotSettleFutureEpochs">>,
    <<"0x20827009", "CannotSettleTerminatedRailBeforeMaxEpoch">>,
    <<"0xc41d66e8", "ChallengeWindowTooEarly">>, <<"0xdb94c961", "ClientDataSetAlreadyRegistered">>,
    <<"0x45d4d477", "CommissionExceedsMaximum">>, <<"0x49c4e4f0", "CommissionRateTooHigh">>,
    <<"0x92dfe5fc", "CurrentLockupLessThanOldLockup">>, <<"0x1f7a6b73", "DataSetNotFoundForRail">>,
    <<"0x8a961ba3", "DataSetNotRegistered">>, <<"0x211a40c0", "DataSetPaymentAlreadyTerminated">>,
    <<"0xd7c45de5", "DataSetPaymentBeyondEndEpoch">>, <<"0x23d359a3", "DivisionByZero">>,
    <<"0xca210722", "DuplicateMetadataKey">>, <<"0x4c9c8ce3", "ERC1967InvalidImplementation">>,
    <<"0xb398979f", "ERC1967NonPayable">>, <<"0x6a514229", "ExtraDataRequired">>,
    <<"0xa9255222", "ExtraDataTooLarge">>, <<"0xd6bda275", "FailedCall">>,
    <<"0xfadd7dd5", "FeeWithdrawalNativeTransferFailed">>,
    <<"0x54f754fd", "FilBeamServiceNotConfigured">>, <<"0xc7b67cf3", "IndexedError">>,
    <<"0xdd978c4f", "InsufficientCapabilitiesForProduct">>,
    <<"0x6fb42560", "InsufficientCurrentLockup">>,
    <<"0xcdc76e7c", "InsufficientFundsForOneTimePayment">>,
    <<"0x707dfeab", "InsufficientFundsForSettlement">>,
    <<"0xdfca894c", "InsufficientLockupAllowance">>,
    <<"0x18d8ed64", "InsufficientLockupForSettlement">>,
    <<"0xdae03403", "InsufficientLockupFunds">>, <<"0x591b6546", "InsufficientMaxLockupPeriod">>,
    <<"0x3e2f02c1", "InsufficientNativeTokenForBurn">>,
    <<"0x3a66032e", "InsufficientRateAllowance">>, <<"0xe610210c", "InsufficientUnlockedFunds">>,
    <<"0x985bf88a", "InvalidChallengeCount">>, <<"0x25a0c7f7", "InvalidChallengeEpoch">>,
    <<"0x5d0ad0ad", "InvalidChallengeWindowSize">>, <<"0xcba16d8c", "InvalidDataSetId">>,
    <<"0xbb4e0af7", "InvalidEpochRange">>, <<"0xf92ee8a9", "InvalidInitialization">>,
    <<"0x2e78e91f", "InvalidRateChangeQueueState">>,
    <<"0x028af3d4", "InvalidServiceDescriptionLength">>,
    <<"0x57e65eb8", "InvalidServiceNameLength">>, <<"0x42d750dc", "InvalidSignature">>,
    <<"0xd615d706", "InvalidSignatureLength">>,
    <<"0xf72a2118", "InvalidTerminatedRailModification">>, <<"0x2c5e9e88", "InvalidTopUpAmount">>,
    <<"0x3bea1fb8", "LockupExceedsFundsInvariant">>,
    <<"0x249e1b0e", "LockupFixedIncreaseNotAllowedDueToInsufficientFunds">>,
    <<"0xdb3137ef", "LockupInconsistencyDuringRailFinalization">>,
    <<"0x020c2e30", "LockupNotSettledRateChangeNotAllowed">>,
    <<"0x9bd4f7f6", "LockupPeriodChangeNotAllowedDueToInsufficientFunds">>,
    <<"0xb8afa055", "LockupPeriodExceedsOperatorMaximum">>,
    <<"0xa18ff4af", "LockupRateInconsistent">>, <<"0xd909f4e2", "LockupRateLessThanOldRate">>,
    <<"0xab9ff1e7", "MaxProvingPeriodZero">>, <<"0x9b7cf882", "MetadataArrayCountMismatch">>,
    <<"0xa3741480", "MetadataKeyAndValueLengthMismatch">>,
    <<"0xd307879f", "MetadataKeyExceedsMaxLength">>,
    <<"0x9a16e82a", "MetadataValueExceedsMaxLength">>,
    <<"0xe237a731", "MissingServiceFeeRecipient">>, <<"0x753a1281", "MustSendExactNativeAmount">>,
    <<"0x2546923b", "NativeTokenNotAccepted">>, <<"0xb10b947e", "NativeTokenNotSupported">>,
    <<"0xa5b05eec", "NativeTransferFailed">>, <<"0x033bf3f1", "NextProvingPeriodAlreadyCalled">>,
    <<"0x5d3bfcbb", "NoPDPPaymentRail">>, <<"0xae296731", "NoProgressInSettlement">>,
    <<"0x766e1d31", "NotAuthorizedToTerminateRail">>, <<"0xd7e6bcf8", "NotInitializing">>,
    <<"0x23964715", "OldServiceProviderMismatch">>, <<"0xc58d5cbc", "OneTimePaymentExceedsLockup">>,
    <<"0xc2aebdff", "OnlyFilBeamControllerAllowed">>, <<"0x6459cb42", "OnlyPDPVerifierAllowed">>,
    <<"0x2c0d8add", "OnlyRailClientAllowed">>, <<"0xf4d2d70a", "OnlyRailOperatorAllowed">>,
    <<"0x1dcd4c5f", "OnlyRailParticipantAllowed">>, <<"0x3ce8f537", "OnlySelf">>,
    <<"0x8dcd0606", "OperatorLockupAllowanceExceeded">>, <<"0xeef23db6", "OperatorNotApproved">>,
    <<"0x6c577bf9", "OperatorRateAllowanceExceeded">>, <<"0x1e4fbdf7", "OwnableInvalidOwner">>,
    <<"0x118cdaa7", "OwnableUnauthorizedAccount">>, <<"0x23fe2e89", "PaymentRailsNotFinalized">>,
    <<"0x40dc9097", "PriceExceedsMaximum">>, <<"0x425335c3", "ProofAlreadySubmitted">>,
    <<"0x431cf638", "ProviderAlreadyApproved">>, <<"0x52d6fdb5", "ProviderNotInApprovedList">>,
    <<"0x232cb27a", "ProviderNotRegistered">>, <<"0x28bb1a79", "ProvingNotStarted">>,
    <<"0x999010d5", "ProvingPeriodNotInitialized">>, <<"0x9514f828", "ProvingPeriodPassed">>,
    <<"0x4947b7af", "RailAlreadyTerminated">>, <<"0xd87df04d", "RailInactiveOrSettled">>,
    <<"0x797fec96", "RailNotAssociated">>, <<"0x5a70954b", "RailNotTerminated">>,
    <<"0x9eb55fd7", "RateChangeNotAllowedOnTerminatedRail">>,
    <<"0xe60266a8", "RateChangeQueueNotEmpty">>,
    <<"0x1a1e3e28", "ServiceContractMustTerminateRail">>, <<"0x5269c0dd", "SignerMustBeMsgSender">>,
    <<"0xd516067a", "TooManyMetadataKeys">>, <<"0xe07c8dba", "UUPSUnauthorizedCallContext">>,
    <<"0xaa1d49a4", "UUPSUnsupportedProxiableUUID">>, <<"0x425c1fae", "UnsupportedSignatureV">>,
    <<"0x1fccb6c4", "ValidatorModifiedAmountExceedsMaximum">>,
    <<"0x0696a4a4", "ValidatorSettledBeforeSegmentStart">>,
    <<"0xcaa0872a", "ValidatorSettledBeyondSegmentEnd">>,
    <<"0xf7a5ad6d", "WithdrawAmountExceedsAccumulatedFees">>, <<"0x620b9903", "ZeroAddress">>,
    <<"0x44034241", "ZeroAddressNotAllowed">>}

----------------------------------------------------------------------------
(* helpers.go: an Is function for each error *)

Helpers1 == {"AddressAlreadySet", "AddressEmptyCode", "AtLeastOnePriceMustBeNonZero",
    "CDNPaymentAlreadyTerminated", "CacheMissPaymentAlreadyTerminated", "CallerNotPayer",
    "CallerNotPayerOrPayee", "CallerNotPayments", "CannotModifyTerminatedRailBeyondEndEpoch",
    "CannotSettleFutureEpochs", "CannotSettleTerminatedRailBeforeMaxEpoch",
    "ChallengeWindowTooEarly", "ClientDataSetAlreadyRegistered", "CommissionExceedsMaximum",
    "CommissionRateTooHigh"}
Helpers2 == {"CurrentLockupLessThanOldLockup", "DataSetNotFoundForRail", "DataSetNotRegistered",
    "DataSetPaymentAlreadyTerminated", "DataSetPaymentBeyondEndEpoch", "DivisionByZero",
    "DuplicateMetadataKey", "ERC1967InvalidImplementation", "ERC1967NonPayable",
    "ExtraDataRequired", "ExtraDataTooLarge", "FailedCall", "FeeWithdrawalNativeTransferFailed",
    "FilBeamServiceNotConfigured", "IndexedError"}
Helpers3 == {"InsufficientCapabilitiesForProduct", "InsufficientCurrentLockup",
    "InsufficientFundsForOneTimePayment", "InsufficientFundsForSettlement",
    "InsufficientLockupAllowance", "InsufficientLockupForSettlement", "InsufficientLockupFunds",
    "InsufficientMaxLockupPeriod", "InsufficientNativeTokenForBurn", "InsufficientRateAllowance",
    "InsufficientUnlockedFunds", "InvalidChallengeCount", "InvalidChallengeEpoch",
    "InvalidChallengeWindowSize", "InvalidDataSetId"}
Helpers4 == {"InvalidEpochRange", "InvalidInitialization", "InvalidRateChangeQueueState",
    "InvalidServiceDescriptionLength", "InvalidServiceNameLength", "InvalidSignature",
    "InvalidSignatureLength", "InvalidTerminatedRailModification", "InvalidTopUpAmount",
    "LockupExceedsFundsInvariant", "LockupFixedIncreaseNotAllowedDueToInsufficientFunds",
    "LockupInconsistencyDuringRailFinalization", "LockupNotSettledRateChangeNotAllowed",
    "LockupPeriodChangeNotAllowedDueToInsufficientFunds", "LockupPeriodExceedsOperatorMaximum"}
Helpers5 == {"LockupRateInconsistent", "LockupRateLessThanOldRate", "MaxProvingPeriodZero",
    "MetadataArrayCountMismatch", "MetadataKeyAndValueLengthMismatch",
    "MetadataKeyExceedsMaxLength", "MetadataValueExceedsMaxLength", "MissingServiceFeeRecipient",
    "MustSendExactNativeAmount", "NativeTokenNotAccepted", "NativeTokenNotSupported",
    "NativeTransferFailed", "NextProvingPeriodAlreadyCalled", "NoPDPPaymentRail",
    "NoProgressInSettlement"}
Helpers6 == {"NotAuthorizedToTerminateRail", "NotInitializing", "OldServiceProviderMismatch",
    "OneTimePaymentExceedsLockup", "OnlyFilBeamControllerAllowed", "OnlyPDPVerifierAllowed",
    "OnlyRailClientAllowed", "OnlyRailOperatorAllowed", "OnlyRailParticipantAllowed", "OnlySelf",
    "OperatorLockupAllowanceExceeded", "OperatorNotApproved", "OperatorRateAllowanceExceeded",
    "OwnableInvalidOwner", "OwnableUnauthorizedAccount"}
Helpers7 == {"PaymentRailsNotFinalized", "PriceExceedsMaximum", "ProofAlreadySubmitted",
    "ProviderAlreadyApproved", "ProviderNotInApprovedList", "ProviderNotRegistered",
    "ProvingNotStarted", "ProvingPeriodNotInitialized", "ProvingPeriodPassed",
    "RailAlreadyTerminated", "RailInactiveOrSettled", "RailNotAssociated", "RailNotTerminated",
    "RateChangeNotAllowedOnTerminatedRail", "RateChangeQueueNotEmpty"}
Helpers8 == {"ServiceContractMustTerminateRail", "SignerMustBeMsgSender", "TooManyMetadataKeys",
    "UUPSUnauthorizedCallContext", "UUPSUnsupportedProxiableUUID", "UnsupportedSignatureV",
    "ValidatorModifiedAmountExceedsMaximum", "ValidatorSettledBeforeSegmentStart",
    "ValidatorSettledBeyondSegmentEnd", "WithdrawAmountExceedsAccumulatedFees", "ZeroAddress",
    "ZeroAddressNotAllowed"}

----------------------------------------------------------------------------
ErrorTypes    == UNION {Types1, Types2, Types3, Types4, Types5, Types6, Types7, Types8, Types9,
                          Types10, Types11, Types12, Types13, Types14, Types15, Types16}
ErrorDecoders == UNION {Decoders1, Decoders2, Decoders3, Decoders4, Decoders5, Decoders6, Decoders7,
                          Decoders8, Decoders9, Decoders10, Decoders11, Decoders12, Decoders13,
                          Decoders14, Decoders15, Decoders16, Decoders17, Decoders18, Decoders19,
                          Decoders20}
IsHelpers     == UNION {Helpers1, Helpers2, Helpers3, Helpers4, Helpers5, Helpers6, Helpers7,
                          Helpers8}
=============================================================================
