--------------------- MODULE FilecoinWarmStorageService ---------------------
(***************************************************************************)
(* The FilecoinWarmStorageService contract between its two neighbours:     *)
(* PDPVerifier, which calls it back on every operation on a data set, and  *)
(* FilecoinPayV1, whose rails it creates, modifies, terminates and         *)
(* arbitrates.                                                             *)
(*                                                                         *)
(* Every action is one transaction.  A call chain such as                  *)
(*   client -> terminateService -> FilecoinPay.terminateRail               *)
(*          -> railTerminated                                              *)
(* is atomic on chain and one step here; transactions of different actors  *)
(* interleave, several of them in one block.                               *)
(***************************************************************************)
EXTENDS FilecoinPay, ProvingPeriods, SequencesExt

CONSTANTS
  MaxDataSets,         \* bound: data sets that are ever created
  MaxPieces,           \* bound: pieces that are ever added to one data set
  Nonces,              \* nonces clients sign with
  FirstEpoch,          \* block.number when the contract is initialized
  MaxEpoch,            \* bound: last block
  ProvingConfigs,      \* proving parameters the owner may configure
  InitialConfig,       \* ... and the one passed to initialize
  StoragePrices,       \* storage prices the owner may set, 0 for "unchanged"
  MinimumRates,        \* minimum rates the owner may set, 0 for "unchanged"
  InitialStoragePrice, InitialMinimumRate,
  MaxStoragePrice, MaxMinimumRate,
  DustRate,            \* rate of a size that rounds to 0
  PiecesPerUnit,       \* pieces that together cost one storage price
  CdnOptions,          \* whether a client may ask for CDN: a subset of BOOLEAN
  CdnLockup, CacheMissLockup,   \* default fixed lockups of the CDN rails
  CdnAmounts,          \* amounts of CDN top-ups and settlements
  MaxCdnLockup,        \* bound: fixed lockup of a CDN rail
  RemovablePieces,     \* pieces that clients may ask to remove
  ChallengeFinality,   \* PDPVerifier: epochs before a challenge can be drawn
  DryPayers            \* payers that may run out of funds

DataSetIds == 1 .. MaxDataSets
PieceIds   == 0 .. MaxPieces - 1
RailIds    == 1 .. 3 * MaxDataSets
Epochs     == FirstEpoch .. MaxEpoch

\* What initialize demands of the proving parameters, that ids, epochs and rates
\* are what they claim to be, and that the zero address is no client.
ConstantsAssumption ==
  /\ MaxDataSets \in Nat /\ MaxPieces \in Nat
  /\ FirstEpoch \in Nat \ {0} /\ MaxEpoch \in Nat /\ FirstEpoch <= MaxEpoch
  /\ ProvingConfigs \cup {InitialConfig} \subseteq
       [maxProvingPeriod : Nat, challengeWindowSize : Nat]
  /\ InitialConfig.challengeWindowSize > 0
  /\ InitialConfig.challengeWindowSize < InitialConfig.maxProvingPeriod
  /\ StoragePrices \subseteq Nat /\ MinimumRates \subseteq Nat
  /\ InitialStoragePrice \in Nat \ {0} /\ InitialMinimumRate \in Nat \ {0}
  /\ MaxStoragePrice \in Nat /\ MaxMinimumRate \in Nat
  /\ DustRate \in Nat /\ PiecesPerUnit \in Nat \ {0}
  /\ CdnOptions \subseteq BOOLEAN
  /\ CdnLockup \in Nat /\ CacheMissLockup \in Nat
  /\ CdnAmounts \subseteq Nat /\ MaxCdnLockup \in Nat
  /\ RemovablePieces \subseteq PieceIds
  /\ ChallengeFinality \in Nat
  /\ DryPayers \subseteq Payers
  /\ NoPayer \notin Payers

ASSUME Constants == ConstantsAssumption

VARIABLES
  blockNumber,
  \* owner-set parameters of the service
  proving,                \* maxProvingPeriod and challengeWindowSize
  pricing,                \* storagePricePerTibPerMonth, minimumStorageRatePerMonth
  \* proving state of each data set
  provenPeriods, provingActivationEpoch, provingDeadlines, provenThisPeriod,
  \* data sets and what leads to them
  dataSetInfo, clientNonces, clientDataSets, railToDataSet,
  \* metadata: the withCDN key, the pieces with metadata, the pieces to forget
  withCDN, pieceMetadata, scheduledPieceMetadataRemovals,
  \* external: PDPVerifier's data sets, FilecoinPay's rails and accounts
  pdp, rails, dryAt,
  nextIds,                \* ... and the ids they assign next
  \* history: what was proven, charged and paid, for the properties
  audit

service   == <<proving, pricing>>
schedule  == <<provenPeriods, provingActivationEpoch, provingDeadlines, provenThisPeriod>>
registers == <<dataSetInfo, clientNonces, clientDataSets, railToDataSet>>
metadata  == <<withCDN, pieceMetadata, scheduledPieceMetadataRemovals>>
external  == <<pdp, rails, dryAt, nextIds>>
vars      == <<blockNumber, service, schedule, registers, metadata, external, audit>>

NoProvingDeadline    == 0
NoChallengeScheduled == 0
NoRailId             == 0
NoDataSet            == 0
NoNonce              == [nextPieceId |-> 0, dataSetId |-> NoDataSet]
Solvency             == 0     \* dryAt of a payer whose funds have not run out

NoInfo == [payer |-> NoPayer, pdpRailId |-> NoRailId, cacheMissRailId |-> NoRailId,
           cdnRailId |-> NoRailId, pdpEndEpoch |-> NotEnded]

\* Epochs covered by a proof, the rate each epoch was charged at, what was paid and
\* up to which epoch, how often proving started, whether the payer gave up the
\* arbitration.
NoAudit == [covered |-> {}, rateOf |-> [e \in Epochs |-> 0], paid |-> 0, settledUpTo |-> 0,
            activations |-> 0, waived |-> FALSE]

Init ==
  /\ blockNumber = FirstEpoch
  /\ proving = InitialConfig
  /\ pricing = [storagePrice |-> InitialStoragePrice, minimumRate |-> InitialMinimumRate]
  /\ provenPeriods = [d \in DataSetIds |-> {}]
  /\ provingActivationEpoch = [d \in DataSetIds |-> NeverActivated]
  /\ provingDeadlines = [d \in DataSetIds |-> NoProvingDeadline]
  /\ provenThisPeriod = [d \in DataSetIds |-> FALSE]
  /\ dataSetInfo = [d \in DataSetIds |-> NoInfo]
  /\ clientNonces = [p \in Payers |-> [n \in Nonces |-> NoNonce]]
  /\ clientDataSets = [p \in Payers |-> << >>]
  /\ railToDataSet = [r \in RailIds |-> NoDataSet]
  /\ withCDN = [d \in DataSetIds |-> FALSE]
  /\ pieceMetadata = [d \in DataSetIds |-> {}]
  /\ scheduledPieceMetadataRemovals = [d \in DataSetIds |-> {}]
  /\ pdp = [d \in DataSetIds |-> [status |-> "none", pieces |-> {}, removals |-> {},
                                  nextPieceId |-> 0, challengeEpoch |-> NoChallengeScheduled]]
  /\ rails = [r \in RailIds |-> NoRail]
  /\ dryAt = [p \in Payers |-> Solvency]
  /\ nextIds = [dataSet |-> 1, rail |-> 1]
  /\ audit = [d \in DataSetIds |-> NoAudit]

-----------------------------------------------------------------------------
(* The neighbours' state, as the handlers read it.                         *)

Live(d) == pdp[d].status = "live"

PdpRail(d) == rails[dataSetInfo[d].pdpRailId]
Payer(d)   == dataSetInfo[d].payer

\* Defect: the cache-miss rail forgotten.
BandwidthRailOnly(d) == {dataSetInfo[d].cdnRailId}

CdnRails(d) == {dataSetInfo[d].cacheMissRailId, dataSetInfo[d].cdnRailId}

\* A payer's lockup is settled up to the current block until funds run out.
LockupLastSettledAt(p) == IF dryAt[p] = Solvency THEN blockNumber ELSE dryAt[p]

\* Whether a rail other than r still draws on the payer's funds.
OtherRatedRail(p, r) ==
  \E other \in RailIds \ {r} :
    rails[other].payer = p /\ IsRunning(rails[other]) /\ rails[other].rate > 0

(* The checks and helpers shared by the handlers.                          *)

\* Defect: a terminated data set treated as a running one.
RailExists(d) == dataSetInfo[d].pdpRailId # NoRailId

PaymentNotTerminated(d) ==
  dataSetInfo[d].pdpRailId # NoRailId /\ dataSetInfo[d].pdpEndEpoch = NotEnded

\* Defect: a data set served on after its end.
ServedForEver(d) == TRUE

PaymentNotBeyondEndEpoch(d) ==
  dataSetInfo[d].pdpEndEpoch # NotEnded => blockNumber <= dataSetInfo[d].pdpEndEpoch

\* Defect: only additions recorded as uses of a nonce.
NotSpentOnPieces(p, nonce) == clientNonces[p][nonce].nextPieceId = 0

NonceUnused(p, nonce) == clientNonces[p][nonce] = NoNonce

\* validatePayerOperatorApprovalAndFunds: a payer without funds for the minimum
\* lockup is one that ran dry; approvals are taken as given.
PayerApprovalAndFunds(p) == dryAt[p] = Solvency

\* _calculateStorageRate: the size-based rate, never below the dust rate for a
\* data set with pieces nor below the minimum rate. Rates are per epoch: the division that
\* makes one of the minimum per month, FWSS:1429, is done beforehand.
StorageRate(pieceCount) ==
  LET sizeBased == (pieceCount * pricing.storagePrice) \div PiecesPerUnit
      natural   == IF sizeBased = 0 /\ pieceCount > 0 THEN DustRate ELSE sizeBased
  IN  Max({natural, pricing.minimumRate})

UpdatePaymentRates(d, pieceCount) ==
  LET r    == dataSetInfo[d].pdpRailId
      rate == StorageRate(pieceCount)
  IN  /\ r # NoRailId
      /\ CanSetRate(rails[r], rate, blockNumber, dryAt[Payer(d)] = Solvency)
      /\ rails' = [rails EXCEPT ![r] = SetRate(@, rate, blockNumber)]

\* Defect: the schedule kept after it was carried out.
KeepsSchedule(d, pieceCount) ==
  /\ pieceMetadata' = [pieceMetadata EXCEPT ![d] = @ \ scheduledPieceMetadataRemovals[d]]
  /\ UNCHANGED scheduledPieceMetadataRemovals
  /\ IF scheduledPieceMetadataRemovals[d] = {}
     THEN UNCHANGED rails
     ELSE UpdatePaymentRates(d, pieceCount)

\* processScheduledPieceMetadataRemovals, and the rate update that follows it
\* only if a removal was scheduled.
ProcessScheduledRemovals(d, pieceCount) ==
  /\ pieceMetadata' = [pieceMetadata EXCEPT ![d] = @ \ scheduledPieceMetadataRemovals[d]]
  /\ scheduledPieceMetadataRemovals' = [scheduledPieceMetadataRemovals EXCEPT ![d] = {}]
  /\ IF scheduledPieceMetadataRemovals[d] = {}
     THEN UNCHANGED rails
     ELSE UpdatePaymentRates(d, pieceCount)

-----------------------------------------------------------------------------
(* Callbacks of PDPVerifier.                                               *)

DataSetCreated(p, nonce, hasCDN) ==
  LET d == nextIds.dataSet
      r == nextIds.rail
  IN  /\ d \in DataSetIds
      /\ NonceUnused(p, nonce)
      /\ PayerApprovalAndFunds(p)
      /\ pdp' = [pdp EXCEPT ![d].status = "live"]
      /\ clientNonces' = [clientNonces EXCEPT ![p][nonce] = [NoNonce EXCEPT !.dataSetId = d]]
      /\ clientDataSets' = [clientDataSets EXCEPT ![p] = Append(@, d)]
      /\ dataSetInfo' = [dataSetInfo EXCEPT ![d] =
                           [NoInfo EXCEPT !.payer = p, !.pdpRailId = r,
                                          !.cacheMissRailId = IF hasCDN THEN r + 1 ELSE NoRailId,
                                          !.cdnRailId = IF hasCDN THEN r + 2 ELSE NoRailId]]
      /\ railToDataSet' = [railToDataSet EXCEPT ![r] = d]
      /\ withCDN' = [withCDN EXCEPT ![d] = hasCDN]
      /\ rails' = [i \in RailIds |->
                     CASE i = r                -> NewRail(p, blockNumber, 0)
                       [] hasCDN /\ i = r + 1  -> NewRail(p, blockNumber, CacheMissLockup)
                       [] hasCDN /\ i = r + 2  -> NewRail(p, blockNumber, CdnLockup)
                       [] OTHER                -> rails[i]]
      /\ nextIds' = [dataSet |-> d + 1, rail |-> r + IF hasCDN THEN 3 ELSE 1]
      /\ UNCHANGED <<blockNumber, service, schedule, pieceMetadata,
                     scheduledPieceMetadataRemovals, dryAt, audit>>

\* Defect: the last entry dropped without moving it.
PopOnly(seq, i) == SubSeq(seq, 1, Len(seq) - 1)

\* The removal from the client's list overwrites the entry with the last one.
SwapAndPop(seq, i) == SubSeq([seq EXCEPT ![i] = seq[Len(seq)]], 1, Len(seq) - 1)

\* Defect: deletion as soon as the rail has ended.
EndedIsEnough(rail) == TRUE

\* getRail reverts for a finalized rail, which was settled.
FullySettled(rail) == rail.status = "active" => rail.settledUpTo >= rail.endEpoch

DataSetDeleted(d) ==
  LET info == dataSetInfo[d]
      list == clientDataSets[info.payer]
  IN  /\ Live(d)
      /\ info.pdpRailId # NoRailId
      /\ info.pdpEndEpoch # NotEnded /\ blockNumber > info.pdpEndEpoch
      /\ FullySettled(PdpRail(d))
      /\ pdp' = [pdp EXCEPT ![d].status = "deleted", ![d].pieces = {},
                            ![d].challengeEpoch = NoChallengeScheduled]
      /\ clientDataSets' = [clientDataSets EXCEPT ![info.payer] =
                              IF \E i \in DOMAIN list : list[i] = d
                              THEN SwapAndPop(list, Min({i \in DOMAIN list : list[i] = d}))
                              ELSE list]
      /\ provingDeadlines' = [provingDeadlines EXCEPT ![d] = NoProvingDeadline]
      /\ provenThisPeriod' = [provenThisPeriod EXCEPT ![d] = FALSE]
      /\ provingActivationEpoch' = [provingActivationEpoch EXCEPT ![d] = NeverActivated]
      /\ railToDataSet' = [railToDataSet EXCEPT ![info.pdpRailId] = NoDataSet]
      /\ withCDN' = [withCDN EXCEPT ![d] = FALSE]
      /\ dataSetInfo' = [dataSetInfo EXCEPT ![d] = NoInfo]
      /\ UNCHANGED <<blockNumber, service, provenPeriods, clientNonces, pieceMetadata,
                     scheduledPieceMetadataRemovals, rails, dryAt, nextIds, audit>>

\* PDPVerifier has counted the new pieces before it calls back.
PiecesAdded(d, count, nonce) ==
  LET p      == Payer(d)
      first  == pdp[d].nextPieceId
      added  == first .. first + count - 1
      pieces == pdp[d].pieces \cup added
  IN  /\ Live(d)
      /\ added \subseteq PieceIds
      /\ PaymentNotTerminated(d)
      /\ NonceUnused(p, nonce)
      /\ clientNonces' = [clientNonces EXCEPT ![p][nonce] =
                            [nextPieceId |-> first + count, dataSetId |-> d]]
      /\ UpdatePaymentRates(d, Cardinality(pieces))
      /\ pieceMetadata' = [pieceMetadata EXCEPT ![d] = @ \cup added]
      /\ pdp' = [pdp EXCEPT ![d].pieces = pieces, ![d].nextPieceId = first + count]
      /\ UNCHANGED <<blockNumber, service, schedule, dataSetInfo, clientDataSets, railToDataSet,
                     withCDN, scheduledPieceMetadataRemovals, dryAt, nextIds, audit>>

PiecesScheduledRemove(d, pieceIds) ==
  /\ Live(d)
  /\ pieceIds \subseteq pdp[d].pieces \ pdp[d].removals
  /\ PaymentNotBeyondEndEpoch(d)
  /\ dataSetInfo[d].pdpRailId # NoRailId
  /\ pdp' = [pdp EXCEPT ![d].removals = @ \cup pieceIds]
  /\ scheduledPieceMetadataRemovals' =
       [scheduledPieceMetadataRemovals EXCEPT ![d] = @ \cup pieceIds]
  /\ UNCHANGED <<blockNumber, service, schedule, registers, withCDN, pieceMetadata,
                 rails, dryAt, nextIds, audit>>

\* The epochs of the period whose deadline is pending.
EpochsOfCurrentPeriod(d) ==
  provingDeadlines[d] - proving.maxProvingPeriod + 1 .. provingDeadlines[d]

PossessionProven(d) ==
  LET deadline == provingDeadlines[d]
      period   == ProvingPeriodForEpoch(provingActivationEpoch[d], blockNumber,
                                        proving.maxProvingPeriod)
  IN  /\ Live(d)
      /\ pdp[d].challengeEpoch # NoChallengeScheduled /\ blockNumber >= pdp[d].challengeEpoch
      /\ PaymentNotBeyondEndEpoch(d)
      /\ ~provenThisPeriod[d]
      /\ deadline # NoProvingDeadline
      /\ blockNumber <= deadline
      /\ deadline - proving.challengeWindowSize \in 0 .. blockNumber
      /\ provenThisPeriod' = [provenThisPeriod EXCEPT ![d] = TRUE]
      /\ provenPeriods' = [provenPeriods EXCEPT ![d] = @ \cup {period}]
      /\ audit' = [audit EXCEPT ![d].covered = @ \cup (EpochsOfCurrentPeriod(d) \cap Epochs)]
      /\ UNCHANGED <<blockNumber, service, provingActivationEpoch, provingDeadlines,
                     registers, metadata, external>>

\* PDPVerifier's part of nextProvingPeriod: scheduled pieces leave the data set,
\* and the provider's challenge epoch is dropped if that empties it.
PiecesAfterRemovals(d) == pdp[d].pieces \ pdp[d].removals

ChallengeEpochOffered(d, challengeEpoch) ==
  IF PiecesAfterRemovals(d) = {}
  THEN challengeEpoch = NoChallengeScheduled
  ELSE challengeEpoch >= blockNumber + ChallengeFinality

ProvingSetUpdated(d, challengeEpoch) ==
  pdp' = [pdp EXCEPT ![d].pieces = PiecesAfterRemovals(d), ![d].removals = {},
                     ![d].challengeEpoch = challengeEpoch]

InChallengeWindow(challengeEpoch, deadline) ==
  challengeEpoch \in deadline - proving.challengeWindowSize .. deadline

\* nextProvingPeriod of a data set whose proving is not running.
StartProving(d, challengeEpoch) ==
  LET firstDeadline == blockNumber + proving.maxProvingPeriod
  IN  /\ Live(d)
      /\ ChallengeEpochOffered(d, challengeEpoch)
      /\ PaymentNotBeyondEndEpoch(d)
      /\ provingDeadlines[d] = NoProvingDeadline
      /\ InChallengeWindow(challengeEpoch, firstDeadline)
      /\ provingDeadlines' = [provingDeadlines EXCEPT ![d] = firstDeadline]
      /\ provingActivationEpoch' = [provingActivationEpoch EXCEPT ![d] = blockNumber]
      /\ ProcessScheduledRemovals(d, Cardinality(PiecesAfterRemovals(d)))
      /\ ProvingSetUpdated(d, challengeEpoch)
      /\ audit' = [audit EXCEPT ![d].activations = @ + 1]
      /\ UNCHANGED <<blockNumber, service, provenPeriods, provenThisPeriod, registers,
                     withCDN, dryAt, nextIds>>

\* Defect: the epochs since then taken for periods.
EpochsSkipped(d) ==
  IF blockNumber <= provingDeadlines[d] THEN 0 ELSE blockNumber - (provingDeadlines[d] + 1)

\* Whole periods that went by since the pending deadline passed.
PeriodsSkipped(d) ==
  IF blockNumber <= provingDeadlines[d]
  THEN 0
  ELSE (blockNumber - (provingDeadlines[d] + 1)) \div proving.maxProvingPeriod

NextDeadline(d) ==
  provingDeadlines[d] + proving.maxProvingPeriod * (PeriodsSkipped(d) + 1)

\* nextProvingPeriod of a data set whose proving is running: the deadline moves
\* on by whole periods, or proving stops because the data set became empty.
AdvanceProvingPeriod(d, challengeEpoch) ==
  LET nextDeadline == IF challengeEpoch = NoChallengeScheduled
                      THEN NoProvingDeadline
                      ELSE NextDeadline(d)
  IN  /\ Live(d)
      /\ ChallengeEpochOffered(d, challengeEpoch)
      /\ PaymentNotBeyondEndEpoch(d)
      /\ provingDeadlines[d] # NoProvingDeadline
      /\ provingDeadlines[d] - proving.maxProvingPeriod \in 0 .. blockNumber - 1
      /\ challengeEpoch # NoChallengeScheduled => InChallengeWindow(challengeEpoch, nextDeadline)
      /\ provingDeadlines' = [provingDeadlines EXCEPT ![d] = nextDeadline]
      /\ provenThisPeriod' = [provenThisPeriod EXCEPT ![d] = FALSE]
      /\ ProcessScheduledRemovals(d, Cardinality(PiecesAfterRemovals(d)))
      /\ ProvingSetUpdated(d, challengeEpoch)
      /\ UNCHANGED <<blockNumber, service, provenPeriods, provingActivationEpoch, registers,
                     withCDN, dryAt, nextIds, audit>>

ChallengeEpochs ==
  {NoChallengeScheduled} \cup (blockNumber .. MaxEpoch + 2 * proving.maxProvingPeriod)

NextProvingPeriod(d) ==
  \E c \in ChallengeEpochs : StartProving(d, c) \/ AdvanceProvingPeriod(d, c)

-----------------------------------------------------------------------------
(* Calls of clients, providers, the FilBeam controller and the owner.      *)

\* Terminates those of the given rails that still run; the others make
\* terminateRail revert, which the caller's try/catch swallows. Of several rails that one
\* call ends, each end counts from the payer's lockup before the call: no property reads
\* how much later a CDN rail ends whose payer the end of the PDP rail made solvent.
TerminateRunning(rs, p) ==
  [r \in RailIds |-> IF r \in rs /\ IsRunning(rails[r])
                     THEN Terminate(rails[r], LockupLastSettledAt(p))
                     ELSE rails[r]]

\* What terminateService, terminateRail and railTerminated demand.
MayTerminateService(d) ==
  LET info == dataSetInfo[d]
  IN  /\ info.pdpRailId # NoRailId
      /\ info.pdpEndEpoch = NotEnded
      /\ IsRunning(rails[info.pdpRailId])
      /\ railToDataSet[info.pdpRailId] # NoDataSet

\* By the payer or the provider.  FilecoinPay calls railTerminated back, which
\* records the end epoch; a payer without other rates is solvent again.
TerminateService(d) ==
  LET info == dataSetInfo[d]
      p    == info.payer
      after == TerminateRunning({info.pdpRailId} \cup IF withCDN[d] THEN CdnRails(d) ELSE {}, p)
  IN  /\ MayTerminateService(d)
      /\ rails' = after
      /\ dataSetInfo' = [dataSetInfo EXCEPT ![railToDataSet[info.pdpRailId]].pdpEndEpoch =
                           after[info.pdpRailId].endEpoch]
      /\ withCDN' = [withCDN EXCEPT ![d] = FALSE]
      /\ dryAt' = [dryAt EXCEPT ![p] = IF OtherRatedRail(p, info.pdpRailId) THEN @ ELSE Solvency]
      /\ UNCHANGED <<blockNumber, service, schedule, clientNonces, clientDataSets, railToDataSet,
                     pieceMetadata, scheduledPieceMetadataRemovals, pdp, nextIds, audit>>

\* By the FilBeam controller.
TerminateCDNService(d) ==
  LET info == dataSetInfo[d]
  IN  /\ withCDN[d]
      /\ info.cacheMissRailId # NoRailId /\ info.cdnRailId # NoRailId
      /\ rails' = TerminateRunning(CdnRails(d), info.payer)
      /\ withCDN' = [withCDN EXCEPT ![d] = FALSE]
      /\ UNCHANGED <<blockNumber, service, schedule, registers, pieceMetadata,
                     scheduledPieceMetadataRemovals, pdp, dryAt, nextIds, audit>>

\* By the FilBeam controller; an amount of 0 leaves its rail alone.
SettleFilBeamPaymentRails(d, cdnAmount, cacheMissAmount) ==
  LET info == dataSetInfo[d]
  IN  /\ info.pdpRailId # NoRailId
      /\ info.cdnRailId # NoRailId /\ info.cacheMissRailId # NoRailId
      /\ cdnAmount > 0 => CanPayOnce(rails[info.cdnRailId], cdnAmount, blockNumber)
      /\ cacheMissAmount > 0 => CanPayOnce(rails[info.cacheMissRailId], cacheMissAmount, blockNumber)
      /\ rails' = [r \in RailIds |->
                     CASE r = info.cdnRailId /\ cdnAmount > 0 -> PayOnce(rails[r], cdnAmount)
                       [] r = info.cacheMissRailId /\ cacheMissAmount > 0
                                                   -> PayOnce(rails[r], cacheMissAmount)
                       [] OTHER                    -> rails[r]]
      /\ UNCHANGED <<blockNumber, service, schedule, registers, metadata, pdp, dryAt, nextIds, audit>>

\* By the payer.
TopUpCDNPaymentRails(d, cdnAmount, cacheMissAmount) ==
  LET info == dataSetInfo[d]
      cdn  == rails[info.cdnRailId]
      miss == rails[info.cacheMissRailId]
  IN  /\ info.pdpRailId # NoRailId
      /\ withCDN[d]
      /\ info.cacheMissRailId # NoRailId /\ info.cdnRailId # NoRailId
      /\ IsRunning(cdn) /\ IsRunning(miss)
      /\ cdnAmount > 0 \/ cacheMissAmount > 0
      /\ dryAt[info.payer] = Solvency
      /\ cdn.lockupFixed + cdnAmount <= MaxCdnLockup
      /\ miss.lockupFixed + cacheMissAmount <= MaxCdnLockup
      /\ rails' = [r \in RailIds |->
                     CASE r = info.cdnRailId       -> RaiseLockup(rails[r], cdnAmount)
                       [] r = info.cacheMissRailId -> RaiseLockup(rails[r], cacheMissAmount)
                       [] OTHER                    -> rails[r]]
      /\ UNCHANGED <<blockNumber, service, schedule, registers, metadata, pdp, dryAt, nextIds, audit>>

\* By the owner.  StoragePrices and MinimumRates hold 0 where the owner may keep
\* one of the two.
UpdatePricing(newStoragePrice, newMinimumRate) ==
  /\ newStoragePrice > 0 \/ newMinimumRate > 0
  /\ newStoragePrice <= MaxStoragePrice
  /\ newMinimumRate <= MaxMinimumRate
  /\ pricing' = [storagePrice |-> IF newStoragePrice > 0 THEN newStoragePrice
                                                         ELSE pricing.storagePrice,
                 minimumRate  |-> IF newMinimumRate > 0 THEN newMinimumRate
                                                        ELSE pricing.minimumRate]
  /\ UNCHANGED <<blockNumber, proving, schedule, registers, metadata, external, audit>>

\* By the owner.
ConfigureProvingPeriod(config) ==
  /\ config.challengeWindowSize > 0
  /\ config.challengeWindowSize < config.maxProvingPeriod
  /\ proving' = config
  /\ UNCHANGED <<blockNumber, pricing, schedule, registers, metadata, external, audit>>

-----------------------------------------------------------------------------
(* FilecoinPay and its users, time and money.                              *)

\* The answers to the validator calls a settlement makes, one per segment.
Outcomes(r, target) ==
  LET rail == rails[r]
      d    == railToDataSet[r]
      validated(i) ==
        IF d = NoDataSet
        THEN [ok |-> FALSE, modifiedAmount |-> 0, settleUpTo |-> SegmentStart(rail, i)]
        ELSE ValidatePayment(provenPeriods[d], SegmentStart(rail, i), SegmentEnd(rail, target, i),
                             SegmentRate(rail, i), provingActivationEpoch[d],
                             proving.maxProvingPeriod, blockNumber)
  IN  [i \in Segments(rail, target) |->
         IF SegmentRate(rail, i) = 0 THEN UnvalidatedOutcome(rail, target, i) ELSE validated(i)]

TargetOf(r, untilEpoch) ==
  SettlementTarget(rails[r], untilEpoch, LockupLastSettledAt(rails[r].payer))

\* By anyone, up to any epoch that has passed.  Only a PDP rail has a data set
\* and a validator; nothing streams on the CDN rails.
SettleRail(r, untilEpoch) ==
  /\ rails[r].status = "active"
  /\ untilEpoch <= blockNumber
  /\ \E target \in {TargetOf(r, untilEpoch)} : \E outcomes \in {Outcomes(r, target)} :
       LET d    == railToDataSet[r]
           last == LastSegment(rails[r], target, outcomes)
       IN  /\ CanSettle(rails[r], target, outcomes)
           /\ rails' = [rails EXCEPT ![r] = Settled(@, target, outcomes)]
           /\ audit' = IF d = NoDataSet
                       THEN audit
                       ELSE [audit EXCEPT ![d].paid = @ + SettledAmount(rails[r], target, outcomes),
                                          ![d].settledUpTo = outcomes[last].settleUpTo]
  /\ UNCHANGED <<blockNumber, service, schedule, registers, metadata, pdp, dryAt, nextIds>>

\* By the payer, once the rail has ended: everything is paid without arbitration.
SettleTerminatedRailWithoutValidation(d) ==
  LET r == dataSetInfo[d].pdpRailId
  IN  /\ r # NoRailId
      /\ rails[r].status = "active" /\ rails[r].endEpoch # NotEnded
          /\ blockNumber > rails[r].endEpoch
      /\ rails' = [rails EXCEPT ![r] = FinalizedRail]
      /\ audit' = [audit EXCEPT ![d].waived = TRUE]
      /\ UNCHANGED <<blockNumber, service, schedule, registers, metadata, pdp, dryAt, nextIds>>

\* Defect: PDP rails created without a validator.
NoValidator(r) == FALSE

\* Only PDP rails have one, the contract itself.
HasValidator(r) == railToDataSet[r] # NoDataSet

\* By the payer, directly at FilecoinPay.  A rail without a validator ends
\* without FilecoinWarmStorageService hearing of it; for a PDP rail railTerminated
\* reverts (ServiceContractMustTerminateRail), so there is no such step.
PayerTerminatesRail(r) ==
  /\ IsRunning(rails[r])
  /\ ~HasValidator(r)
  /\ LockupLastSettledAt(rails[r].payer) = blockNumber
  /\ rails' = [rails EXCEPT ![r] = Terminate(@, blockNumber)]
  /\ UNCHANGED <<blockNumber, service, schedule, registers, metadata, pdp, dryAt, nextIds, audit>>

\* Funds of a payer with a running rate last up to the current epoch ...
RunDry(p) ==
  /\ dryAt[p] = Solvency
  /\ OtherRatedRail(p, NoRailId)
  /\ dryAt' = [dryAt EXCEPT ![p] = blockNumber]
  /\ UNCHANGED <<blockNumber, service, schedule, registers, metadata, pdp, rails, nextIds, audit>>

\* ... until a deposit.
Deposit(p) ==
  /\ dryAt[p] # Solvency
  /\ dryAt' = [dryAt EXCEPT ![p] = Solvency]
  /\ UNCHANGED <<blockNumber, service, schedule, registers, metadata, pdp, rails, nextIds, audit>>

\* The rate at which a data set is charged for the epoch.
RateCharged(d, epoch) ==
  LET r == dataSetInfo[d].pdpRailId
  IN  IF r # NoRailId /\ rails[r].status = "active"
         /\ (rails[r].endEpoch # NotEnded => epoch <= rails[r].endEpoch)
      THEN rails[r].rate
      ELSE 0

NewEpoch ==
  /\ blockNumber < MaxEpoch
  /\ blockNumber' = blockNumber + 1
  /\ audit' = [d \in DataSetIds |->
                 [audit[d] EXCEPT !.rateOf[blockNumber + 1] = RateCharged(d, blockNumber + 1)]]
  /\ UNCHANGED <<service, schedule, registers, metadata, external>>

-----------------------------------------------------------------------------

PDPVerifierStep ==
  \/ \E p \in Payers, n \in Nonces, cdn \in CdnOptions : DataSetCreated(p, n, cdn)
  \/ \E d \in DataSetIds :
       \/ DataSetDeleted(d)
       \/ \E count \in 1 .. MaxPieces, n \in Nonces : PiecesAdded(d, count, n)
       \/ \E s \in (SUBSET RemovablePieces) \ {{}} : PiecesScheduledRemove(d, s)
       \/ PossessionProven(d)
       \/ NextProvingPeriod(d)

ServiceStep ==
  \/ \E d \in DataSetIds :
       \/ TerminateService(d)
       \/ TerminateCDNService(d)
       \/ \E a, b \in CdnAmounts : SettleFilBeamPaymentRails(d, a, b)
       \/ \E a, b \in CdnAmounts : TopUpCDNPaymentRails(d, a, b)
  \/ \E price \in StoragePrices, rate \in MinimumRates : UpdatePricing(price, rate)
  \/ \E config \in ProvingConfigs : ConfigureProvingPeriod(config)

FilecoinPayStep ==
  \/ \E r \in RailIds : \/ \E e \in Epochs : SettleRail(r, e)
                        \/ PayerTerminatesRail(r)
  \/ \E d \in DataSetIds : SettleTerminatedRailWithoutValidation(d)
  \/ \E p \in DryPayers : RunDry(p) \/ Deposit(p)

Next == PDPVerifierStep \/ ServiceStep \/ FilecoinPayStep \/ NewEpoch

Spec == Init /\ [][Next]_vars
=============================================================================
