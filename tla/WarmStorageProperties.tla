----------------------- MODULE WarmStorageProperties -----------------------
(***************************************************************************)
(* What FilecoinWarmStorageService promises to clients and providers.      *)
(***************************************************************************)
EXTENDS FilecoinWarmStorageService

DataSetInfo ==
  [payer : Payers \cup {NoPayer}, pdpEndEpoch : Nat, pdpRailId : RailIds \cup {NoRailId},
   cacheMissRailId : RailIds \cup {NoRailId}, cdnRailId : RailIds \cup {NoRailId}]

NonceUse == [nextPieceId : 0 .. MaxPieces, dataSetId : DataSetIds \cup {NoDataSet}]

VerifierDataSet ==
  [status : {"none", "live", "deleted"}, pieces : SUBSET PieceIds, removals : SUBSET PieceIds,
   nextPieceId : 0 .. MaxPieces, challengeEpoch : Nat]

\* Every variable holds a value of its kind, the contract's own storage and the
\* neighbours' state as far as it is modelled.
TypeOK ==
  /\ blockNumber \in Epochs
  /\ proving \in [maxProvingPeriod : Nat \ {0}, challengeWindowSize : Nat \ {0}]
  /\ pricing \in [storagePrice : Nat, minimumRate : Nat]
  /\ provenPeriods \in [DataSetIds -> SUBSET Nat]
  /\ provingActivationEpoch \in [DataSetIds -> Nat]
  /\ provingDeadlines \in [DataSetIds -> Nat]
  /\ provenThisPeriod \in [DataSetIds -> BOOLEAN]
  /\ dataSetInfo \in [DataSetIds -> DataSetInfo]
  /\ clientNonces \in [Payers -> [Nonces -> NonceUse]]
  /\ clientDataSets \in [Payers -> Seq(DataSetIds)]
  /\ railToDataSet \in [RailIds -> DataSetIds \cup {NoDataSet}]
  /\ withCDN \in [DataSetIds -> BOOLEAN]
  /\ pieceMetadata \in [DataSetIds -> SUBSET PieceIds]
  /\ scheduledPieceMetadataRemovals \in [DataSetIds -> SUBSET PieceIds]
  /\ pdp \in [DataSetIds -> VerifierDataSet]
  /\ rails \in [RailIds -> Rail]
  /\ dryAt \in [Payers -> Nat]
  /\ nextIds \in [dataSet : Nat \ {0}, rail : Nat \ {0}]

-----------------------------------------------------------------------------
(* Payment for proofs.                                                     *)

\* What a data set owes for the epochs its rail is settled over: the rate of each
\* epoch that lies in a period with a proof.
EarnedBySettledProofs(d) ==
  MapThenSumSet(LAMBDA e : audit[d].rateOf[e],
                {e \in audit[d].covered : e <= audit[d].settledUpTo})

\* The payer left the arbitration to the contract, and proving was not started again on
\* a data set that was emptied in between.
Arbitrated(d) == ~audit[d].waived /\ audit[d].activations <= 1

\* Arbitrated settlement pays a provider exactly for the epochs it proved: however
\* the settlement is cut into calls, partial periods and rate segments, no epoch is
\* paid without a proof, twice, or at another epoch's rate, and none is passed over
\* while its proof could still arrive (validatePayment, _findProvenEpochs).  Once
\* proving starts again on a data set that was emptied, the marks left in its bitmap
\* stand for other epochs: NoPaymentWithoutProof below is about that case.
PaidExactlyForProvenEpochs ==
  \A d \in DataSetIds :
    Arbitrated(d) => audit[d].paid = EarnedBySettledProofs(d)

\* The account of a data set as the history and the payments made show it.
AccountOf(d) ==
  [earned |-> audit[d].covered, settledUpTo |-> audit[d].settledUpTo, paid |-> audit[d].paid]

Payment == INSTANCE ArbitratedPayment
  WITH DataSets <- DataSetIds,
       now      <- blockNumber,
       price    <- [d \in DataSetIds |-> audit[d].rateOf],
       account  <- [d \in {i \in DataSetIds : Arbitrated(i)} |-> AccountOf(d)]

\* Seen from one step to the next, the contract keeps the promise of ArbitratedPayment:
\* a settlement pays for the earned epochs it passes at the prices fixed when they began,
\* and decides them, because no proof that is still accepted covers an epoch that
\* was settled without it; proofs earn the epochs around the current one; nothing else
\* pays, earns or changes a price (possessionProven, nextProvingPeriod, validatePayment).
ImplementsArbitratedPayment == Payment!Spec

\* The period whose deadline is pending.
PendingPeriod(d) ==
  (provingDeadlines[d] - provingActivationEpoch[d]) \div proving.maxProvingPeriod - 1

\* The pending deadline can be met and its period has no proof.  Left out is what the
\* contract itself takes for proven: a period that the bitmap has marked since before
\* the data set was emptied and its proving started again.
AwaitsProof(d) ==
  /\ provingDeadlines[d] # NoProvingDeadline /\ blockNumber <= provingDeadlines[d]
  /\ ~provenThisPeriod[d]
  /\ PendingPeriod(d) \in provenPeriods[d] => audit[d].activations = 1

\* Settlement never gets ahead of a proof that may still arrive: while one is awaited,
\* the PDP rail is settled at most up to the end of the period before, and after a
\* restart of proving at most up to the epoch of that restart.
SettlementWaitsForOpenPeriod ==
  \A d \in DataSetIds :
    AwaitsProof(d) /\ dataSetInfo[d].pdpRailId # NoRailId /\ PdpRail(d).status = "active" =>
      PdpRail(d).settledUpTo <= provingDeadlines[d] - proving.maxProvingPeriod

\* Deadlines stay on the grid laid down at activation however late, early or often
\* nextProvingPeriod is called, so possessionProven and validatePayment mean the same
\* periods: the pending deadline is that of a period, of the open one or of the one
\* after it at most, and provenThisPeriod says that this very period is marked in the
\* bitmap.
DeadlinesOnTheGrid ==
  \A d \in DataSetIds :
    provingDeadlines[d] # NoProvingDeadline =>
      LET A == provingActivationEpoch[d]
          M == proving.maxProvingPeriod
          n == PendingPeriod(d)
      IN  /\ A # NeverActivated /\ A <= blockNumber
          /\ n >= 0 /\ provingDeadlines[d] = CalcPeriodDeadline(A, n, M)
          /\ provingDeadlines[d] < blockNumber + 2 * M
          /\ provenThisPeriod[d] => n \in provenPeriods[d]

\* A proof counts for the period it was made in and no other: a period enters the
\* bitmap at an epoch of its own, so a period whose deadline passed stays faulted
\* and none is proven ahead of time.
ProofsCountForTheirOwnPeriod ==
  [][\A d \in DataSetIds : \A n \in provenPeriods'[d] \ provenPeriods[d] :
       LET deadline == CalcPeriodDeadline(provingActivationEpoch[d], n, proving.maxProvingPeriod)
       IN  /\ n # NoPeriod
           /\ deadline = provingDeadlines[d]
           /\ blockNumber \in deadline - proving.maxProvingPeriod + 1 .. deadline]_vars

\* FilecoinPay reverts a settlement whose validator answers outside the segment or
\* pays more than the epochs it settles are worth.  Whatever range it asks about,
\* FilecoinWarmStorageService answers within those bounds or refuses the range.
ArbitrationWithinBounds ==
  \A r \in RailIds : \A e \in Epochs :
    e <= blockNumber /\ rails[r].status = "active" =>
      LET target   == TargetOf(r, e)
          outcomes == Outcomes(r, target)
      IN  \A i \in Segments(rails[r], target) :
            outcomes[i].ok => AcceptsOutcome(rails[r], target, i, outcomes[i])

-----------------------------------------------------------------------------
(* Data sets and their rails.                                              *)

\* A rail that still pays never loses the data set that arbitrates it, and the two
\* agree on when it ends: otherwise validatePayment reverts for good and the client
\* is left with settling at full price (dataSetDeleted, railTerminated).
PayingRailsKeepTheirDataSet ==
  \A r \in RailIds :
    rails[r].status = "active" /\ rails[r].rate > 0 =>
      LET d == railToDataSet[r]
      IN  /\ d # NoDataSet
          /\ Live(d)
          /\ dataSetInfo[d].pdpRailId = r
          /\ dataSetInfo[d].payer = rails[r].payer
          /\ dataSetInfo[d].pdpEndEpoch = rails[r].endEpoch

\* The two sides know the same data sets and pieces: a data set is registered as long
\* as PDPVerifier keeps it, its client's list names it once and no other, and
\* the metadata kept, and to be forgotten, is that of the pieces PDPVerifier holds.
RegistersAgreeWithVerifier ==
  /\ \A d \in DataSetIds :
       /\ Live(d) <=> dataSetInfo[d].pdpRailId # NoRailId
       /\ Live(d) => /\ railToDataSet[dataSetInfo[d].pdpRailId] = d
                     /\ pieceMetadata[d] = pdp[d].pieces
                     /\ scheduledPieceMetadataRemovals[d] = pdp[d].removals
  /\ \A p \in Payers :
       /\ IsInjective(clientDataSets[p])
       /\ Range(clientDataSets[p]) = {d \in DataSetIds : Payer(d) = p}

\* Once the withCDN key is gone no CDN rail of the data set keeps running, however
\* it went: the key is dropped only together with an attempt to end both rails, and
\* the errors that attempt swallows only come from rails that ended before.
NoCdnRailOutlivesItsKey ==
  \A d \in DataSetIds :
    dataSetInfo[d].cdnRailId # NoRailId /\ ~withCDN[d] =>
      /\ ~IsRunning(rails[dataSetInfo[d].cdnRailId])
      /\ ~IsRunning(rails[dataSetInfo[d].cacheMissRailId])

\* Payer and provider can always end a service that was not ended, whatever happened
\* to its CDN rails: terminated or finalized behind the contract's back, they never
\* make terminateService revert.
ServiceCanAlwaysBeTerminated ==
  \A d \in DataSetIds : PaymentNotTerminated(d) => ENABLED TerminateService(d)

\* A signature's nonce is spent once, by one creation or one addition, and stays
\* spent after the data set is deleted.
NoncesAreSpentForGood ==
  [][\A p \in Payers, n \in Nonces :
       clientNonces[p][n] # NoNonce => clientNonces'[p][n] = clientNonces[p][n]]_vars

\* After termination a client is charged for less, never for more: no pieces are added,
\* the rate only falls, and the end epoch stays what it was until the data set is deleted
\* after it (piecesAdded, modifyRailPayment, railTerminated, dataSetDeleted).
TerminatedDataSetsOnlyShrink ==
  [][\A d \in DataSetIds :
       dataSetInfo[d].pdpEndEpoch # NotEnded =>
         /\ pdp'[d].pieces \subseteq pdp[d].pieces
         /\ rails'[dataSetInfo[d].pdpRailId].rate <= PdpRail(d).rate
         /\ \/ dataSetInfo'[d].pdpEndEpoch = dataSetInfo[d].pdpEndEpoch
            \/ dataSetInfo'[d] = NoInfo /\ dataSetInfo[d].pdpEndEpoch < blockNumber]_vars

-----------------------------------------------------------------------------
(* Settlement gets to the end.                                             *)

\* Every deadline of a period that meets the lockup of a terminated data set has
\* passed.
DeadlinesPassed(d) ==
  /\ dataSetInfo[d].pdpEndEpoch # NotEnded
  /\ blockNumber > dataSetInfo[d].pdpEndEpoch + proving.maxProvingPeriod

\* Proving started, and before any queued rate and the rail itself ended.
ActivatedInTime(d) ==
  LET A     == provingActivationEpoch[d]
      queue == PdpRail(d).rateChangeQueue
  IN  /\ A # NeverActivated
      /\ PdpRail(d).endEpoch > A
      /\ queue # << >> => queue[1].untilEpoch > A

\* Whatever the provider proved or missed, and however late it was with
\* nextProvingPeriod, a terminated rail whose data set was activated in time can be
\* settled to its end in one call once the deadlines passed.
MissedProofsNeverBlockSettlement ==
  \A d \in DataSetIds :
    Live(d) /\ PdpRail(d).status = "active" /\ DeadlinesPassed(d) /\ ActivatedInTime(d) =>
      LET r        == dataSetInfo[d].pdpRailId
          target   == TargetOf(r, blockNumber)
          outcomes == Outcomes(r, target)
      IN  /\ CanSettle(rails[r], target, outcomes)
          /\ Settled(rails[r], target, outcomes) = FinalizedRail

\* The rail of a data set has ended with all that its settlement in full needs.
EndedInTime(d) ==
  /\ Live(d) /\ PdpRail(d).status = "active"
  /\ dataSetInfo[d].pdpEndEpoch # NotEnded /\ blockNumber > dataSetInfo[d].pdpEndEpoch
  /\ ActivatedInTime(d)

\* Once a rail has ended like that it stays so until it is finalized: no callback of
\* PDPVerifier starts proving anew or changes the rate, none deletes the data set that
\* arbitrates the rail, and settling it in part leaves the rest to be settled
\* (requirePaymentNotBeyondEndEpoch, dataSetDeleted, nextProvingPeriod).
EndedRailsStayPayable ==
  [][\A d \in DataSetIds :
       EndedInTime(d) => \/ EndedInTime(d)'
                         \/ rails'[dataSetInfo[d].pdpRailId].status = "finalized"]_vars

\* Anyone settles and time passes: FilecoinPay lets payer, payee and operator settle
\* up to the current block, and the payer needs it to get the lockup back.
SettlePdpRail(d) ==
  dataSetInfo[d].pdpRailId # NoRailId /\ SettleRail(dataSetInfo[d].pdpRailId, blockNumber)

Fairness ==
  /\ WF_vars(NewEpoch)
  /\ \A d \in DataSetIds : WF_vars(SettlePdpRail(d))

FairSpec == Spec /\ Fairness

\* A terminated data set that was activated in time is eventually settled for good,
\* provided the bounded run leaves its deadlines the time to pass.
TerminatedRailsGetFinalized ==
  \A d \in DataSetIds :
    (Live(d) /\ dataSetInfo[d].pdpEndEpoch # NotEnded /\ ActivatedInTime(d)
       /\ dataSetInfo[d].pdpEndEpoch + proving.maxProvingPeriod < MaxEpoch)
      ~> (~Live(d) \/ PdpRail(d).status = "finalized")

-----------------------------------------------------------------------------
(* A statement of the repository that the code does not bear out.          *)

\* SPEC.md: a faulted period contributes nothing; no arbitrated payment exceeds what
\* the proofs earned.
NoPaymentWithoutProof ==
  \A d \in DataSetIds : ~audit[d].waived => audit[d].paid <= EarnedBySettledProofs(d)
=============================================================================
