------------------------- MODULE WarmStorageProofs --------------------------
(***************************************************************************)
(* Proofs about FilecoinWarmStorageService for every number of data sets,  *)
(* clients, pieces and epochs and every choice of parameters: what         *)
(* FilecoinPay's operations yield and type correctness; the bounds of      *)
(* arbitration; and the records of the service, of PDPVerifier and of      *)
(* FilecoinPay, which stay in step.                                        *)
(***************************************************************************)
EXTENDS WarmStorageProperties, ArithmeticLemmas, SequenceTheorems, FiniteSetTheorems

-----------------------------------------------------------------------------
(***************************************************************************)
(* Part 1.  What FilecoinPay's operations yield, types, and nonces that    *)
(* stay spent.                                                             *)
(***************************************************************************)

-----------------------------------------------------------------------------
(* Every operation of FilecoinPay on a rail yields a rail, and a           *)
(* settlement that it accepts has a last segment.                          *)

\* A rail that does not exist and one that was finalized are rails.
LEMMA NoRailType == NoRail \in Rail /\ FinalizedRail \in Rail
BY EmptySeq DEF NoRail, FinalizedRail, Rail, NotEnded

\* createRail and modifyRailLockup.
LEMMA NewRailType ==
  ASSUME NEW p \in Payers, NEW now \in Nat, NEW lockup \in Nat
  PROVE  /\ NewRail(p, now, lockup) \in Rail
         /\ NewRail(p, now, lockup).payer = p
BY NoRailType DEF NewRail, Rail

\* modifyRailPayment.
LEMMA SetRateType ==
  ASSUME NEW rail \in Rail, NEW rate \in Nat, NEW now \in Nat
  PROVE  /\ SetRate(rail, rate, now) \in Rail
         /\ SetRate(rail, rate, now).payer = rail.payer
         /\ SetRate(rail, rate, now).status = rail.status
<1> DEFINE change == [rate |-> rail.rate, untilEpoch |-> now]
<1>1. rail.rate \in Nat /\ rail.rateChangeQueue \in Seq(RateChange)
  BY DEF Rail
<1>2. change \in RateChange
  BY <1>1 DEF RateChange
<1>3. Append(rail.rateChangeQueue, change) \in Seq(RateChange)
  <2> HIDE DEF change
  <2> QED BY <1>1, <1>2
<1>4. QED BY <1>3 DEF SetRate, Rail

\* A one-time payment out of the fixed lockup.
LEMMA PayOnceType ==
  ASSUME NEW rail \in Rail, NEW amount \in Nat, amount <= rail.lockupFixed
  PROVE  /\ PayOnce(rail, amount) \in Rail
         /\ PayOnce(rail, amount).payer = rail.payer
         /\ PayOnce(rail, amount).status = rail.status
<1>1. rail.lockupFixed - amount \in Nat
  BY DEF Rail
<1>2. QED BY <1>1 DEF PayOnce, Rail

\* An addition to the fixed lockup.
LEMMA RaiseLockupType ==
  ASSUME NEW rail \in Rail, NEW amount \in Nat
  PROVE  /\ RaiseLockup(rail, amount) \in Rail
         /\ RaiseLockup(rail, amount).payer = rail.payer
         /\ RaiseLockup(rail, amount).status = rail.status
BY DEF RaiseLockup, Rail

\* terminateRail.
LEMMA TerminateType ==
  ASSUME NEW rail \in Rail, NEW settledAt \in Nat
  PROVE  /\ Terminate(rail, settledAt) \in Rail
         /\ Terminate(rail, settledAt).payer = rail.payer
         /\ Terminate(rail, settledAt).status = rail.status
BY LockupPeriodAssumption DEF Terminate, Rail

-----------------------------------------------------------------------------
(* Settlement of a rail.                                                             *)

\* A settlement aims at an epoch, and at most at the one that was asked for.
LEMMA SettlementTargetType ==
  ASSUME NEW rail \in Rail, NEW untilEpoch \in Nat, NEW settledAt \in Nat
  PROVE  /\ SettlementTarget(rail, untilEpoch, settledAt) \in Nat
         /\ SettlementTarget(rail, untilEpoch, settledAt) <= untilEpoch
<1>1. rail.endEpoch \in Nat
  BY DEF Rail
<1>2. QED BY <1>1, MinOfTwo DEF SettlementTarget

\* The queued rates and the epochs they last to.
LEMMA QueueType ==
  ASSUME NEW rail \in Rail
  PROVE  /\ rail.rateChangeQueue \in Seq(RateChange)
         /\ Len(rail.rateChangeQueue) \in Nat
         /\ \A j \in 1 .. Len(rail.rateChangeQueue) :
              /\ rail.rateChangeQueue[j] \in RateChange
              /\ rail.rateChangeQueue[j].untilEpoch \in Nat
              /\ rail.rateChangeQueue[j].rate \in Nat
<1>1. rail.rateChangeQueue \in Seq(RateChange)
  BY DEF Rail
<1>2. ASSUME NEW j \in 1 .. Len(rail.rateChangeQueue)
      PROVE  rail.rateChangeQueue[j] \in RateChange
  BY <1>1, ElementOfSeq
<1>3. QED BY <1>1, <1>2 DEF RateChange

\* A segment lies between two epochs.
LEMMA SegmentType ==
  ASSUME NEW rail \in Rail, NEW target \in Nat, NEW i \in 1 .. Len(rail.rateChangeQueue) + 1
  PROVE  /\ SegmentStart(rail, i) \in Nat
         /\ SegmentEnd(rail, target, i) \in Nat /\ SegmentEnd(rail, target, i) <= target
         /\ SegmentRate(rail, i) \in Nat
<1> DEFINE queue == rail.rateChangeQueue
<1>1. rail.settledUpTo \in Nat /\ rail.rate \in Nat
  BY DEF Rail
<1>2. Len(queue) \in Nat
  BY QueueType
<1>3. \A j \in 1 .. Len(queue) : queue[j].untilEpoch \in Nat /\ queue[j].rate \in Nat
  BY QueueType
<1>4. SegmentStart(rail, i) \in Nat
  BY <1>1, <1>2, <1>3 DEF SegmentStart
<1>5. SegmentEnd(rail, target, i) \in Nat /\ SegmentEnd(rail, target, i) <= target
  <2>1. CASE i <= Len(queue)
    <3>1. queue[i].untilEpoch \in Int
      BY <1>2, <1>3, <2>1
    <3>2. SegmentEnd(rail, target, i) = Min({target, queue[i].untilEpoch})
      BY <2>1 DEF SegmentEnd
    <3>3. SegmentEnd(rail, target, i) = IF target <= queue[i].untilEpoch THEN target ELSE queue[i].untilEpoch
      BY <3>1, <3>2, MinOfTwo
    <3>4. QED BY <1>2, <1>3, <2>1, <3>3
  <2>2. CASE ~(i <= Len(queue))
    BY <2>2 DEF SegmentEnd
  <2>3. QED BY <2>1, <2>2
<1>6. SegmentRate(rail, i) \in Nat
  BY <1>1, <1>2, <1>3 DEF SegmentRate
<1>7. QED BY <1>4, <1>5, <1>6

\* A settlement with something left to settle ends in one of its segments, the first that
\* stops it: at the latest that whose rate is in force at the target.
LEMMA LastSegmentExists ==
  ASSUME NEW rail \in Rail, NEW target \in Nat, rail.settledUpTo < target, NEW outcomes
  PROVE  LET last == LastSegment(rail, target, outcomes)
         IN  /\ last \in Segments(rail, target)
             /\ \/ ~AcceptsOutcome(rail, target, last, outcomes[last])
                \/ outcomes[last].settleUpTo < SegmentEnd(rail, target, last)
                \/ SegmentEnd(rail, target, last) = target
             /\ \A i \in Segments(rail, target) : i < last =>
                  /\ AcceptsOutcome(rail, target, i, outcomes[i])
                  /\ ~(outcomes[i].settleUpTo < SegmentEnd(rail, target, i))
<1> DEFINE queue == rail.rateChangeQueue
           reaching == {i \in 1 .. Len(queue) + 1 :
                          i <= Len(queue) => queue[i].untilEpoch >= target}
           stopping == {i \in Segments(rail, target) :
                          \/ ~AcceptsOutcome(rail, target, i, outcomes[i])
                          \/ outcomes[i].settleUpTo < SegmentEnd(rail, target, i)
                          \/ SegmentEnd(rail, target, i) = target}
<1>1. rail.settledUpTo \in Nat
  BY DEF Rail
<1>2. Len(queue) \in Nat
  BY QueueType
<1>3. \A j \in 1 .. Len(queue) : queue[j].untilEpoch \in Nat
  BY QueueType
<1>4. PICK k \in reaching : \A i \in reaching : k <= i
  <2>1. reaching \in SUBSET Nat /\ reaching # {}
    <3>1. Len(queue) + 1 \in reaching
      BY <1>2
    <3>2. QED BY <3>1
  <2>2. QED
    <3> HIDE DEF reaching
    <3> QED BY <2>1, MinOfNaturals
<1>5. k \in Segments(rail, target)
  <2>1. CASE k = 1
    BY <2>1, <1>2 DEF Segments, SegmentStart
  <2>2. CASE k # 1
    <3>1. k - 1 \in 1 .. Len(queue) /\ k - 1 \notin reaching
      BY <1>2, <1>4, <2>2
    <3>2. queue[k - 1].untilEpoch < target
      BY <1>3, <3>1
    <3>3. QED BY <2>2, <3>2 DEF Segments, SegmentStart
  <2>3. QED BY <2>1, <2>2
<1>6. SegmentEnd(rail, target, k) = target
  <2>1. CASE k <= Len(queue)
    BY <2>1, <1>2, <1>3, <1>4, MinOfTwo DEF SegmentEnd
  <2>2. CASE ~(k <= Len(queue))
    BY <2>2 DEF SegmentEnd
  <2>3. QED BY <2>1, <2>2
<1>7. stopping \in SUBSET Nat /\ stopping # {}
  <2>1. k \in stopping
    BY <1>5, <1>6
  <2>2. QED BY <2>1, <1>2 DEF Segments
<1>8. Min(stopping) \in stopping /\ \A i \in stopping : Min(stopping) <= i
  <2> HIDE DEF stopping
  <2> QED BY <1>7, MinOfNaturals
<1>9. ASSUME NEW i \in Segments(rail, target), i < Min(stopping) PROVE i \notin stopping
  <2> DEFINE least == Min(stopping)
  <2>1. least \in Nat /\ i \in Nat
    BY <1>2, <1>7, <1>8 DEF Segments
  <2>2. i \in stopping => least <= i
    BY <1>8
  <2>3. i < least
    BY <1>9
  <2> HIDE DEF least, stopping
  <2>4. QED BY <2>1, <2>2, <2>3
<1>10. LastSegment(rail, target, outcomes) = Min(stopping)
  BY DEF LastSegment
<1>11. QED
  <2> DEFINE last == LastSegment(rail, target, outcomes)
  <2> HIDE DEF last
  <2>1. last \in stopping /\ \A i \in Segments(rail, target) : i < last => i \notin stopping
    <3> HIDE DEF stopping
    <3> QED BY <1>8, <1>9, <1>10 DEF last
  <2>2. QED BY <2>1 DEF last

\* A settlement that FilecoinPay accepts leaves a rail, settled up to an epoch at or
\* before its target.
LEMMA SettledType ==
  ASSUME NEW rail \in Rail, NEW target \in Nat, NEW outcomes,
         CanSettle(rail, target, outcomes)
  PROVE  LET last == LastSegment(rail, target, outcomes)
         IN  /\ outcomes[last].settleUpTo \in Nat
             /\ outcomes[last].settleUpTo <= target
             /\ Settled(rail, target, outcomes) \in Rail
             /\ Settled(rail, target, outcomes).status = "active" =>
                  Settled(rail, target, outcomes).payer = rail.payer
<1> DEFINE last  == LastSegment(rail, target, outcomes)
           upTo  == outcomes[last].settleUpTo
           queue == rail.rateChangeQueue
           passed == {i \in 1 .. last : i <= Len(queue) /\ upTo >= queue[i].untilEpoch}
<1>1. queue \in Seq(RateChange) /\ Len(queue) \in Nat
  BY QueueType
<1>2. last \in 1 .. Len(queue) + 1
  <2>1. last \in Segments(rail, target)
    BY LastSegmentExists DEF CanSettle
  <2>2. QED BY <2>1 DEF Segments
<1>3. upTo \in SegmentStart(rail, last) .. SegmentEnd(rail, target, last)
  BY DEF CanSettle, AcceptsOutcome
<1>4. upTo \in Nat /\ upTo <= target
  <2> HIDE DEF last
  <2>1. SegmentStart(rail, last) \in Nat /\ SegmentEnd(rail, target, last) \in Nat
          /\ SegmentEnd(rail, target, last) <= target
    BY <1>2, SegmentType
  <2> HIDE DEF upTo
  <2>2. QED BY <1>3, <2>1
<1>5. Cardinality(passed) \in Nat
  <2> HIDE DEF last, upTo
  <2>1. IsFiniteSet(1 .. last)
    BY <1>2, FS_Interval
  <2>2. IsFiniteSet(passed)
    <3>1. passed \in SUBSET (1 .. last)
      OBVIOUS
    <3> HIDE DEF passed
    <3>2. QED BY <2>1, <3>1, FS_Subset
  <2>3. QED BY <2>2, FS_CardinalityType
<1>6. SubSeq(queue, Cardinality(passed) + 1, Len(queue)) \in Seq(RateChange)
  <2> HIDE DEF passed, queue
  <2>1. \A i \in Cardinality(passed) + 1 .. Len(queue) : queue[i] \in RateChange
    BY <1>1, <1>5, ElementOfSeq
  <2>2. QED BY <1>1, <1>5, <2>1, SubSeqProperties
<1>7. /\ Settled(rail, target, outcomes) \in Rail
      /\ Settled(rail, target, outcomes).status = "active" =>
           Settled(rail, target, outcomes).payer = rail.payer
  <2>1. CASE rail.endEpoch # NotEnded /\ upTo >= rail.endEpoch
    <3>1. Settled(rail, target, outcomes) = FinalizedRail
      BY <2>1 DEF Settled
    <3>2. FinalizedRail.status = "finalized"
      BY DEF FinalizedRail, NoRail
    <3>3. QED BY <3>1, <3>2, NoRailType
  <2>2. CASE ~(rail.endEpoch # NotEnded /\ upTo >= rail.endEpoch)
    <3> DEFINE left == SubSeq(queue, Cardinality(passed) + 1, Len(queue))
    <3>1. Settled(rail, target, outcomes)
            = [rail EXCEPT !.settledUpTo = upTo, !.rateChangeQueue = left]
      BY <2>2 DEF Settled
    <3> HIDE DEF left, upTo
    <3>2. left \in Seq(RateChange)
      BY <1>6 DEF left
    <3>3. QED BY <1>4, <3>1, <3>2 DEF Rail
  <2>3. QED BY <2>1, <2>2
<1>8. QED BY <1>4, <1>7

-----------------------------------------------------------------------------
(* The inductive invariant behind type correctness.                        *)

\* initialize and configureProvingPeriod keep the challenge window inside the
\* proving period.
WindowWithinPeriod == proving.challengeWindowSize < proving.maxProvingPeriod

\* A data set takes at most three rails.
RailIdsSuffice == nextIds.rail <= 3 * (nextIds.dataSet - 1) + 1

\* Deadlines and challenges come after the activation they follow.
ActivationComesFirst ==
  \A d \in DataSetIds :
    /\ provingDeadlines[d] # NoProvingDeadline =>
         /\ provingActivationEpoch[d] # NeverActivated
         /\ provingActivationEpoch[d] < provingDeadlines[d]
    /\ pdp[d].challengeEpoch # NoChallengeScheduled =>
         /\ provingActivationEpoch[d] # NeverActivated
         /\ provingActivationEpoch[d] < pdp[d].challengeEpoch

\* Whoever has a rail is a client.
PayersKnown ==
  /\ \A d \in DataSetIds :
       \/ dataSetInfo[d].pdpRailId # NoRailId
       \/ dataSetInfo[d].cacheMissRailId # NoRailId
       \/ dataSetInfo[d].cdnRailId # NoRailId
       => dataSetInfo[d].payer \in Payers
  /\ \A r \in RailIds : rails[r].status = "active" => rails[r].payer \in Payers

IInv ==
  /\ TypeOK
  /\ WindowWithinPeriod
  /\ RailIdsSuffice
  /\ ActivationComesFirst
  /\ PayersKnown

\* The contract is initialized with values of their kinds.
LEMMA InitIInv == Init => IInv
<1> SUFFICES ASSUME Init PROVE IInv
  OBVIOUS
<1> USE Constants DEF ConstantsAssumption, DataSetIds, RailIds, PieceIds, Epochs
<1>1. blockNumber \in Epochs
  BY DEF Init
<1>2. proving \in [maxProvingPeriod : Nat \ {0}, challengeWindowSize : Nat \ {0}]
  BY DEF Init
<1>3. pricing \in [storagePrice : Nat, minimumRate : Nat]
  BY DEF Init
<1>4. /\ provenPeriods \in [DataSetIds -> SUBSET Nat]
      /\ provingActivationEpoch \in [DataSetIds -> Nat]
      /\ provingDeadlines \in [DataSetIds -> Nat]
      /\ provenThisPeriod \in [DataSetIds -> BOOLEAN]
  BY DEF Init, NeverActivated, NoProvingDeadline
<1>5. dataSetInfo \in [DataSetIds -> DataSetInfo]
  BY DEF Init, NoInfo, NotEnded, DataSetInfo
<1>6. clientNonces \in [Payers -> [Nonces -> NonceUse]]
  BY DEF Init, NoNonce, NonceUse
<1>7. clientDataSets \in [Payers -> Seq(DataSetIds)]
  BY EmptySeq DEF Init
<1>8. railToDataSet \in [RailIds -> DataSetIds \cup {NoDataSet}]
  BY DEF Init
<1>9. /\ withCDN \in [DataSetIds -> BOOLEAN]
      /\ pieceMetadata \in [DataSetIds -> SUBSET PieceIds]
      /\ scheduledPieceMetadataRemovals \in [DataSetIds -> SUBSET PieceIds]
  BY DEF Init
<1>10. pdp \in [DataSetIds -> VerifierDataSet]
  BY DEF Init, NoChallengeScheduled, VerifierDataSet
<1>11. rails \in [RailIds -> Rail]
  BY NoRailType DEF Init
<1>12. dryAt \in [Payers -> Nat]
  BY DEF Init, Solvency
<1>13. nextIds \in [dataSet : Nat \ {0}, rail : Nat \ {0}]
  BY DEF Init
<1>14. TypeOK
  BY <1>1, <1>2, <1>3, <1>4, <1>5, <1>6, <1>7, <1>8, <1>9, <1>10, <1>11, <1>12, <1>13 DEF TypeOK
<1>15. WindowWithinPeriod /\ RailIdsSuffice
  BY DEF Init, WindowWithinPeriod, RailIdsSuffice
<1>16. ActivationComesFirst
  BY DEF Init, ActivationComesFirst
<1>17. PayersKnown
  BY DEF Init, PayersKnown, NoInfo, NoRail
<1>18. QED BY <1>14, <1>15, <1>16, <1>17 DEF IInv

-----------------------------------------------------------------------------
(* What the shared helpers do to the rails.                                *)

\* A step that changes rails without creating one leaves every payer where it was.
RailsKeepPayers ==
  /\ rails' \in [RailIds -> Rail]
  /\ \A r \in RailIds : rails'[r].status = "active" =>
       rails[r].status = "active" /\ rails'[r].payer = rails[r].payer

\* Such a step keeps the payers known as long as no data set is registered.
LEMMA PayersStayKnown ==
  ASSUME IInv, RailsKeepPayers, UNCHANGED dataSetInfo
  PROVE  PayersKnown'
BY DEF IInv, PayersKnown, RailsKeepPayers

\* Nothing happens to the rails.
LEMMA UnchangedRails ==
  ASSUME IInv, UNCHANGED rails
  PROVE  RailsKeepPayers
BY DEF IInv, TypeOK, RailsKeepPayers

\* One rail is replaced by one of the same payer, or by one that is not active.
LEMMA OneRailReplaced ==
  ASSUME IInv, NEW r \in RailIds, NEW rail \in Rail,
         rails' = [rails EXCEPT ![r] = rail],
         rail.status = "active" => rails[r].status = "active" /\ rail.payer = rails[r].payer
  PROVE  RailsKeepPayers
BY DEF IInv, TypeOK, RailsKeepPayers

\* Time is a number that the chain reached after its start.
LEMMA BlockNumberType ==
  ASSUME IInv
  PROVE  blockNumber \in Nat \ {0}
BY Constants DEF IInv, TypeOK, Epochs, ConstantsAssumption

\* _calculateStorageRate.
LEMMA StorageRateType ==
  ASSUME IInv, NEW pieceCount \in Nat
  PROVE  StorageRate(pieceCount) \in Nat
<1>1. pricing.storagePrice \in Nat /\ pricing.minimumRate \in Nat
  BY DEF IInv, TypeOK
<1>2. DustRate \in Nat /\ PiecesPerUnit \in Nat \ {0}
  BY Constants DEF ConstantsAssumption
<1>3. pieceCount * pricing.storagePrice \in Nat
  BY <1>1
<1>4. (pieceCount * pricing.storagePrice) \div PiecesPerUnit \in Nat
  BY <1>2, <1>3, DivisionBounds
<1>5. QED BY <1>1, <1>2, <1>4, MaxOfTwo DEF StorageRate

\* updatePaymentRates.
LEMMA UpdatePaymentRatesStep ==
  ASSUME IInv, NEW d \in DataSetIds, NEW pieceCount \in Nat, UpdatePaymentRates(d, pieceCount)
  PROVE  RailsKeepPayers
<1> DEFINE r == dataSetInfo[d].pdpRailId
           rate == StorageRate(pieceCount)
<1>1. r \in RailIds
  BY DEF UpdatePaymentRates, IInv, TypeOK, DataSetInfo
<1>2. rails[r] \in Rail /\ rate \in Nat /\ blockNumber \in Nat
  <2>1. rails[r] \in Rail
    BY <1>1 DEF IInv, TypeOK
  <2>2. QED BY <2>1, StorageRateType, BlockNumberType
<1>3. rails' = [rails EXCEPT ![r] = SetRate(rails[r], rate, blockNumber)]
  BY DEF UpdatePaymentRates
<1>4. QED
  <2> DEFINE new == SetRate(rails[r], rate, blockNumber)
  <2> HIDE DEF r, rate
  <2>1. new \in Rail /\ new.payer = rails[r].payer /\ new.status = rails[r].status
    BY <1>2, SetRateType
  <2>2. rails' = [rails EXCEPT ![r] = new]
    BY <1>3
  <2> HIDE DEF new
  <2>3. QED BY <1>1, <2>1, <2>2, OneRailReplaced

\* A set of piece ids has a size.
LEMMA PieceCountType ==
  ASSUME NEW s \in SUBSET PieceIds
  PROVE  Cardinality(s) \in Nat
<1>1. IsFiniteSet(PieceIds)
  BY Constants, FS_Interval DEF PieceIds, ConstantsAssumption
<1>2. IsFiniteSet(s)
  BY <1>1, FS_Subset
<1>3. QED BY <1>2, FS_CardinalityType

\* processScheduledPieceMetadataRemovals.
LEMMA ScheduledRemovalsStep ==
  ASSUME IInv, NEW d \in DataSetIds, NEW pieceCount \in Nat,
         ProcessScheduledRemovals(d, pieceCount)
  PROVE  /\ RailsKeepPayers
         /\ pieceMetadata' \in [DataSetIds -> SUBSET PieceIds]
         /\ scheduledPieceMetadataRemovals' \in [DataSetIds -> SUBSET PieceIds]
<1>1. RailsKeepPayers
  BY UpdatePaymentRatesStep, UnchangedRails DEF ProcessScheduledRemovals
<1>2. pieceMetadata' \in [DataSetIds -> SUBSET PieceIds]
  BY DEF ProcessScheduledRemovals, IInv, TypeOK
<1>3. scheduledPieceMetadataRemovals' \in [DataSetIds -> SUBSET PieceIds]
  BY DEF ProcessScheduledRemovals, IInv, TypeOK
<1>4. QED BY <1>1, <1>2, <1>3

-----------------------------------------------------------------------------
(* Every step preserves it: the callbacks of PDPVerifier.                  *)

\* dataSetCreated.
LEMMA DataSetCreatedStep ==
  ASSUME IInv, NEW p \in Payers, NEW nonce \in Nonces, NEW hasCDN \in BOOLEAN,
         DataSetCreated(p, nonce, hasCDN)
  PROVE  IInv'
<1> DEFINE d == nextIds.dataSet
           r == nextIds.rail
<1>1. d \in DataSetIds /\ d \in Nat \ {0} /\ r \in Nat \ {0}
  BY DEF DataSetCreated, IInv, TypeOK
<1>2. r \in RailIds /\ r + 1 \in RailIds /\ r + 2 \in RailIds
  <2>1. r <= 3 * (d - 1) + 1 /\ d <= MaxDataSets /\ MaxDataSets \in Nat
    BY <1>1, Constants DEF IInv, RailIdsSuffice, DataSetIds, ConstantsAssumption
  <2>2. QED BY <1>1, <2>1 DEF RailIds
<1>3. dataSetInfo' \in [DataSetIds -> DataSetInfo]
  BY ZenonT(60), <1>1, <1>2 DEF DataSetCreated, NoInfo, NotEnded, DataSetInfo, IInv, TypeOK
<1>4. clientNonces' \in [Payers -> [Nonces -> NonceUse]]
  <2>1. [NoNonce EXCEPT !.dataSetId = d] \in NonceUse
    BY <1>1, Constants DEF NoNonce, NonceUse, ConstantsAssumption
  <2>2. clientNonces' = [clientNonces EXCEPT ![p][nonce] = [NoNonce EXCEPT !.dataSetId = d]]
    BY DEF DataSetCreated
  <2>3. clientNonces \in [Payers -> [Nonces -> NonceUse]]
    BY DEF IInv, TypeOK
  <2>4. QED BY <2>1, <2>2, <2>3
<1>5. clientDataSets' \in [Payers -> Seq(DataSetIds)]
  BY <1>1 DEF DataSetCreated, IInv, TypeOK
<1>6. railToDataSet' \in [RailIds -> DataSetIds \cup {NoDataSet}]
  BY <1>1, <1>2 DEF DataSetCreated, IInv, TypeOK
<1>7. withCDN' \in [DataSetIds -> BOOLEAN]
  BY <1>1 DEF DataSetCreated, IInv, TypeOK
<1>8. pdp' \in [DataSetIds -> VerifierDataSet]
  <2>1. pdp \in [DataSetIds -> VerifierDataSet]
    BY DEF IInv, TypeOK
  <2>2. [pdp[d] EXCEPT !.status = "live"] \in VerifierDataSet
    BY <1>1, <2>1 DEF VerifierDataSet
  <2>3. pdp' = [pdp EXCEPT ![d] = [pdp[d] EXCEPT !.status = "live"]]
    BY <1>1, <2>1 DEF DataSetCreated
  <2>4. QED BY <1>1, <2>1, <2>2, <2>3
<1>9. /\ rails' \in [RailIds -> Rail]
      /\ \A i \in RailIds : rails'[i] = rails[i] \/ rails'[i].payer = p
  <2>1. rails \in [RailIds -> Rail]
    BY DEF IInv, TypeOK
  <2>2. blockNumber \in Nat /\ 0 \in Nat /\ CacheMissLockup \in Nat /\ CdnLockup \in Nat
    BY Constants DEF IInv, TypeOK, Epochs, ConstantsAssumption
  <2>3. /\ NewRail(p, blockNumber, 0) \in Rail
        /\ NewRail(p, blockNumber, 0).payer = p
        /\ NewRail(p, blockNumber, CacheMissLockup) \in Rail
        /\ NewRail(p, blockNumber, CacheMissLockup).payer = p
        /\ NewRail(p, blockNumber, CdnLockup) \in Rail
        /\ NewRail(p, blockNumber, CdnLockup).payer = p
    BY <2>2, NewRailType
  <2>4. rails' = [i \in RailIds |->
                   CASE i = r                -> NewRail(p, blockNumber, 0)
                     [] hasCDN /\ i = r + 1  -> NewRail(p, blockNumber, CacheMissLockup)
                     [] hasCDN /\ i = r + 2  -> NewRail(p, blockNumber, CdnLockup)
                     [] OTHER                -> rails[i]]
    BY DEF DataSetCreated
  <2>5. QED BY <2>1, <2>3, <2>4
<1>10. nextIds' \in [dataSet : Nat \ {0}, rail : Nat \ {0}]
  BY <1>1 DEF DataSetCreated
<1>11. TypeOK'
  BY <1>3, <1>4, <1>5, <1>6, <1>7, <1>8, <1>9, <1>10
     DEF DataSetCreated, service, schedule, IInv, TypeOK
<1>12. WindowWithinPeriod'
  BY DEF DataSetCreated, service, WindowWithinPeriod, IInv
<1>13. RailIdsSuffice'
  BY <1>1 DEF DataSetCreated, RailIdsSuffice, IInv
<1>14. ActivationComesFirst'
  BY <1>1 DEF DataSetCreated, ActivationComesFirst, schedule, IInv
<1>15. PayersKnown'
  <2>1. \A i \in RailIds : rails'[i].status = "active" => rails'[i].payer \in Payers
    BY <1>9 DEF IInv, PayersKnown
  <2>2. \A i \in DataSetIds : dataSetInfo'[i] = dataSetInfo[i] \/ dataSetInfo'[i].payer = p
    BY <1>1 DEF DataSetCreated, IInv, TypeOK, NoInfo
  <2>3. QED BY <2>1, <2>2 DEF IInv, PayersKnown
<1>16. QED BY <1>11, <1>12, <1>13, <1>14, <1>15 DEF IInv

\* dataSetDeleted.
LEMMA DataSetDeletedStep ==
  ASSUME IInv, NEW d \in DataSetIds, DataSetDeleted(d)
  PROVE  IInv'
<1> DEFINE info == dataSetInfo[d]
           list == clientDataSets[info.payer]
           entry == {i \in DOMAIN list : list[i] = d}
<1>1. info.payer \in Payers
  BY DEF DataSetDeleted, IInv, PayersKnown
<1>2. info.pdpRailId \in RailIds
  BY DEF DataSetDeleted, IInv, TypeOK, DataSetInfo
<1>3. clientDataSets' \in [Payers -> Seq(DataSetIds)]
  <2>1. clientDataSets \in [Payers -> Seq(DataSetIds)] /\ list \in Seq(DataSetIds)
    BY <1>1 DEF IInv, TypeOK
  <2> DEFINE new == IF entry # {} THEN SwapAndPop(list, Min(entry)) ELSE list
  <2>2. new \in Seq(DataSetIds)
    <3>1. CASE entry # {}
      <4>1. DOMAIN list = 1 .. Len(list) /\ Len(list) \in Nat
        BY <2>1, LenProperties
      <4>2. Min(entry) \in 1 .. Len(list)
        <5>1. entry \in SUBSET Nat
          BY <4>1
        <5>2. Min(entry) \in entry
          <6> HIDE DEF entry
          <6> QED BY <3>1, <5>1, MinOfNaturals
        <5>3. QED BY <4>1, <5>2
      <4> HIDE DEF entry, list
      <4>3. list[Len(list)] \in DataSetIds
        <5>1. Len(list) \in 1 .. Len(list)
          BY <4>1, <4>2
        <5>2. QED BY <2>1, <5>1, ElementOfSeq
      <4> DEFINE swapped == [list EXCEPT ![Min(entry)] = list[Len(list)]]
      <4>4. swapped \in Seq(DataSetIds) /\ Len(swapped) = Len(list)
        BY <2>1, <4>2, <4>3, ExceptSeq
      <4>5. \A i \in 1 .. Len(list) - 1 : swapped[i] \in DataSetIds
        <5> HIDE DEF swapped
        <5> QED BY <4>1, <4>4, ElementOfSeq
      <4>6. SubSeq(swapped, 1, Len(list) - 1) \in Seq(DataSetIds)
        <5> HIDE DEF swapped
        <5> QED BY <4>1, <4>5, SubSeqProperties
      <4>7. QED BY <3>1, <4>6 DEF SwapAndPop
    <3>2. CASE entry = {}
      BY <2>1, <3>2
    <3>3. QED BY <3>1, <3>2
  <2>3. clientDataSets' = [clientDataSets EXCEPT ![info.payer] = new]
    <3>1. entry # {} <=> \E i \in DOMAIN list : list[i] = d
      OBVIOUS
    <3>2. QED BY <3>1 DEF DataSetDeleted
  <2>4. QED
    <3> HIDE DEF new, info
    <3> QED BY <1>1, <2>1, <2>2, <2>3
<1>4. dataSetInfo' \in [DataSetIds -> DataSetInfo] /\ dataSetInfo' = [dataSetInfo EXCEPT ![d] = NoInfo]
  <2>1. NoInfo \in DataSetInfo
    BY DEF NoInfo, DataSetInfo, NotEnded
  <2>2. QED BY <2>1 DEF DataSetDeleted, IInv, TypeOK
<1>5. pdp' \in [DataSetIds -> VerifierDataSet] /\ \A i \in DataSetIds :
         pdp'[i].challengeEpoch # NoChallengeScheduled =>
           i # d /\ pdp'[i].challengeEpoch = pdp[i].challengeEpoch
  <2> DEFINE emptied == [pdp[d] EXCEPT !.status = "deleted", !.pieces = {},
                                       !.challengeEpoch = NoChallengeScheduled]
  <2>1. pdp \in [DataSetIds -> VerifierDataSet]
    BY DEF IInv, TypeOK
  <2>2. emptied \in VerifierDataSet /\ emptied.challengeEpoch = NoChallengeScheduled
    BY <2>1 DEF VerifierDataSet, NoChallengeScheduled
  <2>3. pdp' = [pdp EXCEPT ![d] = emptied]
    BY <2>1 DEF DataSetDeleted
  <2>4. QED
    <3> HIDE DEF emptied
    <3> QED BY <2>1, <2>2, <2>3
<1>6. /\ provingActivationEpoch' \in [DataSetIds -> Nat]
      /\ provingDeadlines' \in [DataSetIds -> Nat]
      /\ provenThisPeriod' \in [DataSetIds -> BOOLEAN]
      /\ withCDN' \in [DataSetIds -> BOOLEAN]
  BY DEF DataSetDeleted, IInv, TypeOK, NeverActivated, NoProvingDeadline
<1>7. railToDataSet' \in [RailIds -> DataSetIds \cup {NoDataSet}]
  BY <1>2 DEF DataSetDeleted, IInv, TypeOK
<1>8. TypeOK'
  BY <1>3, <1>4, <1>5, <1>6, <1>7 DEF DataSetDeleted, service, IInv, TypeOK
<1>9. WindowWithinPeriod' /\ RailIdsSuffice'
  BY DEF DataSetDeleted, service, IInv, WindowWithinPeriod, RailIdsSuffice
<1>10. ActivationComesFirst'
  <2>1. /\ provingActivationEpoch' = [provingActivationEpoch EXCEPT ![d] = NeverActivated]
        /\ provingDeadlines' = [provingDeadlines EXCEPT ![d] = NoProvingDeadline]
    BY DEF DataSetDeleted
  <2>2. QED BY <1>5, <2>1 DEF IInv, TypeOK, ActivationComesFirst
<1>11. PayersKnown'
  BY <1>4 DEF DataSetDeleted, IInv, TypeOK, PayersKnown, NoInfo
<1>12. QED BY <1>8, <1>9, <1>10, <1>11 DEF IInv

\* piecesAdded.
LEMMA PiecesAddedStep ==
  ASSUME IInv, NEW d \in DataSetIds, NEW count \in 1 .. MaxPieces, NEW nonce \in Nonces,
         PiecesAdded(d, count, nonce)
  PROVE  IInv'
<1> DEFINE p     == Payer(d)
           first == pdp[d].nextPieceId
           added == first .. first + count - 1
           pieces == pdp[d].pieces \cup added
<1>1. p \in Payers
  BY DEF PiecesAdded, PaymentNotTerminated, Payer, IInv, PayersKnown
<1>2. /\ pdp \in [DataSetIds -> VerifierDataSet] /\ pdp[d] \in VerifierDataSet
      /\ first \in 0 .. MaxPieces /\ pdp[d].pieces \in SUBSET PieceIds
  BY DEF IInv, TypeOK, VerifierDataSet
<1>3. MaxPieces \in Nat
  BY Constants DEF ConstantsAssumption
<1>4. first + count \in 0 .. MaxPieces
  <2>1. first + count - 1 \in added
    BY <1>2, <1>3
  <2>2. first + count - 1 \in PieceIds
    BY <2>1 DEF PiecesAdded
  <2>3. QED BY <1>2, <1>3, <2>2 DEF PieceIds
<1>5. pieces \in SUBSET PieceIds /\ added \in SUBSET PieceIds
  BY <1>2 DEF PiecesAdded
<1>6. clientNonces' \in [Payers -> [Nonces -> NonceUse]]
  <2> DEFINE use == [nextPieceId |-> first + count, dataSetId |-> d]
  <2>1. use \in NonceUse
    BY <1>4 DEF NonceUse
  <2>2. clientNonces' = [clientNonces EXCEPT ![p][nonce] = use]
    BY DEF PiecesAdded
  <2>3. clientNonces \in [Payers -> [Nonces -> NonceUse]]
    BY DEF IInv, TypeOK
  <2>4. QED
    <3> HIDE DEF use, p
    <3> QED BY <1>1, <2>1, <2>2, <2>3
<1>7. pdp' \in [DataSetIds -> VerifierDataSet] /\ \A i \in DataSetIds :
        pdp'[i].challengeEpoch = pdp[i].challengeEpoch
  <2> DEFINE grown == [pdp[d] EXCEPT !.pieces = pieces, !.nextPieceId = first + count]
  <2>1. grown \in VerifierDataSet /\ grown.challengeEpoch = pdp[d].challengeEpoch
    <3> HIDE DEF pieces, first
    <3> QED BY <1>2, <1>4, <1>5 DEF VerifierDataSet
  <2>2. pdp' = [pdp EXCEPT ![d] = grown]
    BY <1>2 DEF PiecesAdded
  <2>3. QED
    <3> HIDE DEF grown
    <3> QED BY <1>2, <2>1, <2>2
<1>8. RailsKeepPayers
  BY <1>5, PieceCountType, UpdatePaymentRatesStep DEF PiecesAdded
<1>9. pieceMetadata' \in [DataSetIds -> SUBSET PieceIds]
  <2>1. pieceMetadata' = [pieceMetadata EXCEPT ![d] = pieceMetadata[d] \cup added]
    BY DEF PiecesAdded
  <2>2. QED
    <3> HIDE DEF added
    <3> QED BY <1>5, <2>1 DEF IInv, TypeOK
<1>10. TypeOK'
  BY <1>6, <1>7, <1>8, <1>9 DEF PiecesAdded, service, schedule, RailsKeepPayers, IInv, TypeOK
<1>11. WindowWithinPeriod' /\ RailIdsSuffice'
  BY DEF PiecesAdded, service, IInv, WindowWithinPeriod, RailIdsSuffice
<1>12. ActivationComesFirst'
  BY <1>7 DEF PiecesAdded, schedule, IInv, ActivationComesFirst
<1>13. PayersKnown'
  BY <1>8, PayersStayKnown DEF PiecesAdded
<1>14. QED BY <1>10, <1>11, <1>12, <1>13 DEF IInv

\* piecesScheduledRemove.
LEMMA PiecesScheduledRemoveStep ==
  ASSUME IInv, NEW d \in DataSetIds, NEW pieceIds \in SUBSET PieceIds,
         PiecesScheduledRemove(d, pieceIds)
  PROVE  IInv'
<1>1. pdp' \in [DataSetIds -> VerifierDataSet] /\ \A i \in DataSetIds :
        pdp'[i].challengeEpoch = pdp[i].challengeEpoch
  <2> DEFINE marked == [pdp[d] EXCEPT !.removals = pdp[d].removals \cup pieceIds]
  <2>1. pdp \in [DataSetIds -> VerifierDataSet]
    BY DEF IInv, TypeOK
  <2>2. marked \in VerifierDataSet /\ marked.challengeEpoch = pdp[d].challengeEpoch
    BY <2>1 DEF VerifierDataSet
  <2>3. pdp' = [pdp EXCEPT ![d] = marked]
    BY <2>1 DEF PiecesScheduledRemove
  <2>4. QED
    <3> HIDE DEF marked
    <3> QED BY <2>1, <2>2, <2>3
<1>2. scheduledPieceMetadataRemovals' \in [DataSetIds -> SUBSET PieceIds]
  BY DEF PiecesScheduledRemove, IInv, TypeOK
<1>3. TypeOK'
  BY <1>1, <1>2 DEF PiecesScheduledRemove, service, schedule, registers, IInv, TypeOK
<1>4. WindowWithinPeriod' /\ RailIdsSuffice'
  BY DEF PiecesScheduledRemove, service, IInv, WindowWithinPeriod, RailIdsSuffice
<1>5. ActivationComesFirst'
  BY <1>1 DEF PiecesScheduledRemove, schedule, IInv, ActivationComesFirst
<1>6. PayersKnown'
  BY UnchangedRails, PayersStayKnown DEF PiecesScheduledRemove, registers
<1>7. QED BY <1>3, <1>4, <1>5, <1>6 DEF IInv

\* possessionProven: the proof arrives after the activation, so the epoch has a
\* period.
LEMMA PossessionProvenStep ==
  ASSUME IInv, NEW d \in DataSetIds, PossessionProven(d)
  PROVE  IInv'
<1> DEFINE A == provingActivationEpoch[d]
           M == proving.maxProvingPeriod
           period == ProvingPeriodForEpoch(A, blockNumber, M)
<1>1. A \in Nat /\ M \in Nat \ {0} /\ blockNumber \in Nat
  BY BlockNumberType DEF IInv, TypeOK
<1>2. A # NeverActivated /\ A < blockNumber
  <2>1. pdp[d].challengeEpoch \in Nat
    BY DEF IInv, TypeOK, VerifierDataSet
  <2>2. A # NeverActivated /\ A < pdp[d].challengeEpoch /\ pdp[d].challengeEpoch <= blockNumber
    BY DEF PossessionProven, IInv, ActivationComesFirst
  <2> HIDE DEF A
  <2>3. QED BY <1>1, <2>1, <2>2
<1>3. period \in Nat
  <2> HIDE DEF A, M
  <2>1. blockNumber - A - 1 \in Nat
    BY <1>1, <1>2
  <2>2. (blockNumber - A - 1) \div M \in Nat
    BY <1>1, <2>1, DivisionBounds
  <2>3. QED BY <1>1, <1>2, <2>2 DEF ProvingPeriodForEpoch
<1>4. provenPeriods' \in [DataSetIds -> SUBSET Nat]
  <2>1. provenPeriods' = [provenPeriods EXCEPT ![d] = provenPeriods[d] \cup {period}]
    BY DEF PossessionProven
  <2> HIDE DEF period
  <2>2. QED BY <1>3, <2>1 DEF IInv, TypeOK
<1>5. provenThisPeriod' \in [DataSetIds -> BOOLEAN]
  BY DEF PossessionProven, IInv, TypeOK
<1>6. TypeOK'
  BY <1>4, <1>5 DEF PossessionProven, service, registers, metadata, external, IInv, TypeOK
<1>7. WindowWithinPeriod' /\ RailIdsSuffice'
  BY DEF PossessionProven, service, external, IInv, WindowWithinPeriod, RailIdsSuffice
<1>8. ActivationComesFirst'
  BY DEF PossessionProven, external, IInv, ActivationComesFirst
<1>9. PayersKnown'
  BY UnchangedRails, PayersStayKnown DEF PossessionProven, registers, external
<1>10. QED BY <1>6, <1>7, <1>8, <1>9 DEF IInv

\* PDPVerifier.nextProvingPeriod removes pieces and sets the challenge.
LEMMA ProvingSetStep ==
  ASSUME IInv, NEW d \in DataSetIds, NEW challengeEpoch \in Nat,
         ProvingSetUpdated(d, challengeEpoch)
  PROVE  /\ pdp' \in [DataSetIds -> VerifierDataSet]
         /\ \A i \in DataSetIds :
              pdp'[i].challengeEpoch = IF i = d THEN challengeEpoch ELSE pdp[i].challengeEpoch
<1> DEFINE advanced == [pdp[d] EXCEPT !.pieces = PiecesAfterRemovals(d), !.removals = {},
                                      !.challengeEpoch = challengeEpoch]
<1>1. pdp \in [DataSetIds -> VerifierDataSet]
  BY DEF IInv, TypeOK
<1>2. PiecesAfterRemovals(d) \in SUBSET PieceIds
  BY <1>1 DEF PiecesAfterRemovals, VerifierDataSet
<1>3. advanced \in VerifierDataSet /\ advanced.challengeEpoch = challengeEpoch
  BY <1>1, <1>2 DEF VerifierDataSet
<1>4. pdp' = [pdp EXCEPT ![d] = advanced]
  BY <1>1 DEF ProvingSetUpdated
<1>5. QED
  <2> HIDE DEF advanced
  <2> QED BY <1>1, <1>3, <1>4

\* The size of a data set after its removals.
LEMMA PiecesLeftType ==
  ASSUME IInv, NEW d \in DataSetIds
  PROVE  Cardinality(PiecesAfterRemovals(d)) \in Nat
<1>1. PiecesAfterRemovals(d) \in SUBSET PieceIds
  BY DEF PiecesAfterRemovals, IInv, TypeOK, VerifierDataSet
<1>2. QED BY <1>1, PieceCountType

\* nextProvingPeriod, the first time: the challenge lies in the window before a
\* deadline a whole period away.
LEMMA StartProvingStep ==
  ASSUME IInv, NEW d \in DataSetIds, NEW challengeEpoch \in Nat, StartProving(d, challengeEpoch)
  PROVE  IInv'
<1> DEFINE firstDeadline == blockNumber + proving.maxProvingPeriod
<1>1. /\ blockNumber \in Nat \ {0} /\ proving.maxProvingPeriod \in Nat \ {0}
      /\ proving.challengeWindowSize \in Nat
      /\ proving.challengeWindowSize < proving.maxProvingPeriod
  BY BlockNumberType DEF IInv, TypeOK, WindowWithinPeriod
<1>2. /\ pdp' \in [DataSetIds -> VerifierDataSet]
      /\ \A i \in DataSetIds :
           pdp'[i].challengeEpoch = IF i = d THEN challengeEpoch ELSE pdp[i].challengeEpoch
  BY ProvingSetStep DEF StartProving
<1>3. /\ RailsKeepPayers
      /\ pieceMetadata' \in [DataSetIds -> SUBSET PieceIds]
      /\ scheduledPieceMetadataRemovals' \in [DataSetIds -> SUBSET PieceIds]
  BY ScheduledRemovalsStep, PiecesLeftType DEF StartProving
<1>4. /\ provingDeadlines' = [provingDeadlines EXCEPT ![d] = firstDeadline]
      /\ provingActivationEpoch' = [provingActivationEpoch EXCEPT ![d] = blockNumber]
  BY DEF StartProving
<1>5. /\ provingDeadlines' \in [DataSetIds -> Nat]
      /\ provingActivationEpoch' \in [DataSetIds -> Nat]
  BY <1>1, <1>4 DEF IInv, TypeOK
<1>6. TypeOK'
  BY <1>2, <1>3, <1>5 DEF StartProving, service, registers, RailsKeepPayers, IInv, TypeOK
<1>7. WindowWithinPeriod' /\ RailIdsSuffice'
  BY DEF StartProving, service, IInv, WindowWithinPeriod, RailIdsSuffice
<1>8. ActivationComesFirst'
  <2>1. challengeEpoch \in firstDeadline - proving.challengeWindowSize .. firstDeadline
    BY DEF StartProving, InChallengeWindow
  <2>2. blockNumber < challengeEpoch /\ blockNumber < firstDeadline /\ blockNumber # NeverActivated
    BY <1>1, <2>1 DEF NeverActivated
  <2>3. QED BY <1>2, <1>4, <2>2 DEF IInv, TypeOK, ActivationComesFirst
<1>9. PayersKnown'
  BY <1>3, PayersStayKnown DEF StartProving, registers
<1>10. QED BY <1>6, <1>7, <1>8, <1>9 DEF IInv

\* The next deadline lies whole periods after the pending one.
LEMMA NextDeadlineLater ==
  ASSUME IInv, NEW d \in DataSetIds
  PROVE  \E k \in Nat : NextDeadline(d) = provingDeadlines[d] + proving.maxProvingPeriod * (k + 1)
<1>1. /\ blockNumber \in Nat \ {0} /\ proving.maxProvingPeriod \in Nat \ {0}
      /\ provingDeadlines[d] \in Nat
  BY BlockNumberType DEF IInv, TypeOK
<1>2. PeriodsSkipped(d) \in Nat
  <2>1. CASE blockNumber <= provingDeadlines[d]
    BY <2>1 DEF PeriodsSkipped
  <2>2. CASE ~(blockNumber <= provingDeadlines[d])
    <3>1. blockNumber - (provingDeadlines[d] + 1) \in Nat
      BY <1>1, <2>2
    <3>2. QED BY <1>1, <2>2, <3>1, DivisionBounds DEF PeriodsSkipped
  <2>3. QED BY <2>1, <2>2
<1>3. QED BY <1>2 DEF NextDeadline

\* nextProvingPeriod, afterwards.
LEMMA AdvanceProvingPeriodStep ==
  ASSUME IInv, NEW d \in DataSetIds, NEW challengeEpoch \in Nat,
         AdvanceProvingPeriod(d, challengeEpoch)
  PROVE  IInv'
<1> DEFINE nextDeadline == IF challengeEpoch = NoChallengeScheduled
                           THEN NoProvingDeadline ELSE NextDeadline(d)
<1>1. /\ blockNumber \in Nat \ {0} /\ proving.maxProvingPeriod \in Nat \ {0}
      /\ proving.challengeWindowSize \in Nat
      /\ proving.challengeWindowSize < proving.maxProvingPeriod
      /\ provingDeadlines[d] \in Nat
  BY BlockNumberType DEF IInv, TypeOK, WindowWithinPeriod
<1>2. /\ pdp' \in [DataSetIds -> VerifierDataSet]
      /\ \A i \in DataSetIds :
           pdp'[i].challengeEpoch = IF i = d THEN challengeEpoch ELSE pdp[i].challengeEpoch
  BY ProvingSetStep DEF AdvanceProvingPeriod
<1>3. /\ RailsKeepPayers
      /\ pieceMetadata' \in [DataSetIds -> SUBSET PieceIds]
      /\ scheduledPieceMetadataRemovals' \in [DataSetIds -> SUBSET PieceIds]
  BY ScheduledRemovalsStep, PiecesLeftType DEF AdvanceProvingPeriod
<1>4. PICK k \in Nat :
        NextDeadline(d) = provingDeadlines[d] + proving.maxProvingPeriod * (k + 1)
  BY NextDeadlineLater
<1>5. NextDeadline(d) \in Nat
        /\ NextDeadline(d) >= provingDeadlines[d] + proving.maxProvingPeriod
  <2>1. proving.maxProvingPeriod * (k + 1) \in Nat
          /\ proving.maxProvingPeriod * (k + 1) >= proving.maxProvingPeriod
    BY <1>1
  <2>2. QED BY <1>1, <1>4, <2>1
<1>6. provingDeadlines' = [provingDeadlines EXCEPT ![d] = nextDeadline]
  BY DEF AdvanceProvingPeriod
<1>7. provingDeadlines' \in [DataSetIds -> Nat]
  BY <1>5, <1>6 DEF IInv, TypeOK, NoProvingDeadline
<1>8. provenThisPeriod' \in [DataSetIds -> BOOLEAN]
  BY DEF AdvanceProvingPeriod, IInv, TypeOK
<1>9. TypeOK'
  BY <1>2, <1>3, <1>7, <1>8
     DEF AdvanceProvingPeriod, service, registers, RailsKeepPayers, IInv, TypeOK
<1>10. WindowWithinPeriod' /\ RailIdsSuffice'
  BY DEF AdvanceProvingPeriod, service, IInv, WindowWithinPeriod, RailIdsSuffice
<1>11. ActivationComesFirst'
  <2>1. /\ provingActivationEpoch[d] # NeverActivated
        /\ provingActivationEpoch[d] < provingDeadlines[d]
        /\ provingActivationEpoch[d] \in Nat
    BY DEF AdvanceProvingPeriod, IInv, TypeOK, ActivationComesFirst
  <2>2. challengeEpoch # NoChallengeScheduled =>
          challengeEpoch \in NextDeadline(d) - proving.challengeWindowSize .. NextDeadline(d)
    BY DEF AdvanceProvingPeriod, InChallengeWindow
  <2>3. challengeEpoch # NoChallengeScheduled => provingActivationEpoch[d] < challengeEpoch
    BY <1>1, <1>5, <2>1, <2>2
  <2>4. nextDeadline # NoProvingDeadline => provingActivationEpoch[d] < nextDeadline
    BY <1>1, <1>5, <2>1
  <2>5. provingActivationEpoch' = provingActivationEpoch
    BY DEF AdvanceProvingPeriod
  <2> HIDE DEF nextDeadline
  <2>6. QED BY <1>2, <1>6, <2>1, <2>3, <2>4, <2>5 DEF IInv, TypeOK, ActivationComesFirst
<1>12. PayersKnown'
  BY <1>3, PayersStayKnown DEF AdvanceProvingPeriod, registers
<1>13. QED BY <1>9, <1>10, <1>11, <1>12 DEF IInv

-----------------------------------------------------------------------------
(* The calls of clients, providers, the FilBeam controller and the owner.  *)

\* A payer's lockup is settled up to an epoch.
LEMMA LockupLastSettledAtType ==
  ASSUME IInv, NEW p \in Payers
  PROVE  LockupLastSettledAt(p) \in Nat
BY BlockNumberType DEF LockupLastSettledAt, IInv, TypeOK

\* Terminating some of a payer's rails.
LEMMA TerminateRunningStep ==
  ASSUME IInv, NEW p \in Payers, NEW rs, rails' = TerminateRunning(rs, p)
  PROVE  RailsKeepPayers
<1>1. LockupLastSettledAt(p) \in Nat
  BY LockupLastSettledAtType
<1>2. ASSUME NEW r \in RailIds
      PROVE  /\ rails'[r] \in Rail
             /\ rails'[r].status = rails[r].status
             /\ rails'[r].payer = rails[r].payer
  <2>1. rails[r] \in Rail
    BY DEF IInv, TypeOK
  <2>2. rails'[r] = rails[r] \/ rails'[r] = Terminate(rails[r], LockupLastSettledAt(p))
    BY DEF TerminateRunning
  <2>3. QED BY <1>1, <2>1, <2>2, TerminateType
<1>3. rails' \in [RailIds -> Rail]
  <2>1. rails' = [r \in RailIds |-> rails'[r]]
    BY DEF TerminateRunning
  <2>2. QED BY <1>2, <2>1
<1>4. QED BY <1>2, <1>3 DEF RailsKeepPayers

\* terminateService.
LEMMA TerminateServiceStep ==
  ASSUME IInv, NEW d \in DataSetIds, TerminateService(d)
  PROVE  IInv'
<1> DEFINE info == dataSetInfo[d]
           end  == rails'[info.pdpRailId].endEpoch
           other == railToDataSet[info.pdpRailId]
<1>1. info.payer \in Payers
  BY DEF TerminateService, MayTerminateService, IInv, PayersKnown
<1>2. info.pdpRailId \in RailIds
  BY DEF TerminateService, MayTerminateService, IInv, TypeOK, DataSetInfo
<1>3. RailsKeepPayers
  BY <1>1, TerminateRunningStep DEF TerminateService
<1>4. other \in DataSetIds
  BY <1>2 DEF TerminateService, MayTerminateService, IInv, TypeOK
<1>5. end \in Nat
  BY <1>2, <1>3 DEF RailsKeepPayers, Rail
<1>6. /\ dataSetInfo' \in [DataSetIds -> DataSetInfo]
      /\ \A i \in DataSetIds : /\ dataSetInfo'[i].payer = dataSetInfo[i].payer
                               /\ dataSetInfo'[i].pdpRailId = dataSetInfo[i].pdpRailId
                               /\ dataSetInfo'[i].cacheMissRailId = dataSetInfo[i].cacheMissRailId
                               /\ dataSetInfo'[i].cdnRailId = dataSetInfo[i].cdnRailId
  <2> DEFINE ended == [dataSetInfo[other] EXCEPT !.pdpEndEpoch = end]
  <2>1. dataSetInfo \in [DataSetIds -> DataSetInfo]
    BY DEF IInv, TypeOK
  <2>2. /\ ended \in DataSetInfo
        /\ ended.payer = dataSetInfo[other].payer
        /\ ended.pdpRailId = dataSetInfo[other].pdpRailId
        /\ ended.cacheMissRailId = dataSetInfo[other].cacheMissRailId
        /\ ended.cdnRailId = dataSetInfo[other].cdnRailId
    <3>1. dataSetInfo[other] \in DataSetInfo
      BY <1>4, <2>1
    <3> HIDE DEF end, other
    <3>2. QED BY <1>5, <3>1 DEF DataSetInfo
  <2>3. dataSetInfo' = [dataSetInfo EXCEPT ![other] = ended]
    BY <1>4, <2>1 DEF TerminateService
  <2>4. QED
    <3> HIDE DEF ended, other
    <3> QED BY <1>4, <2>1, <2>2, <2>3
<1>7. withCDN' \in [DataSetIds -> BOOLEAN] /\ dryAt' \in [Payers -> Nat]
  BY <1>1 DEF TerminateService, IInv, TypeOK, Solvency
<1>8. TypeOK'
  BY <1>3, <1>6, <1>7 DEF TerminateService, service, schedule, RailsKeepPayers, IInv, TypeOK
<1>9. WindowWithinPeriod' /\ RailIdsSuffice'
  BY DEF TerminateService, service, IInv, WindowWithinPeriod, RailIdsSuffice
<1>10. ActivationComesFirst'
  BY DEF TerminateService, schedule, IInv, ActivationComesFirst
<1>11. PayersKnown'
  BY <1>3, <1>6 DEF RailsKeepPayers, IInv, PayersKnown
<1>12. QED BY <1>8, <1>9, <1>10, <1>11 DEF IInv

\* terminateCDNService.
LEMMA TerminateCDNServiceStep ==
  ASSUME IInv, NEW d \in DataSetIds, TerminateCDNService(d)
  PROVE  IInv'
<1>1. dataSetInfo[d].payer \in Payers
  BY DEF TerminateCDNService, IInv, PayersKnown
<1>2. RailsKeepPayers
  BY <1>1, TerminateRunningStep DEF TerminateCDNService
<1>3. withCDN' \in [DataSetIds -> BOOLEAN]
  BY DEF TerminateCDNService, IInv, TypeOK
<1>4. TypeOK'
  BY <1>2, <1>3
     DEF TerminateCDNService, service, schedule, registers, RailsKeepPayers, IInv, TypeOK
<1>5. WindowWithinPeriod' /\ RailIdsSuffice'
  BY DEF TerminateCDNService, service, IInv, WindowWithinPeriod, RailIdsSuffice
<1>6. ActivationComesFirst'
  BY DEF TerminateCDNService, schedule, IInv, ActivationComesFirst
<1>7. PayersKnown'
  BY <1>2, PayersStayKnown DEF TerminateCDNService, registers
<1>8. QED BY <1>4, <1>5, <1>6, <1>7 DEF IInv

\* A step that only changes rails and funds.
LEMMA RailStep ==
  ASSUME IInv, RailsKeepPayers, dryAt' \in [Payers -> Nat],
         UNCHANGED <<blockNumber, service, schedule, registers, metadata, pdp, nextIds>>
  PROVE  IInv'
<1>1. TypeOK'
  BY DEF service, schedule, registers, metadata, RailsKeepPayers, IInv, TypeOK
<1>2. WindowWithinPeriod' /\ RailIdsSuffice'
  BY DEF service, IInv, WindowWithinPeriod, RailIdsSuffice
<1>3. ActivationComesFirst'
  BY DEF schedule, IInv, ActivationComesFirst
<1>4. PayersKnown'
  BY PayersStayKnown DEF registers
<1>5. QED BY <1>1, <1>2, <1>3, <1>4 DEF IInv

\* settleFilBeamPaymentRails: no more than the fixed lockup is paid.
LEMMA SettleFilBeamPaymentRailsStep ==
  ASSUME IInv, NEW d \in DataSetIds, NEW a \in CdnAmounts, NEW b \in CdnAmounts,
         SettleFilBeamPaymentRails(d, a, b)
  PROVE  IInv'
<1> DEFINE cdn  == dataSetInfo[d].cdnRailId
           miss == dataSetInfo[d].cacheMissRailId
<1>1. a \in Nat /\ b \in Nat
  BY Constants DEF ConstantsAssumption
<1>2. /\ a > 0 => a <= rails[cdn].lockupFixed
      /\ b > 0 => b <= rails[miss].lockupFixed
  BY DEF SettleFilBeamPaymentRails, CanPayOnce
<1>3. rails' = [r \in RailIds |-> CASE r = cdn /\ a > 0  -> PayOnce(rails[r], a)
                                    [] r = miss /\ b > 0 -> PayOnce(rails[r], b)
                                    [] OTHER             -> rails[r]]
  BY DEF SettleFilBeamPaymentRails
<1>4. ASSUME NEW r \in RailIds
      PROVE  /\ rails'[r] \in Rail
             /\ rails'[r].status = rails[r].status
             /\ rails'[r].payer = rails[r].payer
  <2>1. rails[r] \in Rail
    BY DEF IInv, TypeOK
  <2>2. \/ r = cdn /\ a > 0 /\ rails'[r] = PayOnce(rails[r], a)
        \/ r = miss /\ b > 0 /\ rails'[r] = PayOnce(rails[r], b)
        \/ rails'[r] = rails[r]
    <3> HIDE DEF cdn, miss
    <3> QED BY <1>3
  <2>3. \/ a <= rails[r].lockupFixed /\ rails'[r] = PayOnce(rails[r], a)
        \/ b <= rails[r].lockupFixed /\ rails'[r] = PayOnce(rails[r], b)
        \/ rails'[r] = rails[r]
    BY <1>2, <2>2
  <2>4. QED BY <1>1, <2>1, <2>3, PayOnceType
<1>5. RailsKeepPayers
  <2>1. rails' \in [RailIds -> Rail]
    BY <1>3, <1>4
  <2>2. QED BY <1>4, <2>1 DEF RailsKeepPayers
<1>6. dryAt' \in [Payers -> Nat]
  BY DEF SettleFilBeamPaymentRails, IInv, TypeOK
<1>7. QED BY <1>5, <1>6, RailStep DEF SettleFilBeamPaymentRails

\* topUpCDNPaymentRails.
LEMMA TopUpCDNPaymentRailsStep ==
  ASSUME IInv, NEW d \in DataSetIds, NEW a \in CdnAmounts, NEW b \in CdnAmounts,
         TopUpCDNPaymentRails(d, a, b)
  PROVE  IInv'
<1> DEFINE cdn  == dataSetInfo[d].cdnRailId
           miss == dataSetInfo[d].cacheMissRailId
<1>1. a \in Nat /\ b \in Nat
  BY Constants DEF ConstantsAssumption
<1>2. rails' = [r \in RailIds |-> CASE r = cdn  -> RaiseLockup(rails[r], a)
                                    [] r = miss -> RaiseLockup(rails[r], b)
                                    [] OTHER    -> rails[r]]
  BY DEF TopUpCDNPaymentRails
<1>3. ASSUME NEW r \in RailIds
      PROVE  /\ rails'[r] \in Rail
             /\ rails'[r].status = rails[r].status
             /\ rails'[r].payer = rails[r].payer
  <2>1. rails[r] \in Rail
    BY DEF IInv, TypeOK
  <2>2. \/ rails'[r] = RaiseLockup(rails[r], a)
        \/ rails'[r] = RaiseLockup(rails[r], b)
        \/ rails'[r] = rails[r]
    <3> HIDE DEF cdn, miss
    <3> QED BY <1>2
  <2>3. QED BY <1>1, <2>1, <2>2, RaiseLockupType
<1>4. RailsKeepPayers
  <2>1. rails' \in [RailIds -> Rail]
    BY <1>2, <1>3
  <2>2. QED BY <1>3, <2>1 DEF RailsKeepPayers
<1>5. dryAt' \in [Payers -> Nat]
  BY DEF TopUpCDNPaymentRails, IInv, TypeOK
<1>6. QED BY <1>4, <1>5, RailStep DEF TopUpCDNPaymentRails

\* updatePricing.
LEMMA UpdatePricingStep ==
  ASSUME IInv, NEW price \in StoragePrices, NEW rate \in MinimumRates, UpdatePricing(price, rate)
  PROVE  IInv'
<1>1. pricing' \in [storagePrice : Nat, minimumRate : Nat]
  BY Constants DEF UpdatePricing, IInv, TypeOK, ConstantsAssumption
<1>2. TypeOK'
  BY <1>1 DEF UpdatePricing, schedule, registers, metadata, external, IInv, TypeOK
<1>3. WindowWithinPeriod' /\ RailIdsSuffice'
  BY DEF UpdatePricing, external, IInv, WindowWithinPeriod, RailIdsSuffice
<1>4. ActivationComesFirst'
  BY DEF UpdatePricing, schedule, external, IInv, ActivationComesFirst
<1>5. PayersKnown'
  BY UnchangedRails, PayersStayKnown DEF UpdatePricing, registers, external
<1>6. QED BY <1>2, <1>3, <1>4, <1>5 DEF IInv

\* configureProvingPeriod.
LEMMA ConfigureProvingPeriodStep ==
  ASSUME IInv, NEW config \in ProvingConfigs, ConfigureProvingPeriod(config)
  PROVE  IInv'
<1>1. config \in [maxProvingPeriod : Nat, challengeWindowSize : Nat]
  BY Constants DEF ConstantsAssumption
<1>2. /\ proving' \in [maxProvingPeriod : Nat \ {0}, challengeWindowSize : Nat \ {0}]
      /\ proving'.challengeWindowSize < proving'.maxProvingPeriod
  BY <1>1 DEF ConfigureProvingPeriod
<1>3. TypeOK'
  BY <1>2 DEF ConfigureProvingPeriod, schedule, registers, metadata, external, IInv, TypeOK
<1>4. WindowWithinPeriod' /\ RailIdsSuffice'
  BY <1>2 DEF ConfigureProvingPeriod, external, IInv, WindowWithinPeriod, RailIdsSuffice
<1>5. ActivationComesFirst'
  BY DEF ConfigureProvingPeriod, schedule, external, IInv, ActivationComesFirst
<1>6. PayersKnown'
  BY UnchangedRails, PayersStayKnown DEF ConfigureProvingPeriod, registers, external
<1>7. QED BY <1>3, <1>4, <1>5, <1>6 DEF IInv

-----------------------------------------------------------------------------
(* FilecoinPay, funds and time.                                            *)

\* settleRail.
LEMMA SettleRailStep ==
  ASSUME IInv, NEW r \in RailIds, NEW untilEpoch \in Nat, SettleRail(r, untilEpoch)
  PROVE  IInv'
<1>1. rails[r] \in Rail /\ rails[r].payer \in Payers
  BY DEF SettleRail, IInv, TypeOK, PayersKnown
<1>2. TargetOf(r, untilEpoch) \in Nat
  BY <1>1, LockupLastSettledAtType, SettlementTargetType DEF TargetOf
<1>3. PICK target \in {TargetOf(r, untilEpoch)}, outcomes \in {Outcomes(r, TargetOf(r, untilEpoch))} :
        /\ CanSettle(rails[r], target, outcomes)
        /\ rails' = [rails EXCEPT ![r] = Settled(rails[r], target, outcomes)]
  BY DEF SettleRail
<1>4. /\ Settled(rails[r], target, outcomes) \in Rail
      /\ Settled(rails[r], target, outcomes).status = "active" =>
           Settled(rails[r], target, outcomes).payer = rails[r].payer
  BY <1>1, <1>2, <1>3, SettledType
<1>5. RailsKeepPayers
  BY <1>3, <1>4, OneRailReplaced DEF SettleRail
<1>6. dryAt' \in [Payers -> Nat]
  BY DEF SettleRail, IInv, TypeOK
<1>7. QED BY <1>5, <1>6, RailStep DEF SettleRail

\* settleTerminatedRailWithoutValidation.
LEMMA SettleTerminatedRailWithoutValidationStep ==
  ASSUME IInv, NEW d \in DataSetIds, SettleTerminatedRailWithoutValidation(d)
  PROVE  IInv'
<1> DEFINE r == dataSetInfo[d].pdpRailId
<1>1. r \in RailIds
  BY DEF SettleTerminatedRailWithoutValidation, IInv, TypeOK, DataSetInfo
<1>2. FinalizedRail.status # "active"
  BY DEF FinalizedRail, NoRail
<1>3. rails' = [rails EXCEPT ![r] = FinalizedRail]
  BY DEF SettleTerminatedRailWithoutValidation
<1>4. RailsKeepPayers
  <2> HIDE DEF r
  <2> QED BY <1>1, <1>2, <1>3, NoRailType, OneRailReplaced
<1>5. dryAt' \in [Payers -> Nat]
  BY DEF SettleTerminatedRailWithoutValidation, IInv, TypeOK
<1>6. QED BY <1>4, <1>5, RailStep DEF SettleTerminatedRailWithoutValidation

\* A payer's own terminateRail.
LEMMA PayerTerminatesRailStep ==
  ASSUME IInv, NEW r \in RailIds, PayerTerminatesRail(r)
  PROVE  IInv'
<1>1. rails[r] \in Rail
  BY DEF IInv, TypeOK
<1>2. /\ Terminate(rails[r], blockNumber) \in Rail
      /\ Terminate(rails[r], blockNumber).payer = rails[r].payer
      /\ Terminate(rails[r], blockNumber).status = rails[r].status
  BY <1>1, BlockNumberType, TerminateType
<1>3. RailsKeepPayers
  <2>1. rails' = [rails EXCEPT ![r] = Terminate(rails[r], blockNumber)]
    BY DEF PayerTerminatesRail
  <2>2. QED BY <1>2, <2>1, OneRailReplaced
<1>4. dryAt' \in [Payers -> Nat]
  BY DEF PayerTerminatesRail, IInv, TypeOK
<1>5. QED BY <1>3, <1>4, RailStep DEF PayerTerminatesRail

\* Funds run out or come back.
LEMMA FundsStep ==
  ASSUME IInv, NEW p \in Payers, RunDry(p) \/ Deposit(p)
  PROVE  IInv'
<1>1. RailsKeepPayers
  BY UnchangedRails DEF RunDry, Deposit
<1>2. dryAt' \in [Payers -> Nat]
  <2>1. dryAt \in [Payers -> Nat] /\ blockNumber \in Nat
    BY BlockNumberType DEF IInv, TypeOK
  <2>2. QED BY <2>1 DEF RunDry, Deposit, Solvency
<1>3. QED BY <1>1, <1>2, RailStep DEF RunDry, Deposit

\* Time passes.
LEMMA NewEpochStep ==
  ASSUME IInv, NewEpoch
  PROVE  IInv'
<1>1. blockNumber' \in Epochs
  <2>1. FirstEpoch \in Nat /\ MaxEpoch \in Nat
    BY Constants DEF ConstantsAssumption
  <2>2. blockNumber \in FirstEpoch .. MaxEpoch
    BY DEF IInv, TypeOK, Epochs
  <2>3. blockNumber < MaxEpoch /\ blockNumber' = blockNumber + 1
    BY DEF NewEpoch
  <2>4. QED BY <2>1, <2>2, <2>3 DEF Epochs
<1>2. TypeOK'
  BY <1>1 DEF NewEpoch, service, schedule, registers, metadata, external, IInv, TypeOK
<1>3. WindowWithinPeriod' /\ RailIdsSuffice'
  BY DEF NewEpoch, service, external, IInv, WindowWithinPeriod, RailIdsSuffice
<1>4. ActivationComesFirst'
  BY DEF NewEpoch, schedule, external, IInv, ActivationComesFirst
<1>5. PayersKnown'
  BY UnchangedRails, PayersStayKnown DEF NewEpoch, registers, external
<1>6. QED BY <1>2, <1>3, <1>4, <1>5 DEF IInv

\* Nothing happens.
LEMMA StutteringStep ==
  ASSUME IInv, UNCHANGED vars
  PROVE  IInv'
BY DEF vars, service, schedule, registers, metadata, external, IInv, TypeOK,
       WindowWithinPeriod, RailIdsSuffice, ActivationComesFirst, PayersKnown

-----------------------------------------------------------------------------

\* The invariant is inductive.
LEMMA NextIInv ==
  ASSUME IInv, [Next]_vars
  PROVE  IInv'
<1>1. CASE PDPVerifierStep
  <2>1. ASSUME NEW p \in Payers, NEW n \in Nonces, NEW cdn \in CdnOptions,
               DataSetCreated(p, n, cdn)
        PROVE  IInv'
    BY <2>1, DataSetCreatedStep, Constants DEF ConstantsAssumption
  <2>2. ASSUME NEW d \in DataSetIds, DataSetDeleted(d)
        PROVE  IInv'
    BY <2>2, DataSetDeletedStep
  <2>3. ASSUME NEW d \in DataSetIds, NEW count \in 1 .. MaxPieces, NEW n \in Nonces,
               PiecesAdded(d, count, n)
        PROVE  IInv'
    BY <2>3, PiecesAddedStep
  <2>4. ASSUME NEW d \in DataSetIds, NEW s \in SUBSET RemovablePieces,
               PiecesScheduledRemove(d, s)
        PROVE  IInv'
    BY <2>4, PiecesScheduledRemoveStep, Constants DEF ConstantsAssumption
  <2>5. ASSUME NEW d \in DataSetIds, PossessionProven(d)
        PROVE  IInv'
    BY <2>5, PossessionProvenStep
  <2>6. ASSUME NEW d \in DataSetIds, NextProvingPeriod(d)
        PROVE  IInv'
    <3>1. PICK c \in ChallengeEpochs : StartProving(d, c) \/ AdvanceProvingPeriod(d, c)
      BY <2>6 DEF NextProvingPeriod
    <3>2. c \in Nat
      BY BlockNumberType DEF ChallengeEpochs, NoChallengeScheduled
    <3>3. QED BY <3>1, <3>2, StartProvingStep, AdvanceProvingPeriodStep
  <2>7. QED BY <1>1, <2>1, <2>2, <2>3, <2>4, <2>5, <2>6 DEF PDPVerifierStep
<1>2. CASE ServiceStep
  <2>1. ASSUME NEW d \in DataSetIds, TerminateService(d) \/ TerminateCDNService(d)
        PROVE  IInv'
    BY <2>1, TerminateServiceStep, TerminateCDNServiceStep
  <2>2. ASSUME NEW d \in DataSetIds, NEW a \in CdnAmounts, NEW b \in CdnAmounts,
               SettleFilBeamPaymentRails(d, a, b) \/ TopUpCDNPaymentRails(d, a, b)
        PROVE  IInv'
    BY <2>2, SettleFilBeamPaymentRailsStep, TopUpCDNPaymentRailsStep
  <2>3. ASSUME NEW price \in StoragePrices, NEW rate \in MinimumRates,
               UpdatePricing(price, rate)
        PROVE  IInv'
    BY <2>3, UpdatePricingStep
  <2>4. ASSUME NEW config \in ProvingConfigs, ConfigureProvingPeriod(config)
        PROVE  IInv'
    BY <2>4, ConfigureProvingPeriodStep
  <2>5. QED BY <1>2, <2>1, <2>2, <2>3, <2>4 DEF ServiceStep
<1>3. CASE FilecoinPayStep
  <2>1. ASSUME NEW r \in RailIds, NEW e \in Epochs, SettleRail(r, e)
        PROVE  IInv'
    <3>1. e \in Nat
      BY Constants DEF Epochs, ConstantsAssumption
    <3>2. QED BY <2>1, <3>1, SettleRailStep
  <2>2. ASSUME NEW r \in RailIds, PayerTerminatesRail(r)
        PROVE  IInv'
    BY <2>2, PayerTerminatesRailStep
  <2>3. ASSUME NEW d \in DataSetIds, SettleTerminatedRailWithoutValidation(d)
        PROVE  IInv'
    BY <2>3, SettleTerminatedRailWithoutValidationStep
  <2>4. ASSUME NEW p \in DryPayers, RunDry(p) \/ Deposit(p)
        PROVE  IInv'
    BY <2>4, FundsStep, Constants DEF ConstantsAssumption
  <2>5. QED BY <1>3, <2>1, <2>2, <2>3, <2>4 DEF FilecoinPayStep
<1>4. CASE NewEpoch
  BY <1>4, NewEpochStep
<1>5. CASE UNCHANGED vars
  BY <1>5, StutteringStep
<1>6. QED BY <1>1, <1>2, <1>3, <1>4, <1>5 DEF Next

\* Whatever is called, by whom and when, every variable of the contract and of its
\* neighbours holds a value of its kind: no period is marked at an epoch before
\* activation, no one-time payment makes a lockup negative, and no call leaves
\* a rail, a data set or a list of data sets malformed.
THEOREM TypeCorrect == Spec => []TypeOK
<1>1. Init => IInv
  BY InitIInv
<1>2. IInv /\ [Next]_vars => IInv'
  BY NextIInv
<1>3. IInv => TypeOK
  BY DEF IInv
<1>4. QED BY <1>1, <1>2, <1>3, PTL DEF Spec
-----------------------------------------------------------------------------
(* A signature is spent once.                                              *)

SpentNoncesKept ==
  \A p \in Payers, n \in Nonces :
    clientNonces[p][n] # NoNonce => clientNonces'[p][n] = clientNonces[p][n]

\* What an action may do to the nonces without reviving a spent one: mark one
\* that was unused.
LEMMA OneNonceSpent ==
  ASSUME clientNonces \in [Payers -> [Nonces -> NonceUse]],
         NEW q, NEW m, NEW use, NonceUnused(q, m),
         clientNonces' = [clientNonces EXCEPT ![q][m] = use]
  PROVE  SpentNoncesKept
<1> SUFFICES ASSUME NEW p \in Payers, NEW n \in Nonces, clientNonces[p][n] # NoNonce
             PROVE  clientNonces'[p][n] = clientNonces[p][n]
  BY DEF SpentNoncesKept
<1>1. CASE p = q /\ n = m
  BY <1>1 DEF NonceUnused
<1>2. CASE p = q /\ n # m
  BY <1>2
<1>3. CASE p # q
  BY <1>3
<1>4. QED BY <1>1, <1>2, <1>3

\* No step gives a spent nonce back, DataSetDeleted included.
LEMMA NextKeepsNonces ==
  ASSUME IInv, [Next]_vars
  PROVE  SpentNoncesKept
<1>0. clientNonces \in [Payers -> [Nonces -> NonceUse]]
  BY DEF IInv, TypeOK
<1>1. CASE PDPVerifierStep
  <2>1. ASSUME NEW p \in Payers, NEW n \in Nonces, NEW cdn \in CdnOptions,
               DataSetCreated(p, n, cdn)
        PROVE  SpentNoncesKept
    <3>1. NonceUnused(p, n)
      BY <2>1 DEF DataSetCreated
    <3>2. PICK use :
            clientNonces' = [clientNonces EXCEPT ![p][n] = use]
      BY <2>1 DEF DataSetCreated
    <3>3. QED BY <1>0, <3>1, <3>2, OneNonceSpent
  <2>2. ASSUME NEW d \in DataSetIds, DataSetDeleted(d)
        PROVE  UNCHANGED clientNonces
    BY <2>2 DEF DataSetDeleted
  <2>3. ASSUME NEW d \in DataSetIds, NEW count \in 1 .. MaxPieces, NEW n \in Nonces,
               PiecesAdded(d, count, n)
        PROVE  SpentNoncesKept
    <3>1. NonceUnused(Payer(d), n)
      BY <2>3 DEF PiecesAdded
    <3>2. PICK use :
            clientNonces' = [clientNonces EXCEPT ![Payer(d)][n] = use]
      BY <2>3 DEF PiecesAdded
    <3>3. QED BY <1>0, <3>1, <3>2, OneNonceSpent
  <2>4. ASSUME NEW d \in DataSetIds, NEW s \in SUBSET RemovablePieces,
               PiecesScheduledRemove(d, s)
        PROVE  UNCHANGED clientNonces
    BY <2>4 DEF PiecesScheduledRemove, registers
  <2>5. ASSUME NEW d \in DataSetIds, PossessionProven(d)
        PROVE  UNCHANGED clientNonces
    BY <2>5 DEF PossessionProven, registers
  <2>6. ASSUME NEW d \in DataSetIds, NextProvingPeriod(d)
        PROVE  UNCHANGED clientNonces
    BY <2>6 DEF NextProvingPeriod, StartProving, AdvanceProvingPeriod, registers
  <2>7. QED
    BY <1>1, <2>1, <2>2, <2>3, <2>4, <2>5, <2>6 DEF PDPVerifierStep, SpentNoncesKept
<1>2. CASE ServiceStep
  <2>1. ASSUME NEW d \in DataSetIds, TerminateService(d) \/ TerminateCDNService(d)
        PROVE  UNCHANGED clientNonces
    BY <2>1 DEF TerminateService, TerminateCDNService, registers
  <2>2. ASSUME NEW d \in DataSetIds, NEW a \in CdnAmounts, NEW b \in CdnAmounts,
               SettleFilBeamPaymentRails(d, a, b) \/ TopUpCDNPaymentRails(d, a, b)
        PROVE  UNCHANGED clientNonces
    BY <2>2 DEF SettleFilBeamPaymentRails, TopUpCDNPaymentRails, registers
  <2>3. ASSUME NEW price \in StoragePrices, NEW rate \in MinimumRates,
               UpdatePricing(price, rate)
        PROVE  UNCHANGED clientNonces
    BY <2>3 DEF UpdatePricing, registers
  <2>4. ASSUME NEW config \in ProvingConfigs, ConfigureProvingPeriod(config)
        PROVE  UNCHANGED clientNonces
    BY <2>4 DEF ConfigureProvingPeriod, registers
  <2>5. QED BY <1>2, <2>1, <2>2, <2>3, <2>4 DEF ServiceStep, SpentNoncesKept
<1>3. CASE FilecoinPayStep
  <2>1. ASSUME NEW r \in RailIds, NEW e \in Epochs, SettleRail(r, e)
        PROVE  UNCHANGED clientNonces
    BY <2>1 DEF SettleRail, registers
  <2>2. ASSUME NEW r \in RailIds, PayerTerminatesRail(r)
        PROVE  UNCHANGED clientNonces
    BY <2>2 DEF PayerTerminatesRail, registers
  <2>3. ASSUME NEW d \in DataSetIds, SettleTerminatedRailWithoutValidation(d)
        PROVE  UNCHANGED clientNonces
    BY <2>3 DEF SettleTerminatedRailWithoutValidation, registers
  <2>4. ASSUME NEW p \in DryPayers, RunDry(p) \/ Deposit(p)
        PROVE  UNCHANGED clientNonces
    BY <2>4 DEF RunDry, Deposit, registers
  <2>5. QED BY <1>3, <2>1, <2>2, <2>3, <2>4 DEF FilecoinPayStep, SpentNoncesKept
<1>4. CASE NewEpoch
  BY <1>4 DEF NewEpoch, registers, SpentNoncesKept
<1>5. CASE UNCHANGED vars
  BY <1>5 DEF vars, registers, SpentNoncesKept
<1>6. QED BY <1>1, <1>2, <1>3, <1>4, <1>5 DEF Next

\* A nonce the client signed pays for one creation or one addition ever: not even
\* deleting the data set, which clears the rest of its records, lets the provider
\* present the same signature again.
THEOREM NoncesStaySpent == Spec => NoncesAreSpentForGood
<1>1. Init => IInv
  BY InitIInv
<1>2. IInv /\ [Next]_vars => IInv'
  BY NextIInv
<1>3. IInv /\ [Next]_vars => [SpentNoncesKept]_vars
  BY NextKeepsNonces
<1>4. QED BY <1>1, <1>2, <1>3, PTL DEF Spec, NoncesAreSpentForGood, SpentNoncesKept

-----------------------------------------------------------------------------
(***************************************************************************)
(* Part 2.  The answer of validatePayment stays within what FilecoinPay    *)
(* accepts, for every range, activation, period length and set of proofs;  *)
(* and every range FilecoinPay asks about is one the argument applies to,  *)
(* because the queued rates of a rail stay in the order of their epochs.   *)
(***************************************************************************)

-----------------------------------------------------------------------------
(* Arbitration of one range.                                               *)

\* Numbers of epochs up to a bound earn amounts up to its multiple.
LEMMA ProratedBounded ==
  ASSUME NEW rate \in Nat, NEW epochs \in Nat \ {0}, NEW count \in Nat, NEW b \in Nat, count <= b
  PROVE  /\ Prorated(rate * epochs, count, epochs) \in Nat
         /\ Prorated(rate * epochs, count, epochs) <= rate * b
<1>1. (rate * epochs) * count = epochs * (rate * count) + 0
  OBVIOUS
<1>2. rate * count \in Nat
  OBVIOUS
<1>3. (epochs * (rate * count) + 0) \div epochs = rate * count
  <2> DEFINE k == rate * count
  <2>1. k \in Nat
    BY <1>2
  <2> HIDE DEF k
  <2>2. (epochs * k + 0) \div epochs = k
    BY <2>1, DivisionOfMultiple
  <2>3. QED BY <2>2 DEF k
<1>4. rate * count <= rate * b
  <2>1. PICK gap \in Nat : b = count + gap
    <3>1. b - count \in Nat /\ b = count + (b - count)
      OBVIOUS
    <3>2. QED BY <3>1
  <2>2. rate * b = rate * count + rate * gap /\ rate * gap \in Nat
    BY <2>1
  <2>3. QED BY <1>2, <2>2
<1>5. QED BY <1>1, <1>2, <1>3, <1>4 DEF Prorated

\* An epoch after activation belongs to a period.
LEMMA PeriodExists ==
  ASSUME NEW A \in Nat \ {0}, NEW M \in Nat \ {0}, NEW e \in Nat, A < e
  PROVE  ProvingPeriodForEpoch(A, e, M) \in Nat
<1>1. e - A - 1 \in Nat
  OBVIOUS
<1>2. (e - A - 1) \div M \in Nat
  BY <1>1, DivisionBounds
<1>3. QED BY <1>2 DEF ProvingPeriodForEpoch, NeverActivated
\* _findProvenEpochs moves settlement to an epoch of the range, and counts only epochs
\* that it moves over: the last proven or faulted period decides how far, and a proven
\* period ends there or before.
LEMMA FindProvenEpochsBounds ==
  ASSUME NEW proven \in SUBSET Nat, NEW from \in Nat, NEW to \in Nat, from < to,
         NEW A \in Nat \ {0}, NEW M \in Nat \ {0}, NEW now \in Nat,
         FindProvenEpochs(proven, from, to, A, M, now).ok
  PROVE  LET found == FindProvenEpochs(proven, from, to, A, M, now)
         IN  /\ found.settleUpTo \in from .. to
             /\ found.count \in Nat
             /\ found.count <= found.settleUpTo - from
<1> DEFINE start    == Max({from, A})
           deadline(p) == CalcPeriodDeadline(A, p, M)
           first    == ProvingPeriodForEpoch(A, start + 1, M)
           final    == ProvingPeriodForEpoch(A, to, M)
           resolved == {p \in first .. final : p \in proven \/ DeadlinePassed(deadline(p), now)}
           reached  == {start} \cup {Min({to, deadline(p)}) : p \in resolved}
           epochs   == UNION {EpochsOfPeriodWithin(A, p, M, start, to)
                                : p \in (first .. final) \cap proven}
           upTo     == Max(reached)
           found    == FindProvenEpochs(proven, from, to, A, M, now)
<1>1. A < to
  BY DEF FindProvenEpochs, Reverted
<1>2. start \in Nat /\ from <= start /\ A <= start /\ start < to
  BY <1>1, MaxOfTwo
<1>3. first \in Nat /\ final \in Nat
  <2> HIDE DEF start
  <2>1. start + 1 \in Nat /\ A < start + 1
    BY <1>2
  <2>2. QED BY <1>1, <2>1, PeriodExists
<1>4. found = [ok |-> TRUE, count |-> Cardinality(epochs), settleUpTo |-> upTo]
  BY <1>1 DEF FindProvenEpochs, Reverted
<1>5. ASSUME NEW p \in first .. final
      PROVE  deadline(p) \in Nat /\ Min({to, deadline(p)}) \in Nat /\ Min({to, deadline(p)}) <= to
  <2> HIDE DEF first, final
  <2>1. p \in Nat
    BY <1>3
  <2>2. deadline(p) \in Nat
    BY <2>1 DEF CalcPeriodDeadline
  <2> HIDE DEF deadline
  <2>3. QED BY <2>2, MinOfTwo
<1>6. ASSUME NEW x \in reached
      PROVE  x \in Nat /\ x <= to
  <2>1. CASE x = start
    BY <1>2, <2>1
  <2>2. CASE x # start
    <3>1. PICK p \in resolved : x = Min({to, deadline(p)})
      <4> HIDE DEF resolved, start, deadline
      <4> QED BY <2>2
    <3>2. p \in first .. final
      BY <3>1
    <3>3. QED BY <1>5, <3>1, <3>2
  <2>3. QED BY <2>1, <2>2
<1>7. upTo \in reached /\ \A x \in reached : upTo >= x
  <2>1. reached # {}
    OBVIOUS
  <2> HIDE DEF reached
  <2>2. reached \in SUBSET Int /\ \A x \in reached : x <= to
    BY <1>6
  <2>3. to \in Int
    OBVIOUS
  <2>4. Max(reached) \in reached /\ \A x \in reached : Max(reached) >= x
    BY <2>1, <2>2, <2>3, MaxOfBoundedSet, Zenon
  <2>5. QED BY <2>4
<1>8. upTo \in Nat /\ start <= upTo /\ upTo <= to
  <2>1. start \in reached
    OBVIOUS
  <2>2. QED
    <3> HIDE DEF reached, start
    <3> QED BY <1>2, <1>6, <1>7, <2>1
<1>9. epochs \in SUBSET (start + 1 .. upTo)
  <2>1. ASSUME NEW p \in first .. final, p \in proven
        PROVE  EpochsOfPeriodWithin(A, p, M, start, to) \in SUBSET (start + 1 .. upTo)
    <3> DEFINE begin == Max({deadline(p) - M, start})
               end   == Min({to, deadline(p)})
    <3>1. EpochsOfPeriodWithin(A, p, M, start, to) = begin + 1 .. end
      BY DEF EpochsOfPeriodWithin
    <3>2. deadline(p) \in Nat
      BY <1>5
    <3>3. begin \in Int /\ begin >= start
      <4> HIDE DEF deadline, start
      <4> QED BY <1>2, <3>2, MaxOfTwo
    <3>4. end \in reached
      BY <2>1
    <3>5. end \in Nat /\ end <= upTo
      <4> HIDE DEF reached, upTo, start, first, final, deadline
      <4> QED BY <1>5, <1>7, <3>4
    <3>6. QED
      <4> HIDE DEF begin, end, start, upTo
      <4> QED BY <1>2, <1>8, <3>1, <3>3, <3>5
  <2>2. QED
    <3> HIDE DEF start, first, final, upTo
    <3> QED BY <2>1
<1>10. Cardinality(epochs) \in Nat /\ Cardinality(epochs) <= upTo - start
  <2> HIDE DEF start, upTo, epochs
  <2>1. IsFiniteSet(start + 1 .. upTo) /\ Cardinality(start + 1 .. upTo) = upTo - start
    <3>1. start + 1 \in Int /\ upTo \in Int
      BY <1>2, <1>8
    <3>2. IsFiniteSet(start + 1 .. upTo)
           /\ Cardinality(start + 1 .. upTo)
                = IF start + 1 > upTo THEN 0 ELSE upTo - (start + 1) + 1
      BY <3>1, FS_Interval
    <3>3. QED BY <1>2, <1>8, <3>2
  <2>2. IsFiniteSet(epochs) /\ Cardinality(epochs) <= Cardinality(start + 1 .. upTo)
    BY <1>9, <2>1, FS_Subset
  <2>3. QED BY <2>1, <2>2, FS_CardinalityType
<1>11. QED
  <2> HIDE DEF start, upTo, epochs, found
  <2>1. Cardinality(epochs) <= upTo - from
    BY <1>2, <1>8, <1>10
  <2>2. QED BY <1>2, <1>4, <1>8, <1>10, <2>1 DEF found

\* validatePayment answers with an epoch of the range, and with no more than the epochs
\* up to it are worth.
LEMMA ValidatePaymentBounds ==
  ASSUME NEW proven \in SUBSET Nat, NEW from \in Nat, NEW to \in Nat, from < to, NEW rate \in Nat,
         NEW A \in Nat, NEW M \in Nat \ {0}, NEW now \in Nat,
         ValidatePayment(proven, from, to, rate, A, M, now).ok
  PROVE  LET answer == ValidatePayment(proven, from, to, rate, A, M, now)
         IN  /\ answer.settleUpTo \in from .. to
             /\ answer.modifiedAmount \in Nat
             /\ answer.modifiedAmount <= rate * (answer.settleUpTo - from)
<1>1. CASE A = NeverActivated
  <2>1. ValidatePayment(proven, from, to, rate, A, M, now)
          = [ok |-> TRUE, modifiedAmount |-> 0, settleUpTo |-> from]
    BY <1>1 DEF ValidatePayment
  <2>2. from - from = 0 /\ rate * 0 = 0 /\ from \in from .. to
    OBVIOUS
  <2>3. QED BY <2>1, <2>2
<1>2. CASE A # NeverActivated
  <2> DEFINE found == FindProvenEpochs(proven, from, to, A, M, now)
             amount == Prorated(rate * (to - from), found.count, to - from)
  <2>1. ValidatePayment(proven, from, to, rate, A, M, now)
          = [ok |-> found.ok, modifiedAmount |-> amount, settleUpTo |-> found.settleUpTo]
    BY <1>2 DEF ValidatePayment
  <2>2. /\ found.settleUpTo \in from .. to
        /\ found.count \in Nat
        /\ found.count <= found.settleUpTo - from
    BY <1>2, <2>1, FindProvenEpochsBounds DEF NeverActivated
  <2>3. amount \in Nat /\ amount <= rate * (found.settleUpTo - from)
    <3> HIDE DEF found
    <3>1. to - from \in Nat \ {0} /\ found.settleUpTo - from \in Nat
      BY <2>2
    <3>2. QED BY <2>2, <3>1, ProratedBounded
  <2>4. QED
    <3> HIDE DEF found, amount
    <3> QED BY <2>1, <2>2, <2>3
<1>3. QED BY <1>1, <1>2
-----------------------------------------------------------------------------
(* The queue of rates.                                                     *)

\* A rail is settled up to the past, and its queued rates end later, one after the
\* other, none of them in the future.
InOrder(rail, now) ==
  LET queue == rail.rateChangeQueue
  IN  /\ rail.settledUpTo <= now
      /\ \A i \in 1 .. Len(queue) : /\ rail.settledUpTo < queue[i].untilEpoch
                                    /\ queue[i].untilEpoch <= now
      /\ \A i, j \in 1 .. Len(queue) : i < j => queue[i].untilEpoch < queue[j].untilEpoch

\* A change of rate queues the old one behind the others.
LEMMA SetRateInOrder ==
  ASSUME NEW rail \in Rail, NEW rate \in Nat, NEW now \in Nat, InOrder(rail, now)
  PROVE  InOrder(SetRate(rail, rate, now), now)
<1> DEFINE queue  == rail.rateChangeQueue
           change == [rate |-> rail.rate, untilEpoch |-> now]
           longer == Append(queue, change)
<1>1. /\ queue \in Seq(RateChange) /\ Len(queue) \in Nat
      /\ \A j \in 1 .. Len(queue) : queue[j].untilEpoch \in Nat
  BY QueueType
<1>2. rail.settledUpTo \in Nat
  BY DEF Rail
<1>3. CASE rate = rail.rate \/ rail.settledUpTo = now
             \/ (queue # << >> /\ queue[Len(queue)].untilEpoch = now)
  <2>1. SetRate(rail, rate, now) = [rail EXCEPT !.rate = rate]
    BY <1>3 DEF SetRate
  <2>2. QED BY <2>1 DEF InOrder, Rail
<1>4. CASE ~ (rate = rail.rate \/ rail.settledUpTo = now
                \/ (queue # << >> /\ queue[Len(queue)].untilEpoch = now))
  <2>1. CASE rail.rate = 0 /\ queue = << >>
    <3>1. SetRate(rail, rate, now) = [rail EXCEPT !.rate = rate, !.settledUpTo = now]
      BY <1>4, <2>1 DEF SetRate
    <3>2. QED BY <2>1, <3>1 DEF InOrder, Rail
  <2>2. CASE ~ (rail.rate = 0 /\ queue = << >>)
    <3>1. SetRate(rail, rate, now) = [rail EXCEPT !.rate = rate, !.rateChangeQueue = longer]
      BY <1>4, <2>2 DEF SetRate
    <3>2. /\ Len(longer) = Len(queue) + 1
          /\ \A i \in 1 .. Len(queue) : longer[i] = queue[i]
          /\ longer[Len(queue) + 1].untilEpoch = now
      <4>1. longer[Len(queue) + 1] = change
        BY <1>1
      <4>2. QED BY <1>1, <4>1
    <3>3. rail.settledUpTo < now
      BY <1>2, <1>4 DEF InOrder
    <3>4. ASSUME NEW i \in 1 .. Len(queue) PROVE queue[i].untilEpoch < now
      <4>1. queue[i].untilEpoch <= now /\ queue[i].untilEpoch <= queue[Len(queue)].untilEpoch
        BY <1>1 DEF InOrder
      <4>2. queue # << >> /\ Len(queue) \in 1 .. Len(queue)
        BY <1>1
      <4>3. queue[Len(queue)].untilEpoch # now /\ queue[Len(queue)].untilEpoch <= now
        BY <1>4, <4>2 DEF InOrder
      <4>4. QED BY <1>1, <4>1, <4>2, <4>3
    <3> HIDE DEF longer
    <3>5. InOrder([rail EXCEPT !.rate = rate, !.rateChangeQueue = longer], now)
      <4> DEFINE next == [rail EXCEPT !.rate = rate, !.rateChangeQueue = longer]
      <4>1. next.settledUpTo = rail.settledUpTo /\ next.rateChangeQueue = longer
        BY DEF Rail
      <4> HIDE DEF next
      <4>2. \A i \in 1 .. Len(longer) : i \in 1 .. Len(queue) \/ i = Len(queue) + 1
        BY <1>1, <3>2
      <4>3. \A i \in 1 .. Len(longer) : /\ rail.settledUpTo < longer[i].untilEpoch
                                        /\ longer[i].untilEpoch <= now
        BY <3>2, <3>3, <3>4, <4>2 DEF InOrder
      <4>4. \A i, j \in 1 .. Len(longer) :
              i < j => longer[i].untilEpoch < longer[j].untilEpoch
        <5> SUFFICES ASSUME NEW i \in 1 .. Len(longer), NEW j \in 1 .. Len(longer), i < j
                     PROVE  longer[i].untilEpoch < longer[j].untilEpoch
          OBVIOUS
        <5>1. i \in 1 .. Len(queue)
          BY <1>1, <3>2
        <5>2. CASE j \in 1 .. Len(queue)
          BY <3>2, <5>1, <5>2 DEF InOrder
        <5>3. CASE j = Len(queue) + 1
          BY <3>2, <3>4, <5>1, <5>3
        <5>4. QED BY <4>2, <5>2, <5>3
      <4>5. QED BY <3>3, <4>1, <4>3, <4>4 DEF InOrder
    <3>6. QED BY <3>1, <3>5
  <2>3. QED BY <2>1, <2>2
<1>5. QED BY <1>3, <1>4
\* What is left of a queue from its m-th rate change on.
QueueFrom(left, queue, m) ==
  /\ Len(left) = Len(queue) - m + 1
  /\ \A i \in 1 .. Len(left) : i + m - 1 \in m .. Len(queue) /\ left[i] = queue[i + m - 1]

\* Settlement removes from the queue exactly the rates it passed: they are the first ones,
\* and the next one ends later than the epoch it reached.
LEMMA SettledQueue ==
  ASSUME NEW rail \in Rail, NEW target \in Nat, NEW outcomes, NEW now \in Nat,
         CanSettle(rail, target, outcomes), InOrder(rail, now),
         Settled(rail, target, outcomes).status = "active"
  PROVE  LET upTo == outcomes[LastSegment(rail, target, outcomes)].settleUpTo
             new  == Settled(rail, target, outcomes)
         IN  /\ upTo \in Nat /\ rail.settledUpTo <= upTo
             /\ new.settledUpTo = upTo /\ new.rate = rail.rate /\ new.endEpoch = rail.endEpoch
             /\ \E m \in 1 .. Len(rail.rateChangeQueue) + 1 :
                  /\ QueueFrom(new.rateChangeQueue, rail.rateChangeQueue, m)
                  /\ SegmentStart(rail, m) <= upTo
                  /\ m <= Len(rail.rateChangeQueue) => upTo < rail.rateChangeQueue[m].untilEpoch
<1> DEFINE last   == LastSegment(rail, target, outcomes)
           upTo   == outcomes[last].settleUpTo
           queue  == rail.rateChangeQueue
           passed == {i \in 1 .. last : i <= Len(queue) /\ upTo >= queue[i].untilEpoch}
           after  == {i \in 1 .. Len(queue) + 1 : i \notin passed}
           left   == SubSeq(queue, Cardinality(passed) + 1, Len(queue))
<1>1. /\ queue \in Seq(RateChange) /\ Len(queue) \in Nat
      /\ \A j \in 1 .. Len(queue) : queue[j] \in RateChange /\ queue[j].untilEpoch \in Nat
  BY QueueType
<1>2. last \in 1 .. Len(queue) + 1
  <2>1. last \in Segments(rail, target)
    BY LastSegmentExists DEF CanSettle
  <2>2. QED BY <2>1 DEF Segments
<1>3. upTo \in Nat /\ upTo <= target
  BY SettledType
<1>4. last <= Len(queue) => upTo <= queue[last].untilEpoch
  <2>1. upTo \in SegmentStart(rail, last) .. SegmentEnd(rail, target, last)
    BY DEF CanSettle, AcceptsOutcome
  <2> HIDE DEF last
  <2>2. ASSUME last <= Len(queue)
        PROVE  SegmentEnd(rail, target, last) <= queue[last].untilEpoch
    <3> DEFINE end == queue[last].untilEpoch
    <3>1. end \in Int
      BY <1>1, <1>2, <2>2
    <3>2. SegmentEnd(rail, target, last) = Min({target, end})
      BY <2>2 DEF SegmentEnd
    <3> HIDE DEF end
    <3>3. Min({target, end}) <= end
      BY <3>1, MinOfTwo
    <3>4. QED BY <3>2, <3>3 DEF end
  <2>3. SegmentStart(rail, last) \in Nat /\ SegmentEnd(rail, target, last) \in Nat
    BY <1>2, SegmentType
  <2>4. last <= Len(queue) => queue[last].untilEpoch \in Nat
    BY <1>1, <1>2
  <2> HIDE DEF upTo
  <2>5. QED BY <1>3, <2>1, <2>2, <2>3, <2>4
<1> HIDE DEF last, upTo
<1>5. PICK m \in after : \A i \in after : m <= i
  <2>1. Len(queue) + 1 \in after /\ after \in SUBSET Nat
    BY <1>1
  <2>2. QED
    <3> HIDE DEF after
    <3>1. after # {}
      BY <2>1
    <3>2. QED BY <2>1, <3>1, MinOfNaturals
<1>6. m \in 1 .. Len(queue) + 1
  OBVIOUS
<1>7. ASSUME m <= Len(queue) PROVE upTo < queue[m].untilEpoch
  <2>1. m \notin passed
    OBVIOUS
  <2>2. CASE m <= last
    <3>1. m \in 1 .. last /\ ~(upTo >= queue[m].untilEpoch)
      BY <1>2, <1>6, <1>7, <2>1, <2>2
    <3>2. queue[m].untilEpoch \in Nat
      BY <1>1, <1>6, <1>7
    <3>3. QED BY <1>3, <3>1, <3>2
  <2>3. CASE last < m
    <3>1. last \in 1 .. Len(queue) /\ m \in 1 .. Len(queue)
      BY <1>1, <1>2, <1>6, <1>7, <2>3
    <3>2. queue[last].untilEpoch < queue[m].untilEpoch
      BY <2>3, <3>1 DEF InOrder
    <3>3. QED BY <1>1, <1>3, <1>4, <3>1, <3>2
  <2>4. QED BY <1>2, <1>6, <2>2, <2>3
<1>8. passed = 1 .. m - 1
  <2>1. ASSUME NEW i \in 1 .. m - 1 PROVE i \in passed
    <3>1. i \notin after /\ i \in 1 .. Len(queue) + 1
      BY <1>1, <1>5, <1>6
    <3>2. QED BY <3>1
  <2>2. ASSUME NEW i \in passed PROVE i \in 1 .. m - 1
    <3>1. i \in 1 .. Len(queue) /\ upTo >= queue[i].untilEpoch
      BY <1>1, <1>2
    <3>2. i # m
      OBVIOUS
    <3>3. ASSUME m < i PROVE FALSE
      <4>1. m <= Len(queue) /\ m \in 1 .. Len(queue)
        BY <1>1, <1>6, <3>1, <3>3
      <4>2. queue[m].untilEpoch < queue[i].untilEpoch
        BY <3>1, <3>3, <4>1 DEF InOrder
      <4>3. QED BY <1>1, <1>3, <1>7, <3>1, <4>1, <4>2
    <3>4. QED BY <1>1, <1>6, <3>1, <3>2, <3>3
  <2>3. QED
    <3> HIDE DEF passed
    <3> QED BY <2>1, <2>2
<1>9. Cardinality(passed) = m - 1
  <2> HIDE DEF passed
  <2>1. m - 1 \in Nat
    BY <1>1, <1>6
  <2>2. Cardinality(1 .. m - 1) = m - 1
    BY <2>1, FS_Interval
  <2>3. QED BY <1>8, <2>2
<1>10. /\ Len(left) = Len(queue) - m + 1
       /\ \A i \in 1 .. Len(left) : i + m - 1 \in m .. Len(queue) /\ left[i] = queue[i + m - 1]
  <2> HIDE DEF passed, queue, after
  <2>1. left = SubSeq(queue, m, Len(queue))
    <3>1. Cardinality(passed) + 1 = m
      BY <1>1, <1>6, <1>9
    <3>2. QED BY <3>1
  <2>2. \A i \in m .. Len(queue) : queue[i] \in RateChange
    BY <1>1, <1>6
  <2>3. /\ Len(left) = IF m <= Len(queue) THEN Len(queue) - m + 1 ELSE 0
        /\ \A i \in 1 .. Len(queue) - m + 1 : left[i] = queue[m + i - 1]
    <3> HIDE DEF left
    <3> QED BY <1>1, <1>6, <2>1, <2>2, SubSeqProperties
  <2> HIDE DEF left
  <2>4. CASE m <= Len(queue)
    <3>1. Len(left) = Len(queue) - m + 1
      BY <2>3, <2>4
    <3>2. ASSUME NEW i \in 1 .. Len(left)
          PROVE  i + m - 1 \in m .. Len(queue) /\ left[i] = queue[i + m - 1]
      <4>1. i \in 1 .. Len(queue) - m + 1 /\ m + i - 1 = i + m - 1
        BY <1>1, <1>6, <3>1
      <4>2. i + m - 1 \in m .. Len(queue)
        BY <1>1, <1>6, <4>1
      <4>3. QED BY <2>3, <4>1, <4>2
    <3>3. QED BY <1>1, <1>6, <2>4, <3>1, <3>2
  <2>5. CASE ~(m <= Len(queue))
    BY <1>1, <1>6, <2>3, <2>5
  <2>6. QED BY <2>4, <2>5
<1>11. SegmentStart(rail, m) <= upTo /\ rail.settledUpTo <= upTo
  <2>1. rail.settledUpTo <= upTo
    <3>1. upTo >= SegmentStart(rail, last)
      BY DEF CanSettle, AcceptsOutcome, last, upTo
    <3>2. SegmentStart(rail, last) \in Nat /\ SegmentStart(rail, last) >= rail.settledUpTo
      <4>1. CASE last = 1
        BY <4>1 DEF SegmentStart, Rail
      <4>2. CASE last # 1
        <5>1. last - 1 \in 1 .. Len(queue)
          BY <1>1, <1>2, <4>2
        <5>2. rail.settledUpTo < queue[last - 1].untilEpoch
          BY <5>1 DEF InOrder
        <5>3. QED BY <1>1, <4>2, <5>1, <5>2 DEF SegmentStart, Rail
      <4>3. QED BY <4>1, <4>2
    <3>3. QED BY <1>3, <3>1, <3>2 DEF Rail
  <2>2. CASE m = 1
    BY <2>1, <2>2 DEF SegmentStart
  <2>3. CASE m # 1
    <3>1. m - 1 \in passed
      <4>1. m - 1 \in 1 .. m - 1
        BY <1>1, <1>6, <2>3
      <4>2. QED BY <1>8, <4>1
    <3>2. upTo >= queue[m - 1].untilEpoch
      BY <3>1
    <3>3. m - 1 \in 1 .. Len(queue)
      BY <1>1, <1>6, <2>3
    <3>4. QED BY <1>1, <1>3, <2>1, <2>3, <3>2, <3>3 DEF SegmentStart
  <2>4. QED BY <2>1, <2>2, <2>3
<1>12. Settled(rail, target, outcomes)
         = [rail EXCEPT !.settledUpTo = upTo, !.rateChangeQueue = left]
  <2>1. FinalizedRail.status = "finalized"
    BY DEF FinalizedRail, NoRail
  <2>2. QED BY <2>1 DEF Settled, last, upTo
<1> DEFINE new == Settled(rail, target, outcomes)
<1>13. /\ new.settledUpTo = upTo /\ new.rate = rail.rate /\ new.endEpoch = rail.endEpoch
       /\ new.rateChangeQueue = left
  <2> HIDE DEF new, left
  <2> QED BY <1>12 DEF new, Rail
<1>14. QueueFrom(new.rateChangeQueue, queue, m)
  <2> HIDE DEF new, left, queue
  <2> QED BY <1>10, <1>13 DEF QueueFrom
<1> HIDE DEF new, left
<1>15. QED BY <1>3, <1>6, <1>7, <1>11, <1>13, <1>14 DEF new, upTo, last

\* So it leaves the rail in order.
LEMMA SettledInOrder ==
  ASSUME NEW rail \in Rail, NEW target \in Nat, NEW outcomes, NEW now \in Nat, target <= now,
         CanSettle(rail, target, outcomes), InOrder(rail, now),
         Settled(rail, target, outcomes).status = "active"
  PROVE  InOrder(Settled(rail, target, outcomes), now)
<1> DEFINE upTo  == outcomes[LastSegment(rail, target, outcomes)].settleUpTo
           queue == rail.rateChangeQueue
           next  == Settled(rail, target, outcomes)
           left  == next.rateChangeQueue
<1>1. /\ Len(queue) \in Nat
      /\ \A j \in 1 .. Len(queue) : queue[j] \in RateChange /\ queue[j].untilEpoch \in Nat
  BY QueueType
<1>2. upTo \in Nat /\ upTo <= target
  BY SettledType
<1>3. /\ next.settledUpTo = upTo
      /\ \E m \in 1 .. Len(queue) + 1 :
           /\ QueueFrom(left, queue, m)
           /\ m <= Len(queue) => upTo < queue[m].untilEpoch
  BY SettledQueue
<1> HIDE DEF upTo, next
<1>4. PICK m \in 1 .. Len(queue) + 1 :
        /\ QueueFrom(left, queue, m)
        /\ m <= Len(queue) => upTo < queue[m].untilEpoch
  BY <1>3
<1>5. /\ Len(left) = Len(queue) - m + 1
      /\ \A i \in 1 .. Len(left) : i + m - 1 \in m .. Len(queue) /\ left[i] = queue[i + m - 1]
  BY <1>4 DEF QueueFrom
<1> HIDE DEF left
<1>6. ASSUME NEW i \in 1 .. Len(left)
      PROVE  upTo < left[i].untilEpoch /\ left[i].untilEpoch <= now
  <2> DEFINE j == i + m - 1
  <2>1. left[i] = queue[j] /\ j \in 1 .. Len(queue) /\ m <= j /\ m <= Len(queue)
    BY <1>1, <1>4, <1>5
  <2>2. m \in 1 .. Len(queue)
    BY <1>1, <1>4, <2>1
  <2>3. upTo < queue[m].untilEpoch
    BY <1>4, <2>1
  <2> HIDE DEF j
  <2>4. queue[j].untilEpoch <= now /\ (m < j => queue[m].untilEpoch < queue[j].untilEpoch)
    BY <2>1, <2>2 DEF InOrder
  <2>5. queue[j].untilEpoch \in Nat /\ queue[m].untilEpoch \in Nat /\ (m < j \/ m = j)
    BY <1>1, <2>1, <2>2
  <2>6. upTo < queue[j].untilEpoch
    <3> HIDE DEF queue
    <3>1. CASE m = j
      BY <2>3, <3>1
    <3>2. CASE m < j
      BY <1>2, <2>3, <2>4, <2>5, <3>2
    <3>3. QED BY <2>5, <3>1, <3>2
  <2>7. QED BY <2>1, <2>4, <2>6
<1>7. ASSUME NEW i \in 1 .. Len(left), NEW k \in 1 .. Len(left), i < k
      PROVE  left[i].untilEpoch < left[k].untilEpoch
  <2>1. left[i] = queue[i + m - 1] /\ i + m - 1 \in 1 .. Len(queue)
    BY <1>1, <1>4, <1>5
  <2>2. left[k] = queue[k + m - 1] /\ k + m - 1 \in 1 .. Len(queue)
    BY <1>1, <1>4, <1>5
  <2>3. i \in Int /\ k \in Int /\ m \in Int
    BY <1>1, <1>4
  <2>4. i + m - 1 < k + m - 1
    BY <1>7, <2>3
  <2>5. QED BY <2>1, <2>2, <2>4 DEF InOrder
<1>8. upTo <= now
  BY <1>2
<1>9. InOrder(next, now)
  BY <1>3, <1>6, <1>7, <1>8 DEF InOrder, left
<1>10. QED BY <1>9 DEF next

-----------------------------------------------------------------------------
(* Every rail stays in order.                                              *)

RailsInOrder == \A r \in RailIds : rails[r].status = "active" => InOrder(rails[r], blockNumber)

OrderInv == IInv /\ RailsInOrder

\* What a step may do to a rail: leave its queue alone, or bring it into order.
SettledAndQueuedAsBefore(r) ==
  /\ rails[r].status = "active"
  /\ rails'[r].settledUpTo = rails[r].settledUpTo
  /\ rails'[r].rateChangeQueue = rails[r].rateChangeQueue

QueuesKept ==
  \A r \in RailIds : rails'[r].status = "active" =>
    SettledAndQueuedAsBefore(r) \/ InOrder(rails'[r], blockNumber)

\* Such a step keeps the order, and so does time.
LEMMA OrderKept ==
  ASSUME OrderInv, IInv', QueuesKept, blockNumber' >= blockNumber
  PROVE  OrderInv'
<1>1. blockNumber \in Nat /\ blockNumber' \in Nat
  BY BlockNumberType, Constants DEF OrderInv, IInv, TypeOK, Epochs, ConstantsAssumption
<1>2. ASSUME NEW r \in RailIds, rails'[r].status = "active"
      PROVE  InOrder(rails'[r], blockNumber')
  <2> DEFINE rail == rails'[r]
  <2>1. rail \in Rail
    BY DEF IInv, TypeOK
  <2>2. InOrder(rail, blockNumber)
    BY <1>2 DEF QueuesKept, SettledAndQueuedAsBefore, OrderInv, RailsInOrder, InOrder
  <2> HIDE DEF rail
  <2>3. /\ rail.settledUpTo \in Nat
        /\ \A j \in 1 .. Len(rail.rateChangeQueue) : rail.rateChangeQueue[j].untilEpoch \in Nat
    BY <2>1, QueueType DEF Rail
  <2>4. InOrder(rail, blockNumber')
    BY <1>1, <2>2, <2>3 DEF InOrder
  <2>5. QED BY <2>4 DEF rail
<1>3. QED BY <1>2 DEF OrderInv, RailsInOrder

\* No rail changes.
LEMMA RailsUntouched ==
  ASSUME UNCHANGED rails
  PROVE  QueuesKept
BY DEF QueuesKept, SettledAndQueuedAsBefore

\* One rail changes, to one in order.
LEMMA OneRailChanged ==
  ASSUME IInv, NEW r \in RailIds, NEW rail, rails' = [rails EXCEPT ![r] = rail],
         rail.status = "active" => InOrder(rail, blockNumber)
  PROVE  QueuesKept
<1>1. rails \in [RailIds -> Rail]
  BY DEF IInv, TypeOK
<1>2. ASSUME NEW i \in RailIds PROVE rails'[i] = IF i = r THEN rail ELSE rails[i]
  BY <1>1
<1>3. QED BY <1>2 DEF QueuesKept, SettledAndQueuedAsBefore

\* createRail.
LEMMA NewRailInOrder ==
  ASSUME NEW p, NEW now \in Nat, NEW lockup
  PROVE  InOrder(NewRail(p, now, lockup), now)
<1>1. NewRail(p, now, lockup).settledUpTo = now /\ NewRail(p, now, lockup).rateChangeQueue = << >>
  BY DEF NewRail, NoRail
<1>2. QED BY <1>1 DEF InOrder

\* terminateRail and the operations on the fixed lockup leave the queue alone.
LEMMA OtherOperationsKeepQueues ==
  ASSUME IInv,
         \A r \in RailIds :
           \/ rails'[r] = rails[r]
           \/ \E n \in Nat : \/ rails'[r] = Terminate(rails[r], n)
                             \/ rails'[r] = PayOnce(rails[r], n)
                             \/ rails'[r] = RaiseLockup(rails[r], n)
  PROVE  QueuesKept
<1>1. ASSUME NEW rail \in Rail, NEW n \in Nat
      PROVE  \A next \in {Terminate(rail, n), PayOnce(rail, n), RaiseLockup(rail, n)} :
               /\ next.status = rail.status
               /\ next.settledUpTo = rail.settledUpTo
               /\ next.rateChangeQueue = rail.rateChangeQueue
  BY DEF Rail, Terminate, PayOnce, RaiseLockup
<1>2. ASSUME NEW r \in RailIds, rails'[r].status = "active"
      PROVE  SettledAndQueuedAsBefore(r)
  <2>1. CASE rails'[r] = rails[r]
    BY <1>2, <2>1 DEF SettledAndQueuedAsBefore
  <2>2. CASE rails'[r] # rails[r]
    <3>1. PICK n \in Nat : \/ rails'[r] = Terminate(rails[r], n)
                           \/ rails'[r] = PayOnce(rails[r], n)
                           \/ rails'[r] = RaiseLockup(rails[r], n)
      BY <2>2
    <3>2. rails[r] \in Rail
      BY DEF IInv, TypeOK
    <3>3. /\ rails'[r].status = rails[r].status
          /\ rails'[r].settledUpTo = rails[r].settledUpTo
          /\ rails'[r].rateChangeQueue = rails[r].rateChangeQueue
      BY <1>1, <3>1, <3>2
    <3>4. QED BY <1>2, <3>3 DEF SettledAndQueuedAsBefore
  <2>3. QED BY <2>1, <2>2
<1>3. QED BY <1>2 DEF QueuesKept

\* dataSetCreated.
LEMMA DataSetCreatedKeepsQueues ==
  ASSUME IInv, NEW p \in Payers, NEW n \in Nonces, NEW cdn \in CdnOptions, DataSetCreated(p, n, cdn)
  PROVE  QueuesKept
<1>1. \A l \in {0, CacheMissLockup, CdnLockup} : InOrder(NewRail(p, blockNumber, l), blockNumber)
  BY NewRailInOrder, BlockNumberType
<1>2. ASSUME NEW r \in RailIds
      PROVE  \/ rails'[r] = rails[r]
             \/ \E l \in {0, CacheMissLockup, CdnLockup} : rails'[r] = NewRail(p, blockNumber, l)
  BY DEF DataSetCreated
<1>3. QED BY <1>1, <1>2 DEF QueuesKept, SettledAndQueuedAsBefore

\* updatePaymentRates.
LEMMA UpdatePaymentRatesKeepsQueues ==
  ASSUME OrderInv, NEW d \in DataSetIds, NEW pieceCount \in Nat, UpdatePaymentRates(d, pieceCount)
  PROVE  QueuesKept
<1> DEFINE r == dataSetInfo[d].pdpRailId
           rate == StorageRate(pieceCount)
<1>1. r \in RailIds
  BY DEF UpdatePaymentRates, OrderInv, IInv, TypeOK, DataSetInfo
<1>2. rails[r] \in Rail /\ rate \in Nat /\ blockNumber \in Nat
  <2>1. rails[r] \in Rail
    BY <1>1 DEF OrderInv, IInv, TypeOK
  <2>2. QED BY <2>1, StorageRateType, BlockNumberType DEF OrderInv
<1>3. InOrder(rails[r], blockNumber)
  BY <1>1 DEF UpdatePaymentRates, CanSetRate, OrderInv, RailsInOrder
<1>4. rails' = [rails EXCEPT ![r] = SetRate(rails[r], rate, blockNumber)]
  BY DEF UpdatePaymentRates
<1>5. QED
  <2> HIDE DEF r, rate
  <2> QED BY <1>1, <1>2, <1>3, <1>4, SetRateInOrder, OneRailChanged DEF OrderInv

\* processScheduledPieceMetadataRemovals.
LEMMA ScheduledRemovalsKeepQueues ==
  ASSUME OrderInv, NEW d \in DataSetIds, NEW pieceCount \in Nat,
         ProcessScheduledRemovals(d, pieceCount)
  PROVE  QueuesKept
BY UpdatePaymentRatesKeepsQueues, RailsUntouched DEF ProcessScheduledRemovals

\* terminateService and terminateCDNService.
LEMMA TerminateRunningKeepsQueues ==
  ASSUME IInv, NEW p \in Payers, NEW rs, rails' = TerminateRunning(rs, p)
  PROVE  QueuesKept
<1>1. LockupLastSettledAt(p) \in Nat
  BY LockupLastSettledAtType
<1>2. ASSUME NEW r \in RailIds
      PROVE  rails'[r] = rails[r] \/ rails'[r] = Terminate(rails[r], LockupLastSettledAt(p))
  BY DEF TerminateRunning
<1>3. QED BY <1>1, <1>2, OtherOperationsKeepQueues

\* settleFilBeamPaymentRails and topUpCDNPaymentRails.
LEMMA CdnAmountsKeepQueues ==
  ASSUME IInv, NEW d \in DataSetIds, NEW a \in CdnAmounts, NEW b \in CdnAmounts,
         SettleFilBeamPaymentRails(d, a, b) \/ TopUpCDNPaymentRails(d, a, b)
  PROVE  QueuesKept
<1>1. a \in Nat /\ b \in Nat
  BY Constants DEF ConstantsAssumption
<1>2. ASSUME NEW r \in RailIds
      PROVE  \/ rails'[r] = rails[r]
             \/ \E n \in {a, b} : rails'[r] = PayOnce(rails[r], n) \/ rails'[r] = RaiseLockup(rails[r], n)
  BY DEF SettleFilBeamPaymentRails, TopUpCDNPaymentRails
<1>3. QED BY <1>1, <1>2, OtherOperationsKeepQueues

\* settleRail.
LEMMA SettleRailKeepsQueues ==
  ASSUME OrderInv, NEW r \in RailIds, NEW untilEpoch \in Nat, SettleRail(r, untilEpoch)
  PROVE  QueuesKept
<1>1. rails[r] \in Rail /\ rails[r].payer \in Payers /\ InOrder(rails[r], blockNumber)
  BY DEF SettleRail, OrderInv, RailsInOrder, IInv, TypeOK, PayersKnown
<1>2. /\ TargetOf(r, untilEpoch) \in Nat
      /\ TargetOf(r, untilEpoch) <= untilEpoch
      /\ untilEpoch <= blockNumber
      /\ blockNumber \in Nat
  BY <1>1, LockupLastSettledAtType, SettlementTargetType, BlockNumberType
     DEF TargetOf, OrderInv, SettleRail
<1>3. PICK target \in {TargetOf(r, untilEpoch)}, outcomes \in {Outcomes(r, TargetOf(r, untilEpoch))} :
        /\ CanSettle(rails[r], target, outcomes)
        /\ rails' = [rails EXCEPT ![r] = Settled(rails[r], target, outcomes)]
  BY DEF SettleRail
<1>4. target \in Nat /\ target <= blockNumber
  BY <1>2, <1>3
<1>5. QED BY <1>1, <1>2, <1>3, <1>4, SettledInOrder, OneRailChanged DEF OrderInv

\* A payer's own terminateRail.
LEMMA PayerTerminatesRailKeepsQueues ==
  ASSUME IInv, NEW r \in RailIds, PayerTerminatesRail(r)
  PROVE  QueuesKept
<1>1. blockNumber \in Nat
  BY BlockNumberType
<1>2. ASSUME NEW i \in RailIds
      PROVE  rails'[i] = rails[i] \/ rails'[i] = Terminate(rails[i], blockNumber)
  BY DEF PayerTerminatesRail, IInv, TypeOK
<1>3. QED BY <1>1, <1>2, OtherOperationsKeepQueues

\* settleTerminatedRailWithoutValidation.
LEMMA UnvalidatedSettlementKeepsQueues ==
  ASSUME IInv, NEW d \in DataSetIds, SettleTerminatedRailWithoutValidation(d)
  PROVE  QueuesKept
<1>1. dataSetInfo[d].pdpRailId \in RailIds
  BY DEF SettleTerminatedRailWithoutValidation, IInv, TypeOK, DataSetInfo
<1>2. FinalizedRail.status # "active"
  BY DEF FinalizedRail, NoRail
<1>3. rails' = [rails EXCEPT ![dataSetInfo[d].pdpRailId] = FinalizedRail]
  BY DEF SettleTerminatedRailWithoutValidation
<1>4. QED BY <1>1, <1>2, <1>3, OneRailChanged
-----------------------------------------------------------------------------

\* Time never runs backwards.
LEMMA NextTime ==
  ASSUME IInv, [Next]_vars
  PROVE  blockNumber' >= blockNumber
<1>1. blockNumber \in Nat
  BY BlockNumberType
<1>2. CASE PDPVerifierStep
  <2>1. \A p \in Payers, n \in Nonces, cdn \in CdnOptions :
          DataSetCreated(p, n, cdn) => UNCHANGED blockNumber
    BY DEF DataSetCreated
  <2>2. \A d \in DataSetIds : DataSetDeleted(d) => UNCHANGED blockNumber
    BY DEF DataSetDeleted
  <2>3. \A d \in DataSetIds, count \in 1 .. MaxPieces, n \in Nonces :
          PiecesAdded(d, count, n) => UNCHANGED blockNumber
    BY DEF PiecesAdded
  <2>4. \A d \in DataSetIds : \A s : PiecesScheduledRemove(d, s) => UNCHANGED blockNumber
    BY DEF PiecesScheduledRemove
  <2>5. \A d \in DataSetIds : PossessionProven(d) => UNCHANGED blockNumber
    BY DEF PossessionProven
  <2>6. \A d \in DataSetIds : NextProvingPeriod(d) => UNCHANGED blockNumber
    BY DEF NextProvingPeriod, StartProving, AdvanceProvingPeriod
  <2>7. UNCHANGED blockNumber
    BY <1>2, <2>1, <2>2, <2>3, <2>4, <2>5, <2>6 DEF PDPVerifierStep
  <2>8. QED BY <1>1, <2>7
<1>3. CASE ServiceStep
  <2>1. \A d \in DataSetIds : TerminateService(d) \/ TerminateCDNService(d) => UNCHANGED blockNumber
    BY DEF TerminateService, TerminateCDNService
  <2>2. \A d \in DataSetIds, a, b \in CdnAmounts :
          SettleFilBeamPaymentRails(d, a, b) \/ TopUpCDNPaymentRails(d, a, b)
            => UNCHANGED blockNumber
    BY DEF SettleFilBeamPaymentRails, TopUpCDNPaymentRails
  <2>3. \A price, rate : UpdatePricing(price, rate) => UNCHANGED blockNumber
    BY DEF UpdatePricing
  <2>4. \A config : ConfigureProvingPeriod(config) => UNCHANGED blockNumber
    BY DEF ConfigureProvingPeriod
  <2>5. UNCHANGED blockNumber
    BY <1>3, <2>1, <2>2, <2>3, <2>4 DEF ServiceStep
  <2>6. QED BY <1>1, <2>5
<1>4. CASE FilecoinPayStep
  <2>1. \A r \in RailIds, e \in Epochs : SettleRail(r, e) => UNCHANGED blockNumber
    BY DEF SettleRail
  <2>2. \A r \in RailIds : PayerTerminatesRail(r) => UNCHANGED blockNumber
    BY DEF PayerTerminatesRail
  <2>3. \A d \in DataSetIds : SettleTerminatedRailWithoutValidation(d) => UNCHANGED blockNumber
    BY DEF SettleTerminatedRailWithoutValidation
  <2>4. \A p \in DryPayers : RunDry(p) \/ Deposit(p) => UNCHANGED blockNumber
    BY DEF RunDry, Deposit
  <2>5. UNCHANGED blockNumber
    BY <1>4, <2>1, <2>2, <2>3, <2>4 DEF FilecoinPayStep
  <2>6. QED BY <1>1, <2>5
<1>5. CASE NewEpoch
  BY <1>1, <1>5 DEF NewEpoch
<1>6. CASE UNCHANGED vars
  BY <1>1, <1>6 DEF vars
<1>7. QED BY <1>2, <1>3, <1>4, <1>5, <1>6 DEF Next

\* Nothing is settled or queued before the contract is initialized.
LEMMA InitOrder == Init => OrderInv
<1> SUFFICES ASSUME Init PROVE OrderInv
  OBVIOUS
<1>1. \A r \in RailIds : rails[r].status = "none"
  BY DEF Init, NoRail
<1>2. QED BY <1>1, InitIInv DEF OrderInv, RailsInOrder

\* The order of the queues is inductive.
LEMMA NextOrder ==
  ASSUME OrderInv, [Next]_vars
  PROVE  OrderInv'
<1>1. IInv' /\ IInv
  BY NextIInv DEF OrderInv
<1>2. QueuesKept
  <2>1. CASE PDPVerifierStep
    <3>1. ASSUME NEW p \in Payers, NEW n \in Nonces, NEW cdn \in CdnOptions,
                 DataSetCreated(p, n, cdn)
          PROVE  QueuesKept
      BY <1>1, <3>1, DataSetCreatedKeepsQueues
    <3>2. ASSUME NEW d \in DataSetIds, NEW s \in SUBSET RemovablePieces,
                 \/ DataSetDeleted(d)
                 \/ PiecesScheduledRemove(d, s)
                 \/ PossessionProven(d)
          PROVE  QueuesKept
      BY <3>2, RailsUntouched DEF DataSetDeleted, PiecesScheduledRemove, PossessionProven, external
    <3>3. ASSUME NEW d \in DataSetIds, NEW count \in 1 .. MaxPieces, NEW n \in Nonces,
                 PiecesAdded(d, count, n)
          PROVE  QueuesKept
      <4> DEFINE pieces == pdp[d].pieces \cup (pdp[d].nextPieceId .. pdp[d].nextPieceId + count - 1)
      <4>1. Cardinality(pieces) \in Nat
        <5>1. pieces \in SUBSET PieceIds
          BY <1>1, <3>3 DEF PiecesAdded, IInv, TypeOK, VerifierDataSet
        <5>2. QED BY <5>1, PieceCountType
      <4>2. UpdatePaymentRates(d, Cardinality(pieces))
        BY <3>3 DEF PiecesAdded
      <4>3. QED BY <4>1, <4>2, UpdatePaymentRatesKeepsQueues
    <3>4. ASSUME NEW d \in DataSetIds, NextProvingPeriod(d)
          PROVE  QueuesKept
      <4>1. ProcessScheduledRemovals(d, Cardinality(PiecesAfterRemovals(d)))
        BY <3>4 DEF NextProvingPeriod, StartProving, AdvanceProvingPeriod
      <4>2. PiecesAfterRemovals(d) \in SUBSET PieceIds
        BY <1>1 DEF PiecesAfterRemovals, IInv, TypeOK, VerifierDataSet
      <4>3. Cardinality(PiecesAfterRemovals(d)) \in Nat
        BY <4>2, PieceCountType
      <4>4. QED BY <4>1, <4>3, ScheduledRemovalsKeepQueues
    <3>5. {} \in SUBSET RemovablePieces
      OBVIOUS
    <3>6. QED BY <2>1, <3>1, <3>2, <3>3, <3>4, <3>5 DEF PDPVerifierStep
  <2>2. CASE ServiceStep
    <3>1. ASSUME NEW d \in DataSetIds, TerminateService(d)
          PROVE  QueuesKept
      <4>1. dataSetInfo[d].payer \in Payers
        BY <1>1, <3>1 DEF TerminateService, MayTerminateService, IInv, PayersKnown
      <4>2. QED BY <1>1, <3>1, <4>1, TerminateRunningKeepsQueues DEF TerminateService
    <3>2. ASSUME NEW d \in DataSetIds, TerminateCDNService(d)
          PROVE  QueuesKept
      <4>1. dataSetInfo[d].payer \in Payers
        BY <1>1, <3>2 DEF TerminateCDNService, IInv, PayersKnown
      <4>2. QED BY <1>1, <3>2, <4>1, TerminateRunningKeepsQueues DEF TerminateCDNService
    <3>3. ASSUME NEW d \in DataSetIds, NEW a \in CdnAmounts, NEW b \in CdnAmounts,
                 SettleFilBeamPaymentRails(d, a, b) \/ TopUpCDNPaymentRails(d, a, b)
          PROVE  QueuesKept
      BY <1>1, <3>3, CdnAmountsKeepQueues
    <3>4. ASSUME NEW price \in StoragePrices, NEW rate \in MinimumRates,
                 UpdatePricing(price, rate)
          PROVE  QueuesKept
      BY <3>4, RailsUntouched DEF UpdatePricing, external
    <3>5. ASSUME NEW config \in ProvingConfigs, ConfigureProvingPeriod(config)
          PROVE  QueuesKept
      BY <3>5, RailsUntouched DEF ConfigureProvingPeriod, external
    <3>6. QED BY <2>2, <3>1, <3>2, <3>3, <3>4, <3>5 DEF ServiceStep
  <2>3. CASE FilecoinPayStep
    <3>1. ASSUME NEW r \in RailIds, NEW e \in Epochs, SettleRail(r, e)
          PROVE  QueuesKept
      <4>1. e \in Nat
        BY Constants DEF Epochs, ConstantsAssumption
      <4>2. QED BY <3>1, <4>1, SettleRailKeepsQueues
    <3>2. ASSUME NEW r \in RailIds, PayerTerminatesRail(r)
          PROVE  QueuesKept
      BY <1>1, <3>2, PayerTerminatesRailKeepsQueues
    <3>3. ASSUME NEW d \in DataSetIds, SettleTerminatedRailWithoutValidation(d)
          PROVE  QueuesKept
      BY <1>1, <3>3, UnvalidatedSettlementKeepsQueues
    <3>4. ASSUME NEW p \in DryPayers, RunDry(p) \/ Deposit(p)
          PROVE  QueuesKept
      BY <3>4, RailsUntouched DEF RunDry, Deposit
    <3>5. QED BY <2>3, <3>1, <3>2, <3>3, <3>4 DEF FilecoinPayStep
  <2>4. CASE NewEpoch
    BY <2>4, RailsUntouched DEF NewEpoch, external
  <2>5. CASE UNCHANGED vars
    BY <2>5, RailsUntouched DEF vars, external
  <2>6. QED BY <2>1, <2>2, <2>3, <2>4, <2>5 DEF Next
<1>3. QED BY <1>1, <1>2, OrderKept, NextTime

-----------------------------------------------------------------------------
(* What FilecoinPay may ask, and what it is told.                          *)

\* A segment is not empty.
LEMMA SegmentNotEmpty ==
  ASSUME NEW rail \in Rail, NEW now \in Nat, NEW target \in Nat, InOrder(rail, now),
         NEW i \in Segments(rail, target)
  PROVE  SegmentStart(rail, i) < SegmentEnd(rail, target, i)
<1> DEFINE queue == rail.rateChangeQueue
<1>1. /\ Len(queue) \in Nat
      /\ \A j \in 1 .. Len(queue) : queue[j].untilEpoch \in Nat
  BY QueueType
<1>2. i \in 1 .. Len(queue) + 1 /\ SegmentStart(rail, i) < target
  BY DEF Segments
<1>3. CASE i <= Len(queue)
  <2> DEFINE end == queue[i].untilEpoch
  <2>1. end \in Int
    BY <1>1, <1>2, <1>3
  <2>2. SegmentStart(rail, i) < end
    <3>1. CASE i = 1
      BY <1>1, <1>3, <3>1 DEF SegmentStart, InOrder
    <3>2. CASE i # 1
      BY <1>1, <1>2, <1>3, <3>2 DEF SegmentStart, InOrder
    <3>3. QED BY <3>1, <3>2
  <2>3. SegmentEnd(rail, target, i) = Min({target, end})
    BY <1>3 DEF SegmentEnd
  <2> HIDE DEF end
  <2>4. Min({target, end}) = IF target <= end THEN target ELSE end
    BY <2>1, MinOfTwo
  <2>5. QED BY <1>2, <2>2, <2>3, <2>4
<1>4. CASE ~(i <= Len(queue))
  BY <1>2, <1>4 DEF SegmentEnd
<1>5. QED BY <1>3, <1>4

\* FilecoinPay accepts the answer to each segment that is not refused.
LEMMA AnswersAccepted ==
  ASSUME OrderInv, NEW r \in RailIds, rails[r].status = "active", NEW e \in Nat,
         NEW i \in Segments(rails[r], TargetOf(r, e)),
         Outcomes(r, TargetOf(r, e))[i].ok
  PROVE  AcceptsOutcome(rails[r], TargetOf(r, e), i, Outcomes(r, TargetOf(r, e))[i])
<1> DEFINE rail   == rails[r]
           target == TargetOf(r, e)
           answer == Outcomes(r, target)[i]
           start  == SegmentStart(rail, i)
           end    == SegmentEnd(rail, target, i)
           rate   == SegmentRate(rail, i)
           d      == railToDataSet[r]
<1>1. rail \in Rail /\ rail.payer \in Payers /\ InOrder(rail, blockNumber) /\ blockNumber \in Nat
  BY BlockNumberType DEF OrderInv, RailsInOrder, IInv, TypeOK, PayersKnown
<1>2. target \in Nat
  BY <1>1, LockupLastSettledAtType, SettlementTargetType DEF TargetOf, OrderInv
<1>3. start \in Nat /\ end \in Nat /\ start < end /\ rate \in Nat
  <2> HIDE DEF target, rail
  <2>1. i \in 1 .. Len(rail.rateChangeQueue) + 1 /\ i \in Segments(rail, target)
    BY DEF Segments, target, rail
  <2>2. QED BY <1>1, <1>2, <2>1, SegmentNotEmpty, SegmentType
<1>4. /\ answer.settleUpTo \in start .. end
      /\ answer.modifiedAmount <= rate * (answer.settleUpTo - start)
  <2>1. CASE rate = 0
    <3>1. answer = UnvalidatedOutcome(rail, target, i)
      BY <2>1 DEF Outcomes
    <3>2. answer.settleUpTo = end /\ answer.modifiedAmount = rate * (end - start)
      BY <3>1 DEF UnvalidatedOutcome
    <3>3. rate * (end - start) <= rate * (end - start)
      <4> HIDE DEF start, end
      <4> QED BY <1>3, <2>1
    <3>4. QED
      <4> HIDE DEF answer, rate, start, end
      <4> QED BY <1>3, <3>2, <3>3
  <2>2. CASE rate # 0
    <3> DEFINE A == provingActivationEpoch[d]
               M == proving.maxProvingPeriod
               proven == provenPeriods[d]
    <3>1. d # NoDataSet
      BY <2>2 DEF Outcomes
    <3>2. answer = ValidatePayment(proven, start, end, rate, A, M, blockNumber)
      BY <2>2, <3>1 DEF Outcomes
    <3>3. A \in Nat /\ M \in Nat \ {0} /\ proven \in SUBSET Nat
      <4>1. d \in DataSetIds
        BY <3>1 DEF OrderInv, IInv, TypeOK
      <4>2. QED BY <4>1 DEF OrderInv, IInv, TypeOK
    <3>4. answer.ok
      OBVIOUS
    <3>5. QED
      <4> HIDE DEF answer, rate, start, end, A, M, proven
      <4> QED BY <1>1, <1>3, <3>2, <3>3, <3>4, ValidatePaymentBounds
  <2>3. QED BY <2>1, <2>2
<1>5. QED BY <1>4 DEF AcceptsOutcome

\* FilecoinPay reverts a settlement whose validator answers outside the segment or
\* pays more than the epochs it settles are worth.  Whatever range it asks about, and
\* whatever the owner configured, FilecoinWarmStorageService answers within
\* those bounds or refuses the range.
THEOREM ArbitrationStaysWithinBounds == Spec => []ArbitrationWithinBounds
<1>1. Init => OrderInv
  BY InitOrder
<1>2. OrderInv /\ [Next]_vars => OrderInv'
  BY NextOrder
<1>3. OrderInv => ArbitrationWithinBounds
  <2>1. \A e \in Epochs : e \in Nat
    BY Constants DEF Epochs, ConstantsAssumption
  <2>2. QED BY <2>1, AnswersAccepted DEF ArbitrationWithinBounds
<1>4. QED BY <1>1, <1>2, <1>3, PTL DEF Spec

-----------------------------------------------------------------------------
(***************************************************************************)
(* Part 3.  For any number of data sets, clients, pieces and epochs the    *)
(* records of the service, of PDPVerifier and of FilecoinPay stay in step. *)
(***************************************************************************)

-----------------------------------------------------------------------------
(* The inductive invariant.  The properties of data sets and of rails are  *)
(* one induction: a rail keeps its data set only because no data set is    *)
(* deleted before its rail is settled, which rests on who pays the rail,   *)
(* on when it ends and on how far it can be settled before.                *)

\* Ids that were not assigned yet name nothing.
FreshIds ==
  /\ \A d \in DataSetIds : d >= nextIds.dataSet => pdp[d].status = "none"
  /\ \A r \in RailIds : r >= nextIds.rail =>
       rails[r].status = "none" /\ railToDataSet[r] = NoDataSet

\* A data set is registered while PDPVerifier keeps it, with a rail that leads back
\* to it and agrees on the payer and on the end.
DataSetsHaveRails ==
  \A d \in DataSetIds :
    LET r == dataSetInfo[d].pdpRailId
    IN  IF Live(d)
        THEN /\ r \in RailIds /\ r < nextIds.rail
             /\ Payer(d) \in Payers
             /\ railToDataSet[r] = d
             /\ rails[r].status = "active" =>
                  rails[r].payer = Payer(d) /\ rails[r].endEpoch = dataSetInfo[d].pdpEndEpoch
        ELSE dataSetInfo[d] = NoInfo

\* A rail with a data set is that data set's PDP rail, and no other rail pays a rate.
RailsHaveDataSets ==
  \A r \in RailIds :
    /\ railToDataSet[r] # NoDataSet =>
         Live(railToDataSet[r]) /\ dataSetInfo[railToDataSet[r]].pdpRailId = r
    /\ rails[r].status = "active" /\ rails[r].rate > 0 => railToDataSet[r] # NoDataSet

\* CDN rails come in pairs and have no validator.
CdnRailsApart ==
  \A d \in DataSetIds :
    /\ dataSetInfo[d].cdnRailId = NoRailId <=> dataSetInfo[d].cacheMissRailId = NoRailId
    /\ \A r \in CdnRails(d) \ {NoRailId} :
         /\ r \in RailIds /\ r < nextIds.rail
         /\ railToDataSet[r] = NoDataSet
         /\ rails[r].status = "active" => rails[r].payer = Payer(d)

\* CDN rails run only while the key is there.
KeysHoldCdnRails ==
  \A d \in DataSetIds : \A r \in CdnRails(d) \ {NoRailId} : ~withCDN[d] => ~IsRunning(rails[r])

\* No rail is settled beyond what its payer's lockup covers, and a terminated one is
\* finalized as soon as it is settled to its end.
OnTime(rail) ==
  rail.status = "active" =>
    IF rail.endEpoch = NotEnded
    THEN rail.settledUpTo <= LockupLastSettledAt(rail.payer)
    ELSE rail.settledUpTo < rail.endEpoch

SettledOnTime == \A r \in RailIds : OnTime(rails[r])

\* Funds run out at an epoch that has come.
DryInThePast == \A p \in Payers : dryAt[p] <= blockNumber

\* The metadata is that of the pieces PDPVerifier holds.
PiecesHaveMetadata ==
  \A d \in DataSetIds : pdp[d].status # "deleted" =>
    /\ pieceMetadata[d] = pdp[d].pieces
    /\ scheduledPieceMetadataRemovals[d] = pdp[d].removals

\* A client's list names its data sets, each once.
ListsNameDataSets ==
  \A p \in Payers :
    /\ IsInjective(clientDataSets[p])
    /\ Range(clientDataSets[p]) = {d \in DataSetIds : Payer(d) = p}

\* Which rails and data sets belong together.
LinkInv == FreshIds /\ DataSetsHaveRails /\ RailsHaveDataSets /\ CdnRailsApart

\* How far the rails are settled.
TimeInv == SettledOnTime /\ DryInThePast

DataSetInv ==
  /\ LinkInv
  /\ KeysHoldCdnRails
  /\ TimeInv
  /\ PiecesHaveMetadata
  /\ ListsNameDataSets

-----------------------------------------------------------------------------
(* What FilecoinPay's operations leave alone on a rail.                    *)

\* modifyRailPayment: at most the start of the unsettled epochs moves, and only with
\* the rate.
LEMMA SetRateEffect ==
  ASSUME NEW rail \in Rail, NEW rate \in Nat, NEW now \in Nat
  PROVE  LET new == SetRate(rail, rate, now)
         IN  /\ new.endEpoch = rail.endEpoch
             /\ new.rate = rate
             /\ \/ new.settledUpTo = rail.settledUpTo
                \/ rate # rail.rate /\ new.settledUpTo = now
<1> DEFINE new == SetRate(rail, rate, now)
<1>1. \/ new = [rail EXCEPT !.rate = rate]
      \/ rate # rail.rate /\ new = [rail EXCEPT !.rate = rate, !.settledUpTo = now]
      \/ \E queue : new = [rail EXCEPT !.rate = rate, !.rateChangeQueue = queue]
  BY Zenon DEF SetRate
<1> HIDE DEF new
<1>2. QED BY <1>1 DEF new, Rail

\* terminateRail.
LEMMA TerminateEffect ==
  ASSUME NEW rail \in Rail, NEW settledAt \in Nat
  PROVE  LET new == Terminate(rail, settledAt)
         IN  /\ new.endEpoch = settledAt + LockupPeriod
             /\ new.endEpoch # NotEnded
             /\ new.rate = rail.rate
             /\ new.settledUpTo = rail.settledUpTo
BY LockupPeriodAssumption DEF Terminate, Rail, NotEnded

\* A one-time payment and an addition to the fixed lockup.
LEMMA LockupEffect ==
  ASSUME NEW rail \in Rail, NEW amount \in Nat
  PROVE  \A new \in {PayOnce(rail, amount), RaiseLockup(rail, amount)} :
           /\ new.endEpoch = rail.endEpoch
           /\ new.rate = rail.rate
           /\ new.settledUpTo = rail.settledUpTo
           /\ new.payer = rail.payer
           /\ new.status = rail.status
BY DEF PayOnce, RaiseLockup, Rail

\* settleRail: a rail that is still there was not settled to its end, and none is
\* settled beyond its payer's lockup.
LEMMA SettledEffect ==
  ASSUME NEW rail \in Rail, NEW untilEpoch \in Nat, NEW settledAt \in Nat, NEW outcomes,
         NEW target, target = SettlementTarget(rail, untilEpoch, settledAt),
         CanSettle(rail, target, outcomes),
         Settled(rail, target, outcomes).status = "active"
  PROVE  LET new == Settled(rail, target, outcomes)
         IN  /\ new.endEpoch = rail.endEpoch
             /\ new.rate = rail.rate
             /\ IF rail.endEpoch = NotEnded
                THEN new.settledUpTo <= settledAt
                ELSE new.settledUpTo < rail.endEpoch
<1> DEFINE new  == Settled(rail, target, outcomes)
           upTo == outcomes[LastSegment(rail, target, outcomes)].settleUpTo
<1>1. target \in Nat /\ rail.endEpoch \in Nat
  BY SettlementTargetType DEF Rail
<1>2. upTo \in Nat /\ upTo <= target
  BY <1>1, SettledType
<1>3. ~(rail.endEpoch # NotEnded /\ upTo >= rail.endEpoch)
  BY DEF Settled, FinalizedRail, NoRail
<1>4. PICK left : new = [rail EXCEPT !.settledUpTo = upTo, !.rateChangeQueue = left]
  BY <1>3 DEF Settled
<1>5. new.endEpoch = rail.endEpoch /\ new.rate = rail.rate /\ new.settledUpTo = upTo
  <2> HIDE DEF new, upTo
  <2> QED BY <1>4 DEF Rail
<1>6. rail.endEpoch = NotEnded => target <= settledAt
  BY MinOfTwo DEF SettlementTarget
<1> HIDE DEF upTo
<1>7. QED BY <1>1, <1>2, <1>3, <1>5, <1>6

-----------------------------------------------------------------------------
(* Steps that assign no id and neither register nor delete a data set.     *)

DataSetsKept ==
  /\ UNCHANGED <<dataSetInfo, railToDataSet, nextIds>>
  /\ \A d \in DataSetIds : pdp'[d].status = pdp[d].status

\* What such a step may do to a rail: nothing revives it, hands it to another payer or
\* prolongs it, only a rail with a validator gets a rate, and only one without
\* ends behind the service's back.
RailKept(r) ==
  /\ rails[r].status = "none" => rails'[r].status = "none"
  /\ rails'[r].status = "active" =>
       /\ rails[r].status = "active"
       /\ rails'[r].payer = rails[r].payer
       /\ rails'[r].rate > 0 => rails[r].rate > 0 \/ railToDataSet[r] # NoDataSet
       /\ \/ rails'[r].endEpoch = rails[r].endEpoch
          \/ railToDataSet[r] = NoDataSet /\ rails'[r].endEpoch # NotEnded

RailsKept == \A r \in RailIds : RailKept(r)

\* Rails and data sets stay together.
LEMMA KeptLink ==
  ASSUME IInv, LinkInv, DataSetsKept, RailsKept
  PROVE  LinkInv'
<1>1. \A d \in DataSetIds : Live(d)' = Live(d) /\ Payer(d)' = Payer(d) /\ CdnRails(d)' = CdnRails(d)
  BY DEF DataSetsKept, Live, Payer, CdnRails
<1>2. FreshIds'
  BY DEF LinkInv, FreshIds, DataSetsKept, RailsKept, RailKept
<1>3. DataSetsHaveRails'
  <2> SUFFICES ASSUME NEW d \in DataSetIds
               PROVE  LET r == dataSetInfo[d].pdpRailId
                      IN  IF Live(d)
                          THEN /\ r \in RailIds /\ r < nextIds.rail
                               /\ Payer(d) \in Payers
                               /\ railToDataSet[r] = d
                               /\ rails'[r].status = "active" =>
                                    /\ rails'[r].payer = Payer(d)
                                    /\ rails'[r].endEpoch = dataSetInfo[d].pdpEndEpoch
                          ELSE dataSetInfo[d] = NoInfo
    BY <1>1 DEF DataSetsHaveRails, DataSetsKept
  <2>1. d # NoDataSet
    BY Constants DEF DataSetIds, NoDataSet, ConstantsAssumption
  <2>2. QED BY <2>1 DEF LinkInv, DataSetsHaveRails, RailsKept, RailKept
<1>4. RailsHaveDataSets'
  <2>1. \A r \in RailIds : railToDataSet[r] # NoDataSet =>
          Live(railToDataSet[r])' /\ dataSetInfo[railToDataSet[r]].pdpRailId = r
    BY <1>1 DEF LinkInv, RailsHaveDataSets, DataSetsKept, IInv, TypeOK
  <2>2. QED BY <2>1 DEF LinkInv, RailsHaveDataSets, DataSetsKept, RailsKept, RailKept
<1>5. CdnRailsApart'
  BY <1>1 DEF LinkInv, CdnRailsApart, DataSetsKept, RailsKept, RailKept
<1>6. QED BY <1>2, <1>3, <1>4, <1>5 DEF LinkInv

\* No CDN rail starts again.
LEMMA KeptKeys ==
  ASSUME LinkInv, KeysHoldCdnRails, DataSetsKept, RailsKept, UNCHANGED withCDN
  PROVE  KeysHoldCdnRails'
<1> SUFFICES ASSUME NEW d \in DataSetIds, NEW r \in CdnRails(d) \ {NoRailId}, ~withCDN[d]
             PROVE  ~IsRunning(rails'[r])
  <2>1. \A d \in DataSetIds : CdnRails(d)' = CdnRails(d)
    BY DEF DataSetsKept, CdnRails
  <2>2. QED BY <2>1 DEF KeysHoldCdnRails, IsRunning
<1>1. r \in RailIds /\ ~IsRunning(rails[r])
  BY DEF LinkInv, CdnRailsApart, KeysHoldCdnRails
<1>2. QED BY <1>1 DEF RailsKept, RailKept, IsRunning, NotEnded

\* Rails that are settled no further stay settled on time while their payers'
\* lockups are settled further.
LEMMA KeptTime ==
  ASSUME IInv, SettledOnTime,
         \A p \in Payers : LockupLastSettledAt(p) <= LockupLastSettledAt(p)',
         \A p \in Payers : LockupLastSettledAt(p)' \in Nat,
         NEW r \in RailIds,
         rails'[r].status = "active" =>
           /\ rails[r].status = "active"
           /\ rails'[r].payer = rails[r].payer
           /\ rails'[r].endEpoch = rails[r].endEpoch
           /\ rails'[r].settledUpTo = rails[r].settledUpTo
  PROVE  OnTime(rails[r])'
<1> SUFFICES ASSUME rails'[r].status = "active" PROVE OnTime(rails[r])'
  BY DEF OnTime
<1> DEFINE p == rails[r].payer
<1>1. p \in Payers /\ rails[r].settledUpTo \in Nat
  BY DEF IInv, TypeOK, PayersKnown, Rail
<1>2. LockupLastSettledAt(p) \in Nat
  BY <1>1, LockupLastSettledAtType
<1>3. rails[r].endEpoch = NotEnded => rails[r].settledUpTo <= LockupLastSettledAt(p)
  BY DEF SettledOnTime, OnTime
<1>4. rails[r].endEpoch # NotEnded => rails[r].settledUpTo < rails[r].endEpoch
  BY DEF SettledOnTime, OnTime
<1>5. rails'[r].payer = p
  OBVIOUS
<1>6. \A q \in Payers : q = p => LockupLastSettledAt(p) <= LockupLastSettledAt(q)'
  OBVIOUS
<1>7. \A q \in Payers : q = p =>
        (rails[r].endEpoch = NotEnded => rails[r].settledUpTo <= LockupLastSettledAt(q)')
  <2> HIDE DEF p
  <2> QED BY <1>1, <1>2, <1>3, <1>6
<1>8. LockupLastSettledAt(rails[r].payer)' = IF dryAt'[rails'[r].payer] = Solvency
                                            THEN blockNumber' ELSE dryAt'[rails'[r].payer]
  BY DEF LockupLastSettledAt
<1>9. QED BY <1>1, <1>4, <1>5, <1>7, <1>8 DEF OnTime, LockupLastSettledAt

\* Time and funds as they are, the lockups stay settled as they are.
LEMMA KeptLockups ==
  ASSUME IInv, UNCHANGED <<blockNumber, dryAt>>
  PROVE  \A p \in Payers : /\ LockupLastSettledAt(p)' = LockupLastSettledAt(p)
                           /\ LockupLastSettledAt(p)' \in Nat
                           /\ LockupLastSettledAt(p) <= LockupLastSettledAt(p)'
<1>1. \A p \in Payers : LockupLastSettledAt(p)' = LockupLastSettledAt(p)
  BY DEF LockupLastSettledAt
<1>2. QED BY <1>1, LockupLastSettledAtType

\* The pieces and their metadata.
LEMMA KeptPieces ==
  ASSUME PiecesHaveMetadata, UNCHANGED <<pdp, pieceMetadata, scheduledPieceMetadataRemovals>>
  PROVE  PiecesHaveMetadata'
BY DEF PiecesHaveMetadata

\* The clients' lists.
LEMMA KeptLists ==
  ASSUME ListsNameDataSets, UNCHANGED clientDataSets,
         \A d \in DataSetIds : Payer(d)' = Payer(d)
  PROVE  ListsNameDataSets'
BY DEF ListsNameDataSets

\* A step that changes nothing but rails, and those only as far as they may change.
LEMMA KeptDataSets ==
  ASSUME IInv, DataSetInv, RailsKept, TimeInv',
         UNCHANGED <<registers, metadata, pdp, nextIds>>
  PROVE  DataSetInv'
<1>1. DataSetsKept
  BY DEF DataSetsKept, registers
<1>2. LinkInv'
  BY <1>1, KeptLink DEF DataSetInv
<1>3. KeysHoldCdnRails'
  BY <1>1, KeptKeys DEF DataSetInv, metadata
<1>4. PiecesHaveMetadata'
  BY KeptPieces DEF DataSetInv, metadata
<1>5. ListsNameDataSets'
  BY KeptLists DEF DataSetInv, registers, Payer
<1>6. QED BY <1>2, <1>3, <1>4, <1>5 DEF DataSetInv

-----------------------------------------------------------------------------
(* Rates, lockups and settlements.                                         *)

\* Nothing happens to the rails.
LEMMA UnchangedRailsKept ==
  ASSUME IInv, UNCHANGED rails
  PROVE  RailsKept
BY DEF RailsKept, RailKept

\* Nothing happens to the rails, to funds or to time.
LEMMA UnchangedRailsOnTime ==
  ASSUME IInv, TimeInv, UNCHANGED <<rails, blockNumber, dryAt>>
  PROVE  TimeInv'
<1>1. SettledOnTime'
  BY KeptLockups, KeptTime DEF SettledOnTime, TimeInv
<1>2. DryInThePast'
  BY DEF DryInThePast, TimeInv
<1>3. QED BY <1>1, <1>2 DEF TimeInv

\* One rail is replaced by one on which only the settled epochs differ or the rate falls.
LEMMA OneRailKept ==
  ASSUME IInv, TimeInv, NEW r \in RailIds, NEW new \in Rail,
         rails' = [rails EXCEPT ![r] = new],
         UNCHANGED <<blockNumber, dryAt>>,
         rails[r].status = "active",
         new.status # "none",
         new.status = "active" =>
           /\ new.payer = rails[r].payer
           /\ new.endEpoch = rails[r].endEpoch
           /\ new.rate = rails[r].rate \/ railToDataSet[r] # NoDataSet,
         OnTime(new)
  PROVE  RailsKept /\ TimeInv'
<1>1. /\ rails'[r] = new
      /\ \A i \in RailIds : i # r => rails'[i] = rails[i]
  BY DEF IInv, TypeOK
<1>2. RailsKept
  BY <1>1 DEF RailsKept, RailKept
<1>3. OnTime(rails[r])'
  BY <1>1 DEF OnTime, LockupLastSettledAt
<1>4. SettledOnTime'
  <2>1. ASSUME NEW i \in RailIds, i # r PROVE OnTime(rails[i])'
    BY <1>1, <2>1, KeptLockups, KeptTime DEF TimeInv
  <2>2. QED BY <1>3, <2>1 DEF SettledOnTime
<1>5. DryInThePast'
  BY DEF DryInThePast, TimeInv
<1>6. QED BY <1>2, <1>4, <1>5 DEF TimeInv

\* updatePaymentRates.
LEMMA UpdatePaymentRatesKeeps ==
  ASSUME IInv, LinkInv, TimeInv, NEW d \in DataSetIds, NEW pieceCount \in Nat, Live(d),
         UpdatePaymentRates(d, pieceCount), UNCHANGED <<blockNumber, dryAt>>
  PROVE  RailsKept /\ TimeInv'
<1> DEFINE r    == dataSetInfo[d].pdpRailId
           rate == StorageRate(pieceCount)
           new  == SetRate(rails[r], rate, blockNumber)
<1>1. /\ r \in RailIds /\ railToDataSet[r] = d /\ Payer(d) \in Payers /\ d # NoDataSet
      /\ rails[r].status = "active" => rails[r].payer = Payer(d)
  BY Constants DEF LinkInv, DataSetsHaveRails, DataSetIds, NoDataSet, ConstantsAssumption
<1>2. rails[r] \in Rail /\ rate \in Nat /\ blockNumber \in Nat
  BY <1>1, StorageRateType, BlockNumberType DEF IInv, TypeOK
<1>3. /\ CanSetRate(rails[r], rate, blockNumber, dryAt[Payer(d)] = Solvency)
      /\ rails' = [rails EXCEPT ![r] = new]
  BY DEF UpdatePaymentRates
<1>4. rails[r].status = "active"
  BY <1>3 DEF CanSetRate
<1> HIDE DEF r, rate
<1>5. new \in Rail /\ new.payer = rails[r].payer /\ new.status = rails[r].status
  BY <1>2, SetRateType
<1>6. /\ new.endEpoch = rails[r].endEpoch
      /\ \/ new.settledUpTo = rails[r].settledUpTo
         \/ rate # rails[r].rate /\ new.settledUpTo = blockNumber
  BY <1>2, SetRateEffect
<1> HIDE DEF new
<1>7. OnTime(new)
  <2>1. OnTime(rails[r])
    BY <1>1 DEF TimeInv, SettledOnTime
  <2>2. CASE new.settledUpTo = rails[r].settledUpTo
    BY <1>5, <1>6, <2>1, <2>2 DEF OnTime
  <2>3. CASE rate # rails[r].rate /\ new.settledUpTo = blockNumber
    <3>1. CASE rails[r].endEpoch = NotEnded
      <4>1. dryAt[Payer(d)] = Solvency
        BY <1>3, <2>3, <3>1 DEF CanSetRate
      <4>2. LockupLastSettledAt(rails[r].payer) = blockNumber
        BY <1>1, <1>4, <4>1 DEF LockupLastSettledAt
      <4>3. QED BY <1>2, <1>5, <1>6, <2>3, <3>1, <4>2 DEF OnTime
    <3>2. CASE rails[r].endEpoch # NotEnded
      <4>1. blockNumber < rails[r].endEpoch
        BY <1>3, <3>2 DEF CanSetRate
      <4>2. QED BY <1>6, <2>3, <3>2, <4>1 DEF OnTime
    <3>3. QED BY <3>1, <3>2
  <2>4. QED BY <1>6, <2>2, <2>3
<1>8. QED BY <1>1, <1>3, <1>4, <1>5, <1>6, <1>7, OneRailKept

\* settleRail.
LEMMA SettleRailKeeps ==
  ASSUME IInv, LinkInv, TimeInv, NEW r \in RailIds, NEW untilEpoch \in Nat,
         SettleRail(r, untilEpoch)
  PROVE  RailsKept /\ TimeInv'
<1> DEFINE settledAt == LockupLastSettledAt(rails[r].payer)
<1>1. rails[r] \in Rail /\ rails[r].payer \in Payers /\ rails[r].status = "active"
  BY DEF SettleRail, IInv, TypeOK, PayersKnown
<1>2. settledAt \in Nat
  BY <1>1, LockupLastSettledAtType
<1>3. PICK target \in {TargetOf(r, untilEpoch)}, outcomes \in {Outcomes(r, TargetOf(r, untilEpoch))} :
        /\ CanSettle(rails[r], target, outcomes)
        /\ rails' = [rails EXCEPT ![r] = Settled(rails[r], target, outcomes)]
  BY DEF SettleRail
<1> DEFINE new == Settled(rails[r], target, outcomes)
<1>4. target = SettlementTarget(rails[r], untilEpoch, settledAt) /\ target \in Nat
  BY <1>1, <1>2, SettlementTargetType DEF TargetOf
<1>5. new \in Rail /\ (new.status = "active" => new.payer = rails[r].payer)
  BY <1>1, <1>3, <1>4, SettledType
<1>6. new.status # "none"
  BY <1>1 DEF Settled, FinalizedRail, NoRail, Rail
<1> HIDE DEF settledAt
<1>7. new.status = "active" =>
        /\ new.endEpoch = rails[r].endEpoch
        /\ new.rate = rails[r].rate
        /\ IF rails[r].endEpoch = NotEnded
           THEN new.settledUpTo <= settledAt
           ELSE new.settledUpTo < rails[r].endEpoch
  BY <1>1, <1>2, <1>3, <1>4, SettledEffect
<1> HIDE DEF new
<1>8. OnTime(new)
  BY <1>5, <1>7 DEF OnTime, settledAt
<1>9. rails' = [rails EXCEPT ![r] = new] /\ UNCHANGED <<blockNumber, dryAt>>
  BY <1>3 DEF SettleRail, new
<1>10. QED BY <1>1, <1>5, <1>6, <1>7, <1>8, <1>9, OneRailKept

-----------------------------------------------------------------------------
(* Steps that change nothing but rails, funds and time.                    *)

\* settleRail.
LEMMA SettleRailDataSets ==
  ASSUME IInv, DataSetInv, NEW r \in RailIds, NEW untilEpoch \in Nat, SettleRail(r, untilEpoch)
  PROVE  DataSetInv'
<1>1. RailsKept /\ TimeInv'
  BY SettleRailKeeps DEF DataSetInv
<1>2. QED BY <1>1, KeptDataSets DEF SettleRail

\* settleTerminatedRailWithoutValidation.
LEMMA SettleWithoutValidationDataSets ==
  ASSUME IInv, DataSetInv, NEW d \in DataSetIds, SettleTerminatedRailWithoutValidation(d)
  PROVE  DataSetInv'
<1> DEFINE r == dataSetInfo[d].pdpRailId
<1>1. r \in RailIds /\ rails[r].status = "active"
  BY DEF SettleTerminatedRailWithoutValidation, IInv, TypeOK, DataSetInfo
<1>2. FinalizedRail \in Rail /\ FinalizedRail.status = "finalized"
  BY NoRailType DEF FinalizedRail, NoRail
<1>3. rails' = [rails EXCEPT ![r] = FinalizedRail] /\ UNCHANGED <<blockNumber, dryAt>>
  BY DEF SettleTerminatedRailWithoutValidation
<1>4. OnTime(FinalizedRail)
  BY <1>2 DEF OnTime
<1> HIDE DEF r
<1>5. RailsKept /\ TimeInv'
  BY <1>1, <1>2, <1>3, <1>4, OneRailKept DEF DataSetInv
<1>6. QED BY <1>5, KeptDataSets DEF SettleTerminatedRailWithoutValidation

\* Rails that keep all but their lockups, whatever happened to which.
LEMMA LockupsMoved ==
  ASSUME IInv, DataSetInv,
         \A r \in RailIds :
           \/ rails'[r] = rails[r]
           \/ \E amount \in Nat :
                rails'[r] \in {PayOnce(rails[r], amount), RaiseLockup(rails[r], amount)},
         UNCHANGED <<blockNumber, dryAt, registers, metadata, pdp, nextIds>>
  PROVE  DataSetInv'
<1>1. ASSUME NEW r \in RailIds
      PROVE  /\ rails'[r].endEpoch = rails[r].endEpoch
             /\ rails'[r].rate = rails[r].rate
             /\ rails'[r].settledUpTo = rails[r].settledUpTo
             /\ rails'[r].payer = rails[r].payer
             /\ rails'[r].status = rails[r].status
  <2>1. rails[r] \in Rail
    BY DEF IInv, TypeOK
  <2>2. QED BY <2>1, LockupEffect
<1>2. RailsKept
  BY <1>1 DEF RailsKept, RailKept
<1>3. SettledOnTime'
  <2>1. ASSUME NEW r \in RailIds PROVE OnTime(rails[r])'
    BY <1>1, KeptLockups, KeptTime DEF DataSetInv, TimeInv
  <2>2. QED BY <2>1 DEF SettledOnTime
<1>4. DryInThePast'
  BY DEF DryInThePast, DataSetInv, TimeInv
<1>5. QED BY <1>2, <1>3, <1>4, KeptDataSets DEF TimeInv

\* settleFilBeamPaymentRails.
LEMMA SettleFilBeamDataSets ==
  ASSUME IInv, DataSetInv, NEW d \in DataSetIds, NEW a \in CdnAmounts, NEW b \in CdnAmounts,
         SettleFilBeamPaymentRails(d, a, b)
  PROVE  DataSetInv'
<1>1. a \in Nat /\ b \in Nat
  BY Constants DEF ConstantsAssumption
<1>2. \A r \in RailIds : rails'[r] \in {PayOnce(rails[r], a), PayOnce(rails[r], b), rails[r]}
  BY DEF SettleFilBeamPaymentRails
<1>3. QED BY <1>1, <1>2, LockupsMoved DEF SettleFilBeamPaymentRails

\* topUpCDNPaymentRails.
LEMMA TopUpDataSets ==
  ASSUME IInv, DataSetInv, NEW d \in DataSetIds, NEW a \in CdnAmounts, NEW b \in CdnAmounts,
         TopUpCDNPaymentRails(d, a, b)
  PROVE  DataSetInv'
<1>1. a \in Nat /\ b \in Nat
  BY Constants DEF ConstantsAssumption
<1>2. \A r \in RailIds : rails'[r] \in {RaiseLockup(rails[r], a), RaiseLockup(rails[r], b), rails[r]}
  BY DEF TopUpCDNPaymentRails
<1>3. QED BY <1>1, <1>2, LockupsMoved DEF TopUpCDNPaymentRails

\* A payer's own terminateRail.
LEMMA PayerTerminatesRailDataSets ==
  ASSUME IInv, DataSetInv, NEW r \in RailIds, PayerTerminatesRail(r)
  PROVE  DataSetInv'
<1> DEFINE new == Terminate(rails[r], blockNumber)
<1>1. rails[r] \in Rail /\ rails[r].payer \in Payers
  BY DEF PayerTerminatesRail, IsRunning, IInv, TypeOK, PayersKnown
<1>2. blockNumber \in Nat /\ rails[r].settledUpTo \in Nat
  BY <1>1, BlockNumberType DEF Rail
<1>3. /\ new.payer = rails[r].payer /\ new.status = "active"
      /\ new.endEpoch = blockNumber + LockupPeriod /\ new.endEpoch # NotEnded
      /\ new.rate = rails[r].rate /\ new.settledUpTo = rails[r].settledUpTo
  BY <1>1, <1>2, TerminateType, TerminateEffect DEF PayerTerminatesRail, IsRunning
<1>4. rails' = [rails EXCEPT ![r] = new]
  BY DEF PayerTerminatesRail
<1> HIDE DEF new
<1>5. /\ rails'[r] = new
      /\ \A i \in RailIds : i # r => rails'[i] = rails[i]
  BY <1>4 DEF IInv, TypeOK
<1>6. rails[r].status = "active" /\ rails[r].endEpoch = NotEnded /\ railToDataSet[r] = NoDataSet
  BY DEF PayerTerminatesRail, IsRunning, HasValidator
<1>7. RailsKept
  BY <1>3, <1>5, <1>6 DEF RailsKept, RailKept
<1>8. rails[r].settledUpTo <= blockNumber
  BY <1>6 DEF PayerTerminatesRail, DataSetInv, TimeInv, SettledOnTime, OnTime
<1>9. OnTime(rails[r])'
  BY <1>2, <1>3, <1>5, <1>8, LockupPeriodAssumption DEF OnTime
<1>10. SettledOnTime'
  <2>1. UNCHANGED <<blockNumber, dryAt>>
    BY DEF PayerTerminatesRail
  <2>2. ASSUME NEW i \in RailIds, i # r PROVE OnTime(rails[i])'
    BY <1>5, <2>1, <2>2, KeptLockups, KeptTime DEF DataSetInv, TimeInv
  <2>3. QED BY <1>9, <2>2 DEF SettledOnTime
<1>11. DryInThePast'
  BY DEF PayerTerminatesRail, DryInThePast, DataSetInv, TimeInv
<1>12. QED BY <1>7, <1>10, <1>11, KeptDataSets DEF PayerTerminatesRail, TimeInv

\* Lockups that are settled further.
LEMMA LockupsSettledFurther ==
  ASSUME IInv, DataSetInv,
         \A p \in Payers : LockupLastSettledAt(p) <= LockupLastSettledAt(p)',
         \A p \in Payers : LockupLastSettledAt(p)' \in Nat,
         DryInThePast',
         UNCHANGED <<rails, registers, metadata, pdp, nextIds>>
  PROVE  DataSetInv'
<1>1. SettledOnTime'
  <2>1. ASSUME NEW r \in RailIds PROVE OnTime(rails[r])'
    BY KeptTime DEF DataSetInv, TimeInv
  <2>2. QED BY <2>1 DEF SettledOnTime
<1>2. RailsKept
  BY UnchangedRailsKept
<1>3. QED BY <1>1, <1>2, KeptDataSets DEF TimeInv

\* Funds run out or come back.
LEMMA FundsDataSets ==
  ASSUME IInv, DataSetInv, NEW p \in Payers, RunDry(p) \/ Deposit(p)
  PROVE  DataSetInv'
<1>1. blockNumber \in Nat \ {0} /\ dryAt \in [Payers -> Nat] /\ blockNumber' = blockNumber
  BY BlockNumberType DEF RunDry, Deposit, IInv, TypeOK
<1>2. /\ dryAt' \in [Payers -> Nat]
      /\ \A q \in Payers : dryAt'[q] = dryAt[q] \/ dryAt'[q] \in {blockNumber, Solvency}
      /\ \A q \in Payers : dryAt'[q] # dryAt[q] => q = p
  BY <1>1 DEF RunDry, Deposit, Solvency
<1>3. DryInThePast'
  BY <1>1, <1>2 DEF DryInThePast, DataSetInv, TimeInv, Solvency
<1>4. \A q \in Payers : /\ LockupLastSettledAt(q)' \in Nat
                        /\ LockupLastSettledAt(q) <= LockupLastSettledAt(q)'
  BY <1>1, <1>2 DEF LockupLastSettledAt, DryInThePast, DataSetInv, TimeInv, Solvency
<1>5. QED BY <1>3, <1>4, LockupsSettledFurther DEF RunDry, Deposit

\* Time passes.
LEMMA NewEpochDataSets ==
  ASSUME IInv, DataSetInv, NewEpoch
  PROVE  DataSetInv'
<1>1. /\ blockNumber \in Nat \ {0} /\ dryAt \in [Payers -> Nat]
      /\ blockNumber' = blockNumber + 1 /\ dryAt' = dryAt
  BY BlockNumberType DEF NewEpoch, external, IInv, TypeOK
<1>2. DryInThePast'
  BY <1>1 DEF DryInThePast, DataSetInv, TimeInv
<1>3. \A q \in Payers : /\ LockupLastSettledAt(q)' \in Nat
                        /\ LockupLastSettledAt(q) <= LockupLastSettledAt(q)'
  BY <1>1 DEF LockupLastSettledAt, Solvency
<1>4. QED BY <1>2, <1>3, LockupsSettledFurther DEF NewEpoch, external

-----------------------------------------------------------------------------
(* The callbacks of PDPVerifier on pieces and on proving.                  *)

\* A step on the pieces or the proving of a data set.
LEMMA PieceStep ==
  ASSUME IInv, DataSetInv, DataSetsKept, RailsKept, TimeInv', PiecesHaveMetadata',
         UNCHANGED <<withCDN, clientDataSets>>
  PROVE  DataSetInv'
<1>1. LinkInv'
  BY KeptLink DEF DataSetInv
<1>2. KeysHoldCdnRails'
  BY KeptKeys DEF DataSetInv
<1>3. ListsNameDataSets'
  BY KeptLists DEF DataSetInv, DataSetsKept, Payer
<1>4. QED BY <1>1, <1>2, <1>3 DEF DataSetInv

\* piecesAdded.
LEMMA PiecesAddedDataSets ==
  ASSUME IInv, DataSetInv, NEW d \in DataSetIds, NEW count \in 1 .. MaxPieces, NEW nonce \in Nonces,
         PiecesAdded(d, count, nonce)
  PROVE  DataSetInv'
<1> DEFINE added  == pdp[d].nextPieceId .. pdp[d].nextPieceId + count - 1
           pieces == pdp[d].pieces \cup added
<1>1. pieces \in SUBSET PieceIds /\ Cardinality(pieces) \in Nat
  <2>1. pieces \in SUBSET PieceIds
    BY DEF PiecesAdded, IInv, TypeOK, VerifierDataSet
  <2> HIDE DEF pieces
  <2>2. QED BY <2>1, PieceCountType
<1>2. RailsKept /\ TimeInv'
  BY <1>1, UpdatePaymentRatesKeeps DEF PiecesAdded, DataSetInv
<1>3. /\ \A i \in DataSetIds : pdp'[i].status = pdp[i].status /\ pdp'[i].removals = pdp[i].removals
      /\ \A i \in DataSetIds : i # d => pdp'[i].pieces = pdp[i].pieces
      /\ pdp'[d].pieces = pieces
  <2>1. pdp \in [DataSetIds -> VerifierDataSet]
    BY DEF IInv, TypeOK
  <2>2. pdp' = [pdp EXCEPT ![d].pieces = pieces, ![d].nextPieceId = pdp[d].nextPieceId + count]
    BY DEF PiecesAdded
  <2> HIDE DEF pieces
  <2>3. QED BY <2>1, <2>2 DEF VerifierDataSet
<1>4. pieceMetadata' = [pieceMetadata EXCEPT ![d] = pieceMetadata[d] \cup added]
  BY DEF PiecesAdded
<1>5. PiecesHaveMetadata'
  <2>1. PiecesHaveMetadata /\ DOMAIN pieceMetadata = DataSetIds
    BY DEF DataSetInv, IInv, TypeOK
  <2>2. scheduledPieceMetadataRemovals' = scheduledPieceMetadataRemovals
    BY DEF PiecesAdded
  <2> HIDE DEF added
  <2>3. ASSUME NEW i \in DataSetIds, pdp[i].status # "deleted"
        PROVE  pieceMetadata'[i] = pdp'[i].pieces
    BY <1>3, <1>4, <2>1, <2>3 DEF PiecesHaveMetadata
  <2>4. QED BY <1>3, <2>1, <2>2, <2>3 DEF PiecesHaveMetadata
<1>6. DataSetsKept
  BY <1>3 DEF DataSetsKept, PiecesAdded
<1>7. QED BY <1>2, <1>5, <1>6, PieceStep DEF PiecesAdded

\* piecesScheduledRemove.
LEMMA PiecesScheduledRemoveDataSets ==
  ASSUME IInv, DataSetInv, NEW d \in DataSetIds, NEW pieceIds \in SUBSET PieceIds,
         PiecesScheduledRemove(d, pieceIds)
  PROVE  DataSetInv'
<1>1. /\ \A i \in DataSetIds : pdp'[i].status = pdp[i].status /\ pdp'[i].pieces = pdp[i].pieces
      /\ \A i \in DataSetIds : i # d => pdp'[i].removals = pdp[i].removals
      /\ pdp'[d].removals = pdp[d].removals \cup pieceIds
  BY DEF PiecesScheduledRemove, IInv, TypeOK, VerifierDataSet
<1>2. PiecesHaveMetadata'
  <2>1. /\ PiecesHaveMetadata
        /\ DOMAIN scheduledPieceMetadataRemovals = DataSetIds
    BY DEF DataSetInv, IInv, TypeOK
  <2>2. /\ pieceMetadata' = pieceMetadata
        /\ scheduledPieceMetadataRemovals' = [scheduledPieceMetadataRemovals EXCEPT
             ![d] = scheduledPieceMetadataRemovals[d] \cup pieceIds]
    BY DEF PiecesScheduledRemove, registers
  <2>3. QED BY <1>1, <2>1, <2>2 DEF PiecesHaveMetadata
<1>3. DataSetsKept
  BY <1>1 DEF DataSetsKept, PiecesScheduledRemove, registers
<1>4. RailsKept /\ TimeInv'
  BY UnchangedRailsKept, UnchangedRailsOnTime DEF PiecesScheduledRemove, DataSetInv
<1>5. QED BY <1>2, <1>3, <1>4, PieceStep DEF PiecesScheduledRemove, registers

\* nextProvingPeriod: the pieces that leave PDPVerifier's data set are those whose
\* metadata the service forgets.
LEMMA NextProvingPeriodDataSets ==
  ASSUME IInv, DataSetInv, NEW d \in DataSetIds, NextProvingPeriod(d)
  PROVE  DataSetInv'
<1>1. PICK c \in ChallengeEpochs : StartProving(d, c) \/ AdvanceProvingPeriod(d, c)
  BY DEF NextProvingPeriod
<1>2. /\ Live(d)
      /\ ProcessScheduledRemovals(d, Cardinality(PiecesAfterRemovals(d)))
      /\ ProvingSetUpdated(d, c)
      /\ UNCHANGED <<blockNumber, dataSetInfo, clientDataSets, railToDataSet, withCDN, dryAt, nextIds>>
  BY <1>1 DEF StartProving, AdvanceProvingPeriod, registers
<1>3. RailsKept /\ TimeInv'
  <2>1. Cardinality(PiecesAfterRemovals(d)) \in Nat
    BY PiecesLeftType
  <2>2. QED
    BY <1>2, <2>1, UpdatePaymentRatesKeeps, UnchangedRailsKept, UnchangedRailsOnTime
       DEF ProcessScheduledRemovals, DataSetInv
<1>4. /\ \A i \in DataSetIds : pdp'[i].status = pdp[i].status
      /\ \A i \in DataSetIds : i # d =>
           pdp'[i].pieces = pdp[i].pieces /\ pdp'[i].removals = pdp[i].removals
      /\ pdp'[d].pieces = pdp[d].pieces \ pdp[d].removals
      /\ pdp'[d].removals = {}
  <2>1. pdp \in [DataSetIds -> VerifierDataSet]
    BY DEF IInv, TypeOK
  <2>2. QED BY <1>2, <2>1 DEF ProvingSetUpdated, PiecesAfterRemovals, VerifierDataSet
<1>5. PiecesHaveMetadata'
  <2>1. /\ PiecesHaveMetadata
        /\ DOMAIN pieceMetadata = DataSetIds /\ DOMAIN scheduledPieceMetadataRemovals = DataSetIds
    BY DEF DataSetInv, IInv, TypeOK
  <2>2. /\ pieceMetadata' = [pieceMetadata EXCEPT
             ![d] = pieceMetadata[d] \ scheduledPieceMetadataRemovals[d]]
        /\ scheduledPieceMetadataRemovals' = [scheduledPieceMetadataRemovals EXCEPT ![d] = {}]
    BY <1>2 DEF ProcessScheduledRemovals
  <2>3. ASSUME NEW i \in DataSetIds, pdp[i].status # "deleted"
        PROVE  /\ pieceMetadata'[i] = pdp'[i].pieces
               /\ scheduledPieceMetadataRemovals'[i] = pdp'[i].removals
    BY <1>4, <2>1, <2>2, <2>3 DEF PiecesHaveMetadata
  <2>4. QED BY <1>4, <2>3 DEF PiecesHaveMetadata
<1>6. DataSetsKept
  BY <1>2, <1>4 DEF DataSetsKept
<1>7. QED BY <1>2, <1>3, <1>5, <1>6, PieceStep

\* Steps on which rails, data sets, funds and time stay as they are.
LEMMA OtherStepsDataSets ==
  ASSUME IInv, DataSetInv, UNCHANGED <<blockNumber, registers, metadata, external>>
  PROVE  DataSetInv'
<1>1. RailsKept /\ TimeInv'
  BY UnchangedRailsKept, UnchangedRailsOnTime DEF DataSetInv, external
<1>2. QED BY <1>1, KeptDataSets DEF external

-----------------------------------------------------------------------------
(* Terminations.                                                           *)

\* What terminateRail, tried on some of a payer's rails, does to a rail.
MaybeTerminated(r, rs) ==
  \/ rails'[r] = rails[r]
  \/ /\ r \in rs /\ IsRunning(rails[r])
     /\ rails'[r].status = rails[r].status
     /\ rails'[r].payer = rails[r].payer
     /\ rails'[r].rate = rails[r].rate
     /\ rails'[r].endEpoch # NotEnded

\* The rails of one payer that still run end when its lockup says, and none of them was
\* settled beyond.
LEMMA TerminateRunningEffect ==
  ASSUME IInv, TimeInv, NEW p \in Payers, NEW rs,
         \A r \in RailIds \cap rs : rails[r].status = "active" => rails[r].payer = p,
         rails' = TerminateRunning(rs, p),
         \A q \in Payers : LockupLastSettledAt(q) <= LockupLastSettledAt(q)',
         \A q \in Payers : LockupLastSettledAt(q)' \in Nat
  PROVE  /\ \A r \in RailIds : MaybeTerminated(r, rs)
         /\ \A r \in RailIds \cap rs : ~IsRunning(rails'[r])
         /\ SettledOnTime'
<1> DEFINE settledAt == LockupLastSettledAt(p)
<1>1. settledAt \in Nat
  BY LockupLastSettledAtType
<1>2. ASSUME NEW r \in RailIds, r \in rs, IsRunning(rails[r])
      PROVE  /\ rails'[r].status = rails[r].status
             /\ rails'[r].payer = rails[r].payer
             /\ rails'[r].rate = rails[r].rate
             /\ rails'[r].endEpoch # NotEnded
             /\ rails'[r].settledUpTo < rails'[r].endEpoch
  <2>1. rails[r] \in Rail /\ rails'[r] = Terminate(rails[r], settledAt)
    BY <1>2 DEF TerminateRunning, IInv, TypeOK
  <2>2. rails[r].settledUpTo \in Nat /\ rails[r].settledUpTo <= settledAt
    BY <1>2, <2>1 DEF Rail, IsRunning, TimeInv, SettledOnTime, OnTime
  <2> HIDE DEF settledAt
  <2>3. /\ rails'[r].status = rails[r].status
        /\ rails'[r].payer = rails[r].payer
    BY <1>1, <2>1, TerminateType
  <2>4. /\ rails'[r].rate = rails[r].rate
        /\ rails'[r].endEpoch # NotEnded
        /\ rails'[r].endEpoch = settledAt + LockupPeriod
        /\ rails'[r].settledUpTo = rails[r].settledUpTo
    BY <1>1, <2>1, TerminateEffect
  <2>5. QED BY <1>1, <2>2, <2>3, <2>4, LockupPeriodAssumption
<1>3. ASSUME NEW r \in RailIds, ~(r \in rs /\ IsRunning(rails[r]))
      PROVE  rails'[r] = rails[r]
  BY <1>3 DEF TerminateRunning
<1>4. \A r \in RailIds : MaybeTerminated(r, rs)
  BY <1>2, <1>3 DEF MaybeTerminated
<1>5. \A r \in RailIds \cap rs : ~IsRunning(rails'[r])
  BY <1>2, <1>3 DEF IsRunning
<1>6. ASSUME NEW r \in RailIds PROVE OnTime(rails[r])'
  <2>1. CASE r \in rs /\ IsRunning(rails[r])
    BY <1>2, <2>1 DEF OnTime
  <2>2. CASE ~(r \in rs /\ IsRunning(rails[r]))
    BY <1>3, <2>2, KeptTime DEF TimeInv
  <2>3. QED BY <2>1, <2>2
<1>7. QED BY <1>4, <1>5, <1>6 DEF SettledOnTime

\* terminateCDNService: the key goes and both rails end with it.
LEMMA TerminateCDNServiceDataSets ==
  ASSUME IInv, DataSetInv, NEW d \in DataSetIds, TerminateCDNService(d)
  PROVE  DataSetInv'
<1> DEFINE p  == dataSetInfo[d].payer
           rs == CdnRails(d)
<1>1. /\ p \in Payers
      /\ \A r \in RailIds \cap rs : /\ railToDataSet[r] = NoDataSet
                                    /\ rails[r].status = "active" => rails[r].payer = p
      /\ rs \subseteq RailIds
  <2>1. p \in Payers
    BY DEF TerminateCDNService, IInv, PayersKnown
  <2>2. NoRailId \notin rs /\ NoRailId \notin RailIds
    BY DEF TerminateCDNService, CdnRails, RailIds, NoRailId
  <2>3. QED BY <2>1, <2>2 DEF DataSetInv, LinkInv, CdnRailsApart, Payer
<1>2. UNCHANGED <<blockNumber, dryAt, dataSetInfo, clientDataSets, railToDataSet, nextIds, pdp,
                  pieceMetadata, scheduledPieceMetadataRemovals>>
  BY DEF TerminateCDNService, registers
<1>3. /\ \A r \in RailIds : MaybeTerminated(r, rs)
      /\ \A r \in RailIds \cap rs : ~IsRunning(rails'[r])
      /\ SettledOnTime'
  <2>1. rails' = TerminateRunning(rs, p)
    BY DEF TerminateCDNService
  <2> HIDE DEF p, rs
  <2>2. QED BY <1>1, <1>2, <2>1, KeptLockups, TerminateRunningEffect DEF DataSetInv
<1>4. RailsKept
  BY <1>1, <1>3 DEF MaybeTerminated, IsRunning, RailsKept, RailKept
<1>5. DataSetsKept
  BY <1>2 DEF DataSetsKept
<1>6. LinkInv'
  BY <1>4, <1>5, KeptLink DEF DataSetInv
<1>7. KeysHoldCdnRails'
  <2> SUFFICES ASSUME NEW e \in DataSetIds, NEW r \in CdnRails(e) \ {NoRailId}, ~withCDN'[e]
               PROVE  ~IsRunning(rails'[r])
    <3>1. \A e \in DataSetIds : CdnRails(e)' = CdnRails(e)
      BY <1>2 DEF CdnRails
    <3>2. QED BY <3>1 DEF KeysHoldCdnRails, IsRunning
  <2>1. r \in RailIds
    BY DEF DataSetInv, LinkInv, CdnRailsApart
  <2>2. CASE e = d
    BY <1>3, <2>1, <2>2
  <2>3. CASE e # d
    <3>1. ~withCDN[e]
      BY <2>3 DEF TerminateCDNService, IInv, TypeOK
    <3>2. ~IsRunning(rails[r])
      BY <3>1 DEF DataSetInv, KeysHoldCdnRails
    <3>3. QED BY <1>3, <2>1, <3>2 DEF MaybeTerminated
  <2>4. QED BY <2>2, <2>3
<1>8. TimeInv'
  BY <1>2, <1>3 DEF TimeInv, DryInThePast, DataSetInv
<1>9. PiecesHaveMetadata' /\ ListsNameDataSets'
  BY <1>2, KeptPieces, KeptLists DEF DataSetInv, Payer
<1>10. QED BY <1>6, <1>7, <1>8, <1>9 DEF DataSetInv

\* terminateService: railTerminated notes the end of this data set's rail, and no other
\* rail with a data set is touched.
LEMMA TerminateServiceDataSets ==
  ASSUME IInv, DataSetInv, NEW d \in DataSetIds, TerminateService(d)
  PROVE  DataSetInv'
<1> DEFINE p  == dataSetInfo[d].payer
           r  == dataSetInfo[d].pdpRailId
           rs == {r} \cup IF withCDN[d] THEN CdnRails(d) ELSE {}
<1>1. /\ Live(d) /\ r \in RailIds /\ railToDataSet[r] = d /\ p \in Payers
      /\ rails[r].status = "active" => rails[r].payer = p
  <2>1. Live(d)
    BY DEF TerminateService, MayTerminateService, DataSetInv, LinkInv, DataSetsHaveRails, NoInfo
  <2>2. QED BY <2>1 DEF DataSetInv, LinkInv, DataSetsHaveRails, Payer
<1>2. \A i \in RailIds \cap rs :
        /\ rails[i].status = "active" => rails[i].payer = p
        /\ i # r => railToDataSet[i] = NoDataSet
  <2>1. NoRailId \notin RailIds
    BY DEF RailIds, NoRailId
  <2>2. \A i \in RailIds \cap CdnRails(d) :
          railToDataSet[i] = NoDataSet /\ (rails[i].status = "active" => rails[i].payer = p)
    BY <2>1 DEF DataSetInv, LinkInv, CdnRailsApart, Payer
  <2>3. QED BY <1>1, <2>2
<1>3. UNCHANGED <<blockNumber, clientDataSets, railToDataSet, nextIds, pdp,
                  pieceMetadata, scheduledPieceMetadataRemovals>>
  BY DEF TerminateService
<1>4. \A q \in Payers : /\ LockupLastSettledAt(q)' \in Nat
                        /\ LockupLastSettledAt(q) <= LockupLastSettledAt(q)'
  <2>1. blockNumber \in Nat \ {0} /\ dryAt \in [Payers -> Nat]
    BY BlockNumberType DEF IInv, TypeOK
  <2>2. \A q \in Payers : dryAt'[q] = dryAt[q] \/ dryAt'[q] = Solvency
    BY <2>1 DEF TerminateService
  <2>3. \A q \in Payers : dryAt[q] <= blockNumber
    BY DEF DataSetInv, TimeInv, DryInThePast
  <2>4. QED BY <1>3, <2>1, <2>2, <2>3 DEF LockupLastSettledAt
<1>5. /\ \A i \in RailIds : MaybeTerminated(i, rs)
      /\ \A i \in RailIds \cap rs : ~IsRunning(rails'[i])
      /\ SettledOnTime'
  <2>1. rails' = TerminateRunning(rs, p)
    BY DEF TerminateService
  <2> HIDE DEF p, rs
  <2>2. QED BY <1>1, <1>2, <1>4, <2>1, TerminateRunningEffect DEF DataSetInv
<1>6. /\ dataSetInfo' = [dataSetInfo EXCEPT ![d].pdpEndEpoch = rails'[r].endEpoch]
      /\ withCDN' = [withCDN EXCEPT ![d] = FALSE]
  BY <1>1 DEF TerminateService
<1>7. \A e \in DataSetIds :
        /\ dataSetInfo'[e].payer = dataSetInfo[e].payer
        /\ dataSetInfo'[e].pdpRailId = dataSetInfo[e].pdpRailId
        /\ dataSetInfo'[e].cacheMissRailId = dataSetInfo[e].cacheMissRailId
        /\ dataSetInfo'[e].cdnRailId = dataSetInfo[e].cdnRailId
        /\ e # d => dataSetInfo'[e] = dataSetInfo[e]
        /\ e = d => dataSetInfo'[e].pdpEndEpoch = rails'[r].endEpoch
  BY <1>6 DEF IInv, TypeOK, DataSetInfo
<1>8. \A e \in DataSetIds : Live(e)' = Live(e) /\ Payer(e)' = Payer(e) /\ CdnRails(e)' = CdnRails(e)
  BY <1>3, <1>7 DEF Live, Payer, CdnRails
<1>9. FreshIds'
  BY <1>3, <1>5 DEF MaybeTerminated, IsRunning, DataSetInv, LinkInv, FreshIds
<1>10. DataSetsHaveRails'
  <2> SUFFICES ASSUME NEW e \in DataSetIds
               PROVE  LET i == dataSetInfo'[e].pdpRailId
                      IN  IF Live(e)
                          THEN /\ i \in RailIds /\ i < nextIds.rail
                               /\ Payer(e) \in Payers
                               /\ railToDataSet[i] = e
                               /\ rails'[i].status = "active" =>
                                    /\ rails'[i].payer = Payer(e)
                                    /\ rails'[i].endEpoch = dataSetInfo'[e].pdpEndEpoch
                          ELSE dataSetInfo'[e] = NoInfo
    BY <1>3, <1>8 DEF DataSetsHaveRails
  <2>1. CASE e = d
    BY <1>1, <1>5, <1>7, <2>1
       DEF MaybeTerminated, Payer, DataSetInv, LinkInv, DataSetsHaveRails
  <2>2. CASE e # d
    <3>1. Live(e) => dataSetInfo[e].pdpRailId \notin rs
      <4>1. e # NoDataSet
        BY Constants DEF DataSetIds, NoDataSet, ConstantsAssumption
      <4>2. Live(e) => /\ railToDataSet[dataSetInfo[e].pdpRailId] = e
                       /\ dataSetInfo[e].pdpRailId \in RailIds
        BY DEF DataSetInv, LinkInv, DataSetsHaveRails
      <4> HIDE DEF rs
      <4>3. QED BY <1>1, <1>2, <2>2, <4>1, <4>2
    <3> HIDE DEF rs
    <3>2. QED
      BY <1>5, <1>7, <2>2, <3>1 DEF MaybeTerminated, Payer, DataSetInv, LinkInv, DataSetsHaveRails
  <2>3. QED BY <2>1, <2>2
<1>11. RailsHaveDataSets'
  <2> HIDE DEF rs
  <2>1. ASSUME NEW i \in RailIds, railToDataSet[i] # NoDataSet
        PROVE  pdp[railToDataSet[i]].status = "live" /\ dataSetInfo'[railToDataSet[i]].pdpRailId = i
    <3>1. railToDataSet[i] \in DataSetIds
      BY <2>1 DEF IInv, TypeOK
    <3>2. QED BY <1>7, <2>1, <3>1 DEF DataSetInv, LinkInv, RailsHaveDataSets, Live
  <2>2. ASSUME NEW i \in RailIds, rails'[i].status = "active", rails'[i].rate > 0
        PROVE  railToDataSet[i] # NoDataSet
    BY <1>5, <2>2 DEF MaybeTerminated, IsRunning, DataSetInv, LinkInv, RailsHaveDataSets
  <2>3. QED BY <1>3, <2>1, <2>2 DEF RailsHaveDataSets, Live
<1>12. CdnRailsApart'
  <2> HIDE DEF rs
  <2> QED
    BY <1>3, <1>5, <1>7, <1>8
       DEF MaybeTerminated, IsRunning, DataSetInv, LinkInv, CdnRailsApart
<1>13. KeysHoldCdnRails'
  <2> SUFFICES ASSUME NEW e \in DataSetIds, NEW i \in CdnRails(e) \ {NoRailId}, ~withCDN'[e]
               PROVE  ~IsRunning(rails'[i])
    BY <1>8 DEF KeysHoldCdnRails, IsRunning
  <2>1. i \in RailIds
    BY DEF DataSetInv, LinkInv, CdnRailsApart
  <2>2. CASE e = d /\ withCDN[d]
    BY <1>5, <2>1, <2>2
  <2>3. CASE ~(e = d /\ withCDN[d])
    <3>1. ~withCDN[e]
      BY <1>6, <2>3 DEF IInv, TypeOK
    <3>2. ~IsRunning(rails[i])
      BY <3>1 DEF DataSetInv, KeysHoldCdnRails
    <3> HIDE DEF rs
    <3>3. QED BY <1>5, <2>1, <3>2 DEF MaybeTerminated
  <2>4. QED BY <2>2, <2>3
<1>14. DryInThePast'
  <2>1. blockNumber \in Nat
    BY BlockNumberType
  <2>2. \A q \in Payers : dryAt'[q] = dryAt[q] \/ dryAt'[q] = Solvency
    BY DEF TerminateService, IInv, TypeOK
  <2>3. QED BY <1>3, <2>1, <2>2 DEF DryInThePast, DataSetInv, TimeInv, Solvency
<1>15. PiecesHaveMetadata' /\ ListsNameDataSets'
  BY <1>3, <1>8, KeptPieces, KeptLists DEF DataSetInv
<1>16. QED
  BY <1>5, <1>9, <1>10, <1>11, <1>12, <1>13, <1>14, <1>15 DEF DataSetInv, LinkInv, TimeInv

-----------------------------------------------------------------------------
(* The clients' lists of data sets.                                        *)

\* push.
LEMMA AppendToList ==
  ASSUME NEW S, NEW list \in Seq(S), NEW x \in S, IsInjective(list), x \notin Range(list)
  PROVE  IsInjective(Append(list, x)) /\ Range(Append(list, x)) = Range(list) \cup {x}
<1> DEFINE n == Len(list)
           new == Append(list, x)
<1>1. n \in Nat /\ DOMAIN list = 1 .. n
  BY LenProperties
<1>2. /\ DOMAIN new = 1 .. n + 1
      /\ \A i \in 1 .. n : new[i] = list[i]
      /\ new[n + 1] = x
  <2>1. new \in Seq(S) /\ Len(new) = n + 1
    BY AppendProperties
  <2>2. DOMAIN new = 1 .. n + 1
    <3> HIDE DEF new, n
    <3> QED BY <2>1, LenProperties
  <2>3. QED BY <2>2, AppendProperties
<1> HIDE DEF new, n
<1>3. IsInjective(new)
  <2>1. \A i \in 1 .. n : list[i] # x
    BY <1>1 DEF Range
  <2>2. \A i, j \in 1 .. n : list[i] = list[j] => i = j
    BY <1>1 DEF IsInjective
  <2>3. \A i \in 1 .. n + 1 : i \in 1 .. n \/ i = n + 1
    BY <1>1
  <2>4. QED BY <1>2, <2>1, <2>2, <2>3 DEF IsInjective
<1>4. Range(new) = Range(list) \cup {x}
  <2>1. 1 .. n + 1 = (1 .. n) \cup {n + 1}
    BY <1>1
  <2>2. Range(new) = {new[i] : i \in (1 .. n) \cup {n + 1}}
    BY <1>2, <2>1 DEF Range
  <2>3. Range(list) = {list[i] : i \in 1 .. n}
    BY <1>1 DEF Range
  <2>4. QED BY <1>2, <2>2, <2>3
<1>5. QED BY <1>3, <1>4 DEF new

\* The last entry takes the place of the one that goes.
LEMMA PopFromList ==
  ASSUME NEW S, NEW list \in Seq(S), IsInjective(list), NEW k \in DOMAIN list
  PROVE  /\ IsInjective(SwapAndPop(list, k))
         /\ Range(SwapAndPop(list, k)) = Range(list) \ {list[k]}
<1> DEFINE n == Len(list)
           swapped == [list EXCEPT ![k] = list[n]]
           new == SwapAndPop(list, k)
<1>1. n \in Nat \ {0} /\ DOMAIN list = 1 .. n /\ k \in 1 .. n
  BY LenProperties
<1>2. list[n] \in S
  BY <1>1, ElementOfSeq
<1>3. /\ swapped \in Seq(S) /\ Len(swapped) = n
      /\ \A i \in 1 .. n : swapped[i] = IF i = k THEN list[n] ELSE list[i]
  BY <1>1, <1>2, ExceptSeq
<1>4. /\ DOMAIN new = 1 .. n - 1
      /\ \A i \in 1 .. n - 1 : new[i] = IF i = k THEN list[n] ELSE list[i]
  <2>1. new = SubSeq(swapped, 1, n - 1)
    BY DEF SwapAndPop
  <2> HIDE DEF swapped, n, new
  <2>2. \A i \in 1 .. n - 1 : swapped[i] \in S
    BY <1>1, <1>3, ElementOfSeq
  <2>3. /\ new \in Seq(S)
        /\ Len(new) = n - 1
        /\ \A i \in 1 .. n - 1 : new[i] = swapped[i]
    BY <1>1, <1>3, <2>1, <2>2, SubSeqProperties
  <2>4. DOMAIN new = 1 .. n - 1
    BY <2>3, LenProperties
  <2>5. QED BY <1>1, <1>3, <2>3, <2>4
<1> HIDE DEF new, n, swapped
<1>5. \A i, j \in 1 .. n : list[i] = list[j] => i = j
  BY <1>1 DEF IsInjective
<1>6. IsInjective(new)
  <2> SUFFICES ASSUME NEW i \in 1 .. n - 1, NEW j \in 1 .. n - 1, new[i] = new[j]
               PROVE  i = j
    BY <1>4 DEF IsInjective
  <2>1. i \in 1 .. n /\ j \in 1 .. n /\ n \in 1 .. n /\ i # n /\ j # n
    BY <1>1
  <2>2. QED BY <1>4, <1>5, <2>1
<1>7. Range(new) = {new[i] : i \in 1 .. n - 1} /\ Range(list) = {list[i] : i \in 1 .. n}
  BY <1>1, <1>4 DEF Range
<1>8. ASSUME NEW y \in Range(new) PROVE y \in Range(list) \ {list[k]}
  <2>1. PICK i \in 1 .. n - 1 : y = new[i]
    BY <1>7
  <2>2. i \in 1 .. n /\ n \in 1 .. n /\ i # n
    BY <1>1
  <2>3. CASE i = k
    BY <1>1, <1>4, <1>5, <1>7, <2>1, <2>2, <2>3
  <2>4. CASE i # k
    BY <1>1, <1>4, <1>5, <1>7, <2>1, <2>2, <2>4
  <2>5. QED BY <2>3, <2>4
<1>9. ASSUME NEW y \in Range(list) \ {list[k]} PROVE y \in Range(new)
  <2>1. PICK i \in 1 .. n : y = list[i] /\ i # k
    BY <1>7
  <2>2. CASE i = n
    <3>1. k \in 1 .. n - 1
      BY <1>1, <2>1, <2>2
    <3>2. QED BY <1>4, <1>7, <2>1, <2>2, <3>1
  <2>3. CASE i # n
    <3>1. i \in 1 .. n - 1
      BY <1>1, <2>3
    <3>2. QED BY <1>4, <1>7, <2>1, <3>1
  <2>4. QED BY <2>2, <2>3
<1>10. QED BY <1>6, <1>8, <1>9 DEF new

-----------------------------------------------------------------------------
(* Creation and deletion.                                                  *)

\* dataSetCreated: the ids are fresh, and so are the rails.
LEMMA DataSetCreatedDataSets ==
  ASSUME IInv, DataSetInv, NEW p \in Payers, NEW nonce \in Nonces, NEW hasCDN \in BOOLEAN,
         NEW d, d = nextIds.dataSet, NEW r, r = nextIds.rail,
         DataSetCreated(p, nonce, hasCDN)
  PROVE  DataSetInv'
<1> DEFINE new == [NoInfo EXCEPT !.payer = p, !.pdpRailId = r,
                                 !.cacheMissRailId = IF hasCDN THEN r + 1 ELSE NoRailId,
                                 !.cdnRailId = IF hasCDN THEN r + 2 ELSE NoRailId]
           created == {r} \cup IF hasCDN THEN {r + 1, r + 2} ELSE {}
<1>1. /\ d \in DataSetIds /\ d \in Nat \ {0} /\ r \in Nat \ {0} /\ d # NoDataSet
      /\ r \in RailIds /\ r + 1 \in RailIds /\ r + 2 \in RailIds
  <2>1. d \in DataSetIds /\ d \in Nat \ {0} /\ r \in Nat \ {0}
    BY DEF DataSetCreated, IInv, TypeOK
  <2>2. r <= 3 * (d - 1) + 1 /\ d <= MaxDataSets /\ MaxDataSets \in Nat
    BY <2>1, Constants DEF IInv, RailIdsSuffice, DataSetIds, ConstantsAssumption
  <2>3. QED BY <2>1, <2>2 DEF RailIds, NoDataSet
<1>2. /\ pdp[d].status = "none"
      /\ \A i \in RailIds : i >= r => rails[i].status = "none" /\ railToDataSet[i] = NoDataSet
  BY <1>1 DEF DataSetInv, LinkInv, FreshIds
<1>3. /\ \A e \in DataSetIds : e # d => pdp'[e] = pdp[e] /\ dataSetInfo'[e] = dataSetInfo[e]
      /\ pdp'[d].status = "live" /\ pdp'[d].pieces = pdp[d].pieces
      /\ pdp'[d].removals = pdp[d].removals
      /\ dataSetInfo'[d] = new
  BY <1>1 DEF DataSetCreated, IInv, TypeOK, VerifierDataSet
<1>4. /\ new.payer = p /\ new.pdpRailId = r /\ new.pdpEndEpoch = NotEnded
      /\ new.cacheMissRailId = IF hasCDN THEN r + 1 ELSE NoRailId
      /\ new.cdnRailId = IF hasCDN THEN r + 2 ELSE NoRailId
  BY DEF NoInfo
<1>5. \A i \in RailIds : railToDataSet'[i] = IF i = r THEN d ELSE railToDataSet[i]
  BY <1>1 DEF DataSetCreated, IInv, TypeOK
<1>6. nextIds'.dataSet = d + 1 /\ nextIds'.rail = r + IF hasCDN THEN 3 ELSE 1
  BY DEF DataSetCreated
<1>7. /\ \A i \in RailIds \ created : rails'[i] = rails[i]
      /\ \A i \in created : /\ i \in RailIds /\ i >= r /\ i < nextIds'.rail
                            /\ rails'[i].status = "active" /\ rails'[i].payer = p
                            /\ rails'[i].rate = 0 /\ rails'[i].endEpoch = NotEnded
                            /\ rails'[i].settledUpTo = blockNumber
  <2>1. \A i \in created : i \in RailIds /\ i >= r /\ i < nextIds'.rail
    BY <1>1, <1>6
  <2>2. rails' = [i \in RailIds |->
                   CASE i = r                -> NewRail(p, blockNumber, 0)
                     [] hasCDN /\ i = r + 1  -> NewRail(p, blockNumber, CacheMissLockup)
                     [] hasCDN /\ i = r + 2  -> NewRail(p, blockNumber, CdnLockup)
                     [] OTHER                -> rails[i]]
    BY DEF DataSetCreated
  <2>3. \A i \in RailIds \ created : rails'[i] = rails[i]
    BY <2>2
  <2>4. \A i \in created : \E lockup : rails'[i] = NewRail(p, blockNumber, lockup)
    BY <1>1, <2>2
  <2>5. \A lockup : LET rail == NewRail(p, blockNumber, lockup)
                    IN  /\ rail.status = "active" /\ rail.payer = p /\ rail.rate = 0
                        /\ rail.endEpoch = NotEnded /\ rail.settledUpTo = blockNumber
    BY DEF NewRail, NoRail
  <2> HIDE DEF created
  <2>6. QED BY <2>1, <2>3, <2>4, <2>5
<1>8. UNCHANGED <<blockNumber, pieceMetadata, scheduledPieceMetadataRemovals, dryAt>>
  BY DEF DataSetCreated
<1>9. /\ \A e \in DataSetIds : e # d => /\ Live(e)' = Live(e) /\ Payer(e)' = Payer(e)
                                        /\ CdnRails(e)' = CdnRails(e)
      /\ Live(d)' /\ Payer(d)' = p
      /\ ~Live(d) /\ dataSetInfo[d] = NoInfo
  <2>1. ~Live(d)
    BY <1>2 DEF Live
  <2>2. dataSetInfo[d] = NoInfo
    BY <1>1, <2>1 DEF DataSetInv, LinkInv, DataSetsHaveRails
  <2> HIDE DEF new
  <2>3. pdp'[d].status = "live" /\ dataSetInfo'[d].payer = p
    BY <1>3, <1>4
  <2>4. Live(d)' /\ Payer(d)' = p
    BY <2>3 DEF DataSetCreated, Live, Payer
  <2>5. QED BY <1>3, <2>1, <2>2, <2>4 DEF Live, Payer, CdnRails
<1> HIDE DEF new, created
<1>10. FreshIds'
  <2>1. ASSUME NEW e \in DataSetIds, e >= d + 1 PROVE pdp'[e].status = "none"
    <3>1. e # d /\ e >= d
      BY <1>1, <2>1 DEF DataSetIds
    <3>2. QED BY <1>3, <3>1 DEF DataSetInv, LinkInv, FreshIds
  <2>2. ASSUME NEW i \in RailIds, i >= nextIds'.rail
        PROVE  rails'[i].status = "none" /\ railToDataSet'[i] = NoDataSet
    <3>1. i >= r /\ i # r /\ i \notin created
      BY <1>1, <1>6, <1>7, <2>2 DEF RailIds
    <3>2. QED BY <1>2, <1>5, <1>7, <3>1
  <2>3. QED BY <1>6, <2>1, <2>2 DEF FreshIds
<1>11. \A i \in RailIds : i < r => i \notin created /\ i < nextIds'.rail /\ i # r
  BY <1>1, <1>6, <1>7 DEF RailIds
<1>12. DataSetsHaveRails'
  <2>1. ASSUME NEW e \in DataSetIds, e # d, Live(e)
        PROVE  LET i == dataSetInfo[e].pdpRailId
               IN  /\ i \in RailIds /\ i < nextIds'.rail
                   /\ Payer(e) \in Payers
                   /\ railToDataSet'[i] = e
                   /\ rails'[i].status = "active" =>
                        rails'[i].payer = Payer(e) /\ rails'[i].endEpoch = dataSetInfo[e].pdpEndEpoch
    <3> DEFINE i == dataSetInfo[e].pdpRailId
    <3>1. /\ i \in RailIds /\ i < r /\ Payer(e) \in Payers /\ railToDataSet[i] = e
          /\ rails[i].status = "active" =>
               rails[i].payer = Payer(e) /\ rails[i].endEpoch = dataSetInfo[e].pdpEndEpoch
      BY <2>1 DEF DataSetInv, LinkInv, DataSetsHaveRails
    <3> HIDE DEF i
    <3>2. rails'[i] = rails[i] /\ railToDataSet'[i] = railToDataSet[i] /\ i < nextIds'.rail
      BY <1>5, <1>7, <1>11, <3>1
    <3>3. QED BY <3>1, <3>2 DEF i
  <2>2. \A e \in DataSetIds : e # d /\ ~Live(e) => dataSetInfo[e] = NoInfo
    BY DEF DataSetInv, LinkInv, DataSetsHaveRails
  <2>3. r \in created
    BY DEF created
  <2>4. /\ r < nextIds'.rail /\ railToDataSet'[r] = d
        /\ rails'[r].payer = p /\ rails'[r].endEpoch = NotEnded
    BY <1>1, <1>5, <1>7, <2>3
  <2> SUFFICES ASSUME NEW e \in DataSetIds
               PROVE  LET i == dataSetInfo'[e].pdpRailId
                      IN  IF Live(e)'
                          THEN /\ i \in RailIds /\ i < nextIds'.rail
                               /\ Payer(e)' \in Payers
                               /\ railToDataSet'[i] = e
                               /\ rails'[i].status = "active" =>
                                    /\ rails'[i].payer = Payer(e)'
                                    /\ rails'[i].endEpoch = dataSetInfo'[e].pdpEndEpoch
                          ELSE dataSetInfo'[e] = NoInfo
    BY DEF DataSetsHaveRails
  <2>5. CASE e = d
    BY <1>1, <1>3, <1>4, <1>9, <2>4, <2>5
  <2>6. CASE e # d
    BY <1>3, <1>9, <2>1, <2>2, <2>6
  <2>7. QED BY <2>5, <2>6
<1>13. RailsHaveDataSets'
  <2> SUFFICES ASSUME NEW i \in RailIds
               PROVE  /\ railToDataSet'[i] # NoDataSet =>
                           /\ pdp'[railToDataSet'[i]].status = "live"
                           /\ dataSetInfo'[railToDataSet'[i]].pdpRailId = i
                      /\ rails'[i].status = "active" /\ rails'[i].rate > 0 =>
                           railToDataSet'[i] # NoDataSet
    BY DEF RailsHaveDataSets, Live
  <2>1. CASE i = r
    BY <1>1, <1>3, <1>4, <1>5, <2>1
  <2>2. CASE i # r
    <3>1. railToDataSet'[i] = railToDataSet[i]
      BY <1>5, <2>2
    <3>2. railToDataSet[i] # NoDataSet =>
            /\ railToDataSet[i] \in DataSetIds /\ pdp[railToDataSet[i]].status = "live"
            /\ dataSetInfo[railToDataSet[i]].pdpRailId = i
      BY DEF DataSetInv, LinkInv, RailsHaveDataSets, Live, IInv, TypeOK
    <3>3. railToDataSet[i] # NoDataSet => railToDataSet[i] # d
      BY <1>2, <3>2
    <3>4. rails'[i].status = "active" /\ rails'[i].rate > 0 => railToDataSet[i] # NoDataSet
      BY <1>7 DEF DataSetInv, LinkInv, RailsHaveDataSets
    <3>5. QED BY <1>3, <3>1, <3>2, <3>3, <3>4
  <2>3. QED BY <2>1, <2>2
<1>14. CdnRails(d)' = IF hasCDN THEN {r + 1, r + 2} ELSE {NoRailId}
  BY <1>3, <1>4 DEF CdnRails
<1>15. CdnRailsApart'
  <2> SUFFICES ASSUME NEW e \in DataSetIds
               PROVE  /\ dataSetInfo'[e].cdnRailId = NoRailId
                           <=> dataSetInfo'[e].cacheMissRailId = NoRailId
                      /\ \A i \in CdnRails(e)' \ {NoRailId} :
                           /\ i \in RailIds /\ i < nextIds'.rail
                           /\ railToDataSet'[i] = NoDataSet
                           /\ rails'[i].status = "active" => rails'[i].payer = Payer(e)'
    BY DEF CdnRailsApart
  <2>1. CASE e = d
    <3>1. dataSetInfo'[d].cdnRailId = NoRailId <=> dataSetInfo'[d].cacheMissRailId = NoRailId
      BY <1>1, <1>3, <1>4 DEF NoRailId
    <3>2. ASSUME NEW i \in CdnRails(d)', i # NoRailId
          PROVE  /\ i \in RailIds /\ i < nextIds'.rail
                 /\ railToDataSet'[i] = NoDataSet
                 /\ rails'[i].payer = p
      <4>1. i \in created /\ i # r
        BY <1>1, <1>14, <3>2 DEF created
      <4>2. QED BY <1>2, <1>5, <1>7, <4>1
    <3>3. QED BY <1>9, <2>1, <3>1, <3>2
  <2>2. CASE e # d
    <3>1. /\ dataSetInfo[e].cdnRailId = NoRailId <=> dataSetInfo[e].cacheMissRailId = NoRailId
          /\ \A i \in CdnRails(e) \ {NoRailId} :
               /\ i \in RailIds /\ i < r
               /\ railToDataSet[i] = NoDataSet
               /\ rails[i].status = "active" => rails[i].payer = Payer(e)
      BY DEF DataSetInv, LinkInv, CdnRailsApart
    <3>2. \A i \in CdnRails(e) \ {NoRailId} :
            rails'[i] = rails[i] /\ railToDataSet'[i] = railToDataSet[i] /\ i < nextIds'.rail
      BY <1>5, <1>7, <1>11, <3>1
    <3>3. QED BY <1>3, <1>9, <2>2, <3>1, <3>2
  <2>3. QED BY <2>1, <2>2
<1>16. KeysHoldCdnRails'
  <2> SUFFICES ASSUME NEW e \in DataSetIds, NEW i \in CdnRails(e)' \ {NoRailId}, ~withCDN'[e]
               PROVE  ~IsRunning(rails'[i])
    BY DEF KeysHoldCdnRails, IsRunning
  <2>1. CASE e = d
    <3>1. withCDN'[d] = hasCDN
      BY <1>1 DEF DataSetCreated, IInv, TypeOK
    <3>2. QED BY <1>14, <2>1, <3>1
  <2>2. CASE e # d
    <3>1. i \in CdnRails(e) \ {NoRailId} /\ ~withCDN[e]
      BY <1>1, <1>9, <2>2 DEF DataSetCreated, IInv, TypeOK
    <3>2. i \in RailIds /\ i < r /\ ~IsRunning(rails[i])
      BY <3>1 DEF DataSetInv, LinkInv, CdnRailsApart, KeysHoldCdnRails
    <3>3. rails'[i] = rails[i]
      BY <1>7, <1>11, <3>2
    <3>4. QED BY <3>2, <3>3
  <2>3. QED BY <2>1, <2>2
<1>17. TimeInv'
  <2>1. dryAt[p] = Solvency /\ blockNumber \in Nat
    BY BlockNumberType DEF DataSetCreated, PayerApprovalAndFunds
  <2>2. ASSUME NEW i \in RailIds PROVE OnTime(rails[i])'
    <3>1. CASE i \in created
      BY <1>7, <1>8, <2>1, <3>1 DEF OnTime, LockupLastSettledAt
    <3>2. CASE i \notin created
      <4>1. rails'[i] = rails[i]
        BY <1>7, <3>2
      <4>2. QED BY <1>8, <4>1, KeptLockups, KeptTime DEF DataSetInv, TimeInv
    <3>3. QED BY <3>1, <3>2
  <2>3. DryInThePast'
    BY <1>8 DEF DryInThePast, DataSetInv, TimeInv
  <2>4. QED BY <2>2, <2>3 DEF TimeInv, SettledOnTime
<1>18. PiecesHaveMetadata'
  BY <1>2, <1>3, <1>8 DEF DataSetInv, PiecesHaveMetadata
<1>19. ListsNameDataSets'
  <2>1. clientDataSets \in [Payers -> Seq(DataSetIds)]
    BY DEF IInv, TypeOK
  <2>2. /\ clientDataSets'[p] = Append(clientDataSets[p], d)
        /\ \A q \in Payers : q # p => clientDataSets'[q] = clientDataSets[q]
    BY <2>1 DEF DataSetCreated
  <2>3. Payer(d) = NoPayer /\ NoPayer \notin Payers
    BY <1>9, Constants DEF Payer, NoInfo, ConstantsAssumption
  <2>4. \A q \in Payers : /\ IsInjective(clientDataSets[q])
                          /\ Range(clientDataSets[q]) = {e \in DataSetIds : Payer(e) = q}
    BY DEF DataSetInv, ListsNameDataSets
  <2>5. IsInjective(clientDataSets'[p])
          /\ Range(clientDataSets'[p]) = Range(clientDataSets[p]) \cup {d}
    <3>1. d \notin Range(clientDataSets[p])
      BY <2>3, <2>4
    <3>2. QED BY <1>1, <2>1, <2>2, <2>4, <3>1, AppendToList
  <2>6. Range(clientDataSets'[p]) = {e \in DataSetIds : Payer(e)' = p}
    BY <1>1, <1>9, <2>4, <2>5
  <2>7. \A q \in Payers : q # p =>
          {e \in DataSetIds : Payer(e)' = q} = {e \in DataSetIds : Payer(e) = q}
    BY <1>9, <2>3
  <2>8. ASSUME NEW q \in Payers
        PROVE  /\ IsInjective(clientDataSets'[q])
               /\ Range(clientDataSets'[q]) = {e \in DataSetIds : Payer(e)' = q}
    <3>1. CASE q = p
      BY <2>5, <2>6, <3>1
    <3>2. CASE q # p
      BY <2>2, <2>4, <2>7, <3>2
    <3>3. QED BY <3>1, <3>2
  <2>9. QED BY <2>8 DEF ListsNameDataSets, IsInjective, Range
<1>20. QED
  BY <1>10, <1>12, <1>13, <1>15, <1>16, <1>17, <1>18, <1>19 DEF DataSetInv, LinkInv

\* dataSetDeleted: a rail that could still pay would have kept the data set, since a
\* terminated rail is gone from FilecoinPay as soon as it is settled to its end.
LEMMA DataSetDeletedDataSets ==
  ASSUME IInv, DataSetInv, NEW d \in DataSetIds, DataSetDeleted(d)
  PROVE  DataSetInv'
<1> DEFINE r == dataSetInfo[d].pdpRailId
           list == clientDataSets[Payer(d)]
<1>1. /\ Live(d) /\ r \in RailIds /\ railToDataSet[r] = d /\ Payer(d) \in Payers
      /\ rails[r].status = "active" => rails[r].endEpoch = dataSetInfo[d].pdpEndEpoch
  BY DEF DataSetDeleted, DataSetInv, LinkInv, DataSetsHaveRails
<1>2. rails[r].status # "active"
  <2> SUFFICES ASSUME rails[r].status = "active" PROVE FALSE
    OBVIOUS
  <2>1. rails[r].settledUpTo >= rails[r].endEpoch /\ rails[r].endEpoch # NotEnded
    BY <1>1 DEF DataSetDeleted, FullySettled, PdpRail
  <2>2. rails[r].settledUpTo < rails[r].endEpoch
    BY <1>1, <2>1 DEF DataSetInv, TimeInv, SettledOnTime, OnTime
  <2>3. rails[r].settledUpTo \in Nat /\ rails[r].endEpoch \in Nat
    BY <1>1 DEF IInv, TypeOK, Rail
  <2>4. QED BY <2>1, <2>2, <2>3
<1>3. UNCHANGED <<blockNumber, pieceMetadata, scheduledPieceMetadataRemovals, rails, dryAt, nextIds>>
  BY DEF DataSetDeleted
<1>4. /\ \A e \in DataSetIds : e # d => pdp'[e] = pdp[e] /\ dataSetInfo'[e] = dataSetInfo[e]
      /\ pdp'[d].status = "deleted" /\ dataSetInfo'[d] = NoInfo
      /\ \A i \in RailIds : railToDataSet'[i] = IF i = r THEN NoDataSet ELSE railToDataSet[i]
      /\ \A e \in DataSetIds : withCDN'[e] = IF e = d THEN FALSE ELSE withCDN[e]
  BY DEF DataSetDeleted, IInv, TypeOK, VerifierDataSet
<1>5. /\ \A e \in DataSetIds : e # d => /\ Live(e)' = Live(e) /\ Payer(e)' = Payer(e)
                                        /\ CdnRails(e)' = CdnRails(e)
      /\ ~Live(d)' /\ Payer(d)' = NoPayer /\ CdnRails(d)' = {NoRailId}
  BY <1>4 DEF Live, Payer, CdnRails, NoInfo
<1>6. \A e \in DataSetIds : e # NoDataSet
  BY Constants DEF DataSetIds, NoDataSet, ConstantsAssumption
<1> HIDE DEF r
<1>7. FreshIds'
  <2>1. ~(d >= nextIds.dataSet)
    BY <1>1 DEF DataSetInv, LinkInv, FreshIds, Live
  <2>2. QED BY <1>3, <1>4, <2>1 DEF DataSetInv, LinkInv, FreshIds
<1>8. DataSetsHaveRails'
  <2>1. ASSUME NEW e \in DataSetIds, e # d, Live(e)
        PROVE  LET i == dataSetInfo[e].pdpRailId
               IN  /\ i \in RailIds /\ i < nextIds.rail
                   /\ Payer(e) \in Payers
                   /\ railToDataSet'[i] = e
                   /\ rails[i].status = "active" =>
                        rails[i].payer = Payer(e) /\ rails[i].endEpoch = dataSetInfo[e].pdpEndEpoch
    BY <1>1, <1>4, <2>1 DEF DataSetInv, LinkInv, DataSetsHaveRails
  <2>2. \A e \in DataSetIds : e # d /\ ~Live(e) => dataSetInfo[e] = NoInfo
    BY DEF DataSetInv, LinkInv, DataSetsHaveRails
  <2> SUFFICES ASSUME NEW e \in DataSetIds
               PROVE  LET i == dataSetInfo'[e].pdpRailId
                      IN  IF Live(e)'
                          THEN /\ i \in RailIds /\ i < nextIds.rail
                               /\ Payer(e)' \in Payers
                               /\ railToDataSet'[i] = e
                               /\ rails[i].status = "active" =>
                                    /\ rails[i].payer = Payer(e)'
                                    /\ rails[i].endEpoch = dataSetInfo'[e].pdpEndEpoch
                          ELSE dataSetInfo'[e] = NoInfo
    BY <1>3 DEF DataSetsHaveRails
  <2>3. CASE e = d
    BY <1>4, <1>5, <2>3
  <2>4. CASE e # d
    BY <1>4, <1>5, <2>1, <2>2, <2>4
  <2>5. QED BY <2>3, <2>4
<1>9. RailsHaveDataSets'
  <2> SUFFICES ASSUME NEW i \in RailIds
               PROVE  /\ railToDataSet'[i] # NoDataSet =>
                           /\ pdp'[railToDataSet'[i]].status = "live"
                           /\ dataSetInfo'[railToDataSet'[i]].pdpRailId = i
                      /\ rails[i].status = "active" /\ rails[i].rate > 0 =>
                           railToDataSet'[i] # NoDataSet
    BY <1>3 DEF RailsHaveDataSets, Live
  <2>1. CASE i = r
    BY <1>2, <1>4, <2>1
  <2>2. CASE i # r
    <3>1. railToDataSet'[i] = railToDataSet[i]
      BY <1>4, <2>2
    <3>2. railToDataSet[i] # NoDataSet =>
            /\ railToDataSet[i] \in DataSetIds /\ pdp[railToDataSet[i]].status = "live"
            /\ dataSetInfo[railToDataSet[i]].pdpRailId = i
      BY DEF DataSetInv, LinkInv, RailsHaveDataSets, Live, IInv, TypeOK
    <3>3. railToDataSet[i] # NoDataSet => railToDataSet[i] # d
      BY <2>2, <3>2 DEF r
    <3>4. rails[i].status = "active" /\ rails[i].rate > 0 => railToDataSet[i] # NoDataSet
      BY DEF DataSetInv, LinkInv, RailsHaveDataSets
    <3>5. QED BY <1>4, <3>1, <3>2, <3>3, <3>4
  <2>3. QED BY <2>1, <2>2
<1>10. CdnRailsApart'
  <2> SUFFICES ASSUME NEW e \in DataSetIds
               PROVE  /\ dataSetInfo'[e].cdnRailId = NoRailId
                           <=> dataSetInfo'[e].cacheMissRailId = NoRailId
                      /\ \A i \in CdnRails(e)' \ {NoRailId} :
                           /\ i \in RailIds /\ i < nextIds.rail
                           /\ railToDataSet'[i] = NoDataSet
                           /\ rails[i].status = "active" => rails[i].payer = Payer(e)'
    BY <1>3 DEF CdnRailsApart
  <2>1. CASE e = d
    BY <1>4, <1>5, <2>1 DEF NoInfo
  <2>2. CASE e # d
    BY <1>4, <1>5, <2>2 DEF DataSetInv, LinkInv, CdnRailsApart
  <2>3. QED BY <2>1, <2>2
<1>11. KeysHoldCdnRails'
  <2> SUFFICES ASSUME NEW e \in DataSetIds, NEW i \in CdnRails(e)' \ {NoRailId}, ~withCDN'[e]
               PROVE  ~IsRunning(rails[i])
    BY <1>3 DEF KeysHoldCdnRails, IsRunning
  <2>1. e # d
    BY <1>5
  <2>2. QED BY <1>4, <1>5, <2>1 DEF DataSetInv, KeysHoldCdnRails
<1>12. TimeInv'
  BY <1>3, UnchangedRailsOnTime DEF DataSetInv
<1>13. PiecesHaveMetadata'
  BY <1>3, <1>4 DEF DataSetInv, PiecesHaveMetadata
<1>14. ListsNameDataSets'
  <2>1. clientDataSets \in [Payers -> Seq(DataSetIds)] /\ list \in Seq(DataSetIds)
    BY <1>1 DEF IInv, TypeOK
  <2>2. \A q \in Payers : /\ IsInjective(clientDataSets[q])
                          /\ Range(clientDataSets[q]) = {e \in DataSetIds : Payer(e) = q}
    BY DEF DataSetInv, ListsNameDataSets
  <2> DEFINE entry == {i \in DOMAIN list : list[i] = d}
             k == Min(entry)
  <2>3. entry # {}
    <3>1. d \in Range(list)
      BY <1>1, <2>2
    <3>2. QED BY <3>1 DEF Range
  <2>4. k \in DOMAIN list /\ list[k] = d
    <3>1. entry \in SUBSET Nat
      BY <2>1, LenProperties
    <3>2. k \in entry
      <4> HIDE DEF entry
      <4> QED BY <2>3, <3>1, MinOfNaturals
    <3>3. QED BY <3>2
  <2>5. /\ clientDataSets'[Payer(d)] = SwapAndPop(list, k)
        /\ \A q \in Payers : q # Payer(d) => clientDataSets'[q] = clientDataSets[q]
    <3>1. clientDataSets' = [clientDataSets EXCEPT ![Payer(d)] =
                               IF \E i \in DOMAIN list : list[i] = d
                               THEN SwapAndPop(list, Min({i \in DOMAIN list : list[i] = d}))
                               ELSE list]
      BY DEF DataSetDeleted, Payer
    <3>2. \E i \in DOMAIN list : list[i] = d
      BY <2>3
    <3> HIDE DEF list
    <3>3. QED BY <1>1, <2>1, <3>1, <3>2
  <2> HIDE DEF entry, k
  <2>6. /\ IsInjective(SwapAndPop(list, k))
        /\ Range(SwapAndPop(list, k)) = {e \in DataSetIds : Payer(e) = Payer(d)} \ {d}
    <3>1. IsInjective(list) /\ Range(list) = {e \in DataSetIds : Payer(e) = Payer(d)}
      BY <1>1, <2>2
    <3> HIDE DEF list
    <3>2. QED BY <2>1, <2>4, <3>1, PopFromList
  <2>7. NoPayer \notin Payers
    BY Constants DEF ConstantsAssumption
  <2>8. ASSUME NEW q \in Payers
        PROVE  /\ IsInjective(clientDataSets'[q])
               /\ Range(clientDataSets'[q]) = {e \in DataSetIds : Payer(e)' = q}
    <3>1. \A e \in DataSetIds : Payer(e)' = IF e = d THEN NoPayer ELSE Payer(e)
      BY <1>5
    <3>2. CASE q = Payer(d)
      BY <2>5, <2>6, <2>7, <3>1, <3>2
    <3>3. CASE q # Payer(d)
      BY <2>2, <2>5, <2>7, <3>1, <3>3
    <3>4. QED BY <3>2, <3>3
  <2>9. QED BY <2>8 DEF ListsNameDataSets, IsInjective, Range
<1>15. QED
  BY <1>7, <1>8, <1>9, <1>10, <1>11, <1>12, <1>13, <1>14 DEF DataSetInv, LinkInv

-----------------------------------------------------------------------------
(* The invariant is inductive.                                             *)

\* Before the first call there is nothing.
LEMMA InitDataSetInv == Init => DataSetInv
<1> SUFFICES ASSUME Init PROVE DataSetInv
  OBVIOUS
<1> USE DEF Init, Live, Payer, CdnRails, NoInfo
<1>1. LinkInv
  <2>1. FreshIds
    BY DEF FreshIds, NoRail
  <2>2. DataSetsHaveRails
    BY DEF DataSetsHaveRails
  <2>3. RailsHaveDataSets
    BY DEF RailsHaveDataSets, NoRail
  <2>4. CdnRailsApart
    BY DEF CdnRailsApart
  <2>5. QED BY <2>1, <2>2, <2>3, <2>4 DEF LinkInv
<1>2. KeysHoldCdnRails
  BY DEF KeysHoldCdnRails
<1>3. TimeInv
  <2>1. blockNumber \in Nat
    BY InitIInv, BlockNumberType
  <2>2. QED BY <2>1 DEF TimeInv, SettledOnTime, OnTime, DryInThePast, NoRail, Solvency
<1>4. PiecesHaveMetadata
  BY DEF PiecesHaveMetadata
<1>5. ListsNameDataSets
  <2>1. NoPayer \notin Payers
    BY Constants DEF ConstantsAssumption
  <2>2. QED BY <2>1 DEF ListsNameDataSets, IsInjective, Range
<1>6. QED BY <1>1, <1>2, <1>3, <1>4, <1>5 DEF DataSetInv

\* Every step keeps it.
LEMMA NextDataSetInv ==
  ASSUME IInv, DataSetInv, [Next]_vars
  PROVE  DataSetInv'
<1>1. CASE PDPVerifierStep
  <2>1. ASSUME NEW p \in Payers, NEW n \in Nonces, NEW cdn \in CdnOptions,
               DataSetCreated(p, n, cdn)
        PROVE  DataSetInv'
    <3>1. cdn \in BOOLEAN
      BY Constants DEF ConstantsAssumption
    <3>2. QED BY <2>1, <3>1, DataSetCreatedDataSets
  <2>2. ASSUME NEW d \in DataSetIds, DataSetDeleted(d)
        PROVE  DataSetInv'
    BY <2>2, DataSetDeletedDataSets
  <2>3. ASSUME NEW d \in DataSetIds, NEW count \in 1 .. MaxPieces, NEW n \in Nonces,
               PiecesAdded(d, count, n)
        PROVE  DataSetInv'
    BY <2>3, PiecesAddedDataSets
  <2>4. ASSUME NEW d \in DataSetIds, NEW s \in SUBSET RemovablePieces,
               PiecesScheduledRemove(d, s)
        PROVE  DataSetInv'
    BY <2>4, PiecesScheduledRemoveDataSets, Constants DEF ConstantsAssumption
  <2>5. ASSUME NEW d \in DataSetIds, PossessionProven(d)
        PROVE  DataSetInv'
    BY <2>5, OtherStepsDataSets DEF PossessionProven
  <2>6. ASSUME NEW d \in DataSetIds, NextProvingPeriod(d)
        PROVE  DataSetInv'
    BY <2>6, NextProvingPeriodDataSets
  <2>7. QED BY <1>1, <2>1, <2>2, <2>3, <2>4, <2>5, <2>6 DEF PDPVerifierStep
<1>2. CASE ServiceStep
  <2>1. ASSUME NEW d \in DataSetIds, TerminateService(d) \/ TerminateCDNService(d)
        PROVE  DataSetInv'
    BY <2>1, TerminateServiceDataSets, TerminateCDNServiceDataSets
  <2>2. ASSUME NEW d \in DataSetIds, NEW a \in CdnAmounts, NEW b \in CdnAmounts,
               SettleFilBeamPaymentRails(d, a, b) \/ TopUpCDNPaymentRails(d, a, b)
        PROVE  DataSetInv'
    BY <2>2, SettleFilBeamDataSets, TopUpDataSets
  <2>3. ASSUME NEW price \in StoragePrices, NEW rate \in MinimumRates,
               UpdatePricing(price, rate)
        PROVE  DataSetInv'
    BY <2>3, OtherStepsDataSets DEF UpdatePricing
  <2>4. ASSUME NEW config \in ProvingConfigs, ConfigureProvingPeriod(config)
        PROVE  DataSetInv'
    BY <2>4, OtherStepsDataSets DEF ConfigureProvingPeriod
  <2>5. QED BY <1>2, <2>1, <2>2, <2>3, <2>4 DEF ServiceStep
<1>3. CASE FilecoinPayStep
  <2>1. ASSUME NEW r \in RailIds, NEW e \in Epochs, SettleRail(r, e)
        PROVE  DataSetInv'
    <3>1. e \in Nat
      BY Constants DEF Epochs, ConstantsAssumption
    <3>2. QED BY <2>1, <3>1, SettleRailDataSets
  <2>2. ASSUME NEW r \in RailIds, PayerTerminatesRail(r)
        PROVE  DataSetInv'
    BY <2>2, PayerTerminatesRailDataSets
  <2>3. ASSUME NEW d \in DataSetIds, SettleTerminatedRailWithoutValidation(d)
        PROVE  DataSetInv'
    BY <2>3, SettleWithoutValidationDataSets
  <2>4. ASSUME NEW p \in DryPayers, RunDry(p) \/ Deposit(p)
        PROVE  DataSetInv'
    BY <2>4, FundsDataSets, Constants DEF ConstantsAssumption
  <2>5. QED BY <1>3, <2>1, <2>2, <2>3, <2>4 DEF FilecoinPayStep
<1>4. CASE NewEpoch
  BY <1>4, NewEpochDataSets
<1>5. CASE UNCHANGED vars
  BY <1>5, OtherStepsDataSets DEF vars
<1>6. QED BY <1>1, <1>2, <1>3, <1>4, <1>5 DEF Next

LEMMA DataSetInvHolds == Spec => [](IInv /\ DataSetInv)
<1>1. Init => IInv /\ DataSetInv
  BY InitIInv, InitDataSetInv
<1>2. IInv /\ DataSetInv /\ [Next]_vars => (IInv /\ DataSetInv)'
  BY NextIInv, NextDataSetInv
<1>3. QED BY <1>1, <1>2, PTL DEF Spec

-----------------------------------------------------------------------------
(* The theorems.                                                           *)

\* A rail that still pays never loses the data set that arbitrates it, whoever
\* terminates, settles and deletes in which order: the client is never left with a
\* rail whose settlement reverts for good.
THEOREM PayingRailsStayArbitrated == Spec => []PayingRailsKeepTheirDataSet
<1>1. IInv /\ DataSetInv => PayingRailsKeepTheirDataSet
  <2> SUFFICES ASSUME IInv, DataSetInv,
                      NEW r \in RailIds, rails[r].status = "active", rails[r].rate > 0
               PROVE  LET d == railToDataSet[r]
                      IN  /\ d # NoDataSet
                          /\ Live(d)
                          /\ dataSetInfo[d].pdpRailId = r
                          /\ dataSetInfo[d].payer = rails[r].payer
                          /\ dataSetInfo[d].pdpEndEpoch = rails[r].endEpoch
    BY DEF PayingRailsKeepTheirDataSet
  <2> DEFINE d == railToDataSet[r]
  <2>1. d # NoDataSet /\ Live(d) /\ dataSetInfo[d].pdpRailId = r
    BY DEF DataSetInv, LinkInv, RailsHaveDataSets
  <2>2. d \in DataSetIds
    BY <2>1 DEF IInv, TypeOK
  <2> HIDE DEF d
  <2>3. dataSetInfo[d].payer = rails[r].payer /\ dataSetInfo[d].pdpEndEpoch = rails[r].endEpoch
    BY <2>1, <2>2 DEF DataSetInv, LinkInv, DataSetsHaveRails, Payer
  <2>4. QED BY <2>1, <2>3 DEF d
<1>2. QED BY <1>1, DataSetInvHolds, PTL

\* Data sets, pieces, metadata and clients' lists are those of PDPVerifier, however many
\* data sets each client has and in whatever order they go.
THEOREM RegistersAgree == Spec => []RegistersAgreeWithVerifier
<1>1. IInv /\ DataSetInv => RegistersAgreeWithVerifier
  <2> SUFFICES ASSUME IInv, DataSetInv PROVE RegistersAgreeWithVerifier
    OBVIOUS
  <2>1. ASSUME NEW d \in DataSetIds
        PROVE  /\ Live(d) <=> dataSetInfo[d].pdpRailId # NoRailId
               /\ Live(d) => /\ railToDataSet[dataSetInfo[d].pdpRailId] = d
                             /\ pieceMetadata[d] = pdp[d].pieces
                             /\ scheduledPieceMetadataRemovals[d] = pdp[d].removals
    <3>1. NoRailId \notin RailIds
      BY DEF RailIds, NoRailId
    <3>2. Live(d) => pdp[d].status # "deleted"
      BY DEF Live
    <3>3. QED
      BY <3>1, <3>2
         DEF DataSetInv, LinkInv, DataSetsHaveRails, PiecesHaveMetadata, NoInfo
  <2>2. QED BY <2>1 DEF RegistersAgreeWithVerifier, DataSetInv, ListsNameDataSets
<1>2. QED BY <1>1, DataSetInvHolds, PTL

\* No CDN rail is left running at a client's expense once the withCDN key is gone,
\* however many lockups and terminations went before.
THEOREM CdnRailsEndWithTheirKey == Spec => []NoCdnRailOutlivesItsKey
<1>1. DataSetInv => NoCdnRailOutlivesItsKey
  BY DEF DataSetInv, LinkInv, CdnRailsApart, KeysHoldCdnRails, CdnRails, NoCdnRailOutlivesItsKey
<1>2. QED BY <1>1, DataSetInvHolds, PTL

-----------------------------------------------------------------------------
(* What a terminated data set is charged only falls.                       *)

PiecesShrink(d) == pdp'[d].pieces \subseteq pdp[d].pieces
RateFalls(d)    == rails'[dataSetInfo[d].pdpRailId].rate <= PdpRail(d).rate
OnlyShrinks(d)  == PiecesShrink(d) /\ RateFalls(d)

\* A data set whose rail was terminated is there, and its rail knows of the end.
LEMMA TerminatedDataSet ==
  ASSUME IInv, DataSetInv, NEW d \in DataSetIds, dataSetInfo[d].pdpEndEpoch # NotEnded
  PROVE  /\ Live(d) /\ dataSetInfo[d].pdpRailId \in RailIds
         /\ dataSetInfo[d].pdpRailId < nextIds.rail
         /\ railToDataSet[dataSetInfo[d].pdpRailId] = d
         /\ PdpRail(d) \in Rail
         /\ PdpRail(d).rate \in Nat
         /\ PdpRail(d).status = "active" => PdpRail(d).endEpoch # NotEnded
<1>1. Live(d)
  BY DEF DataSetInv, LinkInv, DataSetsHaveRails, NoInfo
<1>2. QED BY <1>1 DEF DataSetInv, LinkInv, DataSetsHaveRails, PdpRail, IInv, TypeOK, Rail

\* updatePaymentRates on any data set.
LEMMA UpdatePaymentRatesFalls ==
  ASSUME IInv, DataSetInv, NEW d \in DataSetIds, dataSetInfo[d].pdpEndEpoch # NotEnded,
         NEW e \in DataSetIds, Live(e), NEW pieceCount \in Nat, UpdatePaymentRates(e, pieceCount)
  PROVE  RateFalls(d)
<1> DEFINE r    == dataSetInfo[d].pdpRailId
           i    == dataSetInfo[e].pdpRailId
           rate == StorageRate(pieceCount)
<1>1. /\ r \in RailIds /\ railToDataSet[r] = d /\ rails[r] \in Rail /\ rails[r].rate \in Nat
      /\ rails[r].status = "active" => rails[r].endEpoch # NotEnded
  BY TerminatedDataSet DEF PdpRail
<1>2. i \in RailIds /\ railToDataSet[i] = e
  BY DEF DataSetInv, LinkInv, DataSetsHaveRails
<1>3. /\ CanSetRate(rails[i], rate, blockNumber, dryAt[Payer(e)] = Solvency)
      /\ rails' = [rails EXCEPT ![i] = SetRate(rails[i], rate, blockNumber)]
  BY DEF UpdatePaymentRates
<1>4. rate \in Nat /\ blockNumber \in Nat
  BY StorageRateType, BlockNumberType
<1>5. rails \in [RailIds -> Rail]
  BY DEF IInv, TypeOK
<1> HIDE DEF rate
<1>6. CASE d = e
  <2>1. SetRate(rails[r], rate, blockNumber).rate = rate
    BY <1>1, <1>4, SetRateEffect
  <2>2. rate <= rails[r].rate
    BY <1>1, <1>3, <1>6 DEF CanSetRate
  <2>3. rails'[r] = SetRate(rails[r], rate, blockNumber)
    BY <1>1, <1>3, <1>5, <1>6
  <2>4. QED BY <2>1, <2>2, <2>3 DEF RateFalls, PdpRail
<1>7. CASE d # e
  <2>1. rails'[r] = rails[r]
    BY <1>1, <1>2, <1>3, <1>5, <1>7
  <2>2. QED BY <1>1, <2>1 DEF RateFalls, PdpRail
<1>8. QED BY <1>6, <1>7

\* Nothing happens to the rail.
LEMMA UnchangedRateFalls ==
  ASSUME IInv, DataSetInv, NEW d \in DataSetIds, dataSetInfo[d].pdpEndEpoch # NotEnded,
         rails'[dataSetInfo[d].pdpRailId].rate = PdpRail(d).rate
  PROVE  RateFalls(d)
BY TerminatedDataSet DEF RateFalls

\* The callbacks of PDPVerifier.
LEMMA PDPVerifierOnlyShrinks ==
  ASSUME IInv, DataSetInv, PDPVerifierStep,
         NEW d \in DataSetIds, dataSetInfo[d].pdpEndEpoch # NotEnded
  PROVE  OnlyShrinks(d)
<1> DEFINE r == dataSetInfo[d].pdpRailId
<1>0. /\ Live(d) /\ r \in RailIds /\ r < nextIds.rail
      /\ pdp \in [DataSetIds -> VerifierDataSet] /\ rails \in [RailIds -> Rail]
  BY TerminatedDataSet DEF IInv, TypeOK
<1>1. ASSUME NEW p \in Payers, NEW n \in Nonces, NEW cdn \in CdnOptions, DataSetCreated(p, n, cdn)
      PROVE  OnlyShrinks(d)
  <2>1. nextIds.rail \in Nat /\ r \in Nat
    BY <1>0 DEF RailIds, IInv, TypeOK
  <2>2. r # nextIds.rail /\ r # nextIds.rail + 1 /\ r # nextIds.rail + 2
    BY <1>0, <2>1
  <2>3. rails'[r] = rails[r]
    BY <1>0, <1>1, <2>2 DEF DataSetCreated
  <2>4. pdp'[d].pieces = pdp[d].pieces
    BY <1>0, <1>1 DEF DataSetCreated, VerifierDataSet
  <2>5. QED BY <2>3, <2>4, UnchangedRateFalls DEF OnlyShrinks, PiecesShrink, PdpRail
<1>2. ASSUME NEW e \in DataSetIds, DataSetDeleted(e) PROVE OnlyShrinks(d)
  <2>1. rails' = rails
    BY <1>2 DEF DataSetDeleted
  <2>2. pdp'[d].pieces \subseteq pdp[d].pieces
    BY <1>0, <1>2 DEF DataSetDeleted, VerifierDataSet
  <2>3. QED BY <2>1, <2>2, UnchangedRateFalls DEF OnlyShrinks, PiecesShrink, PdpRail
<1>3. ASSUME NEW e \in DataSetIds, NEW count \in 1 .. MaxPieces, NEW n \in Nonces,
             PiecesAdded(e, count, n)
      PROVE  OnlyShrinks(d)
  <2>1. e # d /\ Live(e)
    BY <1>3 DEF PiecesAdded, PaymentNotTerminated
  <2>2. pdp'[d].pieces = pdp[d].pieces
    BY <1>0, <1>3, <2>1 DEF PiecesAdded
  <2> DEFINE pieces == pdp[e].pieces \cup
                         (pdp[e].nextPieceId .. pdp[e].nextPieceId + count - 1)
  <2>3. pieces \in SUBSET PieceIds
    BY <1>0, <1>3 DEF PiecesAdded, VerifierDataSet
  <2>4. UpdatePaymentRates(e, Cardinality(pieces))
    BY <1>3 DEF PiecesAdded
  <2> HIDE DEF pieces
  <2>5. RateFalls(d)
    BY <2>1, <2>3, <2>4, PieceCountType, UpdatePaymentRatesFalls
  <2>6. QED BY <2>2, <2>5 DEF OnlyShrinks, PiecesShrink
<1>4. ASSUME NEW e \in DataSetIds, NEW s \in SUBSET RemovablePieces, PiecesScheduledRemove(e, s)
      PROVE  OnlyShrinks(d)
  <2>1. rails' = rails
    BY <1>4 DEF PiecesScheduledRemove
  <2>2. pdp'[d].pieces = pdp[d].pieces
    BY <1>0, <1>4 DEF PiecesScheduledRemove, VerifierDataSet
  <2>3. QED BY <2>1, <2>2, UnchangedRateFalls DEF OnlyShrinks, PiecesShrink, PdpRail
<1>5. ASSUME NEW e \in DataSetIds, PossessionProven(e) PROVE OnlyShrinks(d)
  <2>1. rails' = rails /\ pdp' = pdp
    BY <1>5 DEF PossessionProven, external
  <2>2. QED BY <2>1, UnchangedRateFalls DEF OnlyShrinks, PiecesShrink, PdpRail
<1>6. ASSUME NEW e \in DataSetIds, NextProvingPeriod(e) PROVE OnlyShrinks(d)
  <2>1. PICK c \in ChallengeEpochs : StartProving(e, c) \/ AdvanceProvingPeriod(e, c)
    BY <1>6 DEF NextProvingPeriod
  <2>2. /\ Live(e)
        /\ ProcessScheduledRemovals(e, Cardinality(PiecesAfterRemovals(e)))
        /\ ProvingSetUpdated(e, c)
    BY <2>1 DEF StartProving, AdvanceProvingPeriod
  <2>3. pdp'[d].pieces \subseteq pdp[d].pieces
    BY <1>0, <2>2 DEF ProvingSetUpdated, PiecesAfterRemovals, VerifierDataSet
  <2>4. Cardinality(PiecesAfterRemovals(e)) \in Nat
    BY PiecesLeftType
  <2>5. CASE UNCHANGED rails
    BY <2>3, <2>5, UnchangedRateFalls DEF OnlyShrinks, PiecesShrink, PdpRail
  <2>6. CASE UpdatePaymentRates(e, Cardinality(PiecesAfterRemovals(e)))
    BY <2>2, <2>3, <2>4, <2>6, UpdatePaymentRatesFalls DEF OnlyShrinks, PiecesShrink
  <2>7. QED BY <2>2, <2>5, <2>6 DEF ProcessScheduledRemovals
<1>7. QED BY <1>1, <1>2, <1>3, <1>4, <1>5, <1>6 DEF PDPVerifierStep

\* Every other step leaves the pieces alone; terminations, lockups and settlements keep a
\* rail's rate or finalize the rail.
LEMMA OthersOnlyShrink ==
  ASSUME IInv, DataSetInv, ServiceStep \/ FilecoinPayStep \/ NewEpoch,
         NEW d \in DataSetIds, dataSetInfo[d].pdpEndEpoch # NotEnded
  PROVE  OnlyShrinks(d)
<1> DEFINE r == dataSetInfo[d].pdpRailId
<1>0. r \in RailIds /\ rails \in [RailIds -> Rail] /\ rails[r] \in Rail /\ rails[r].rate \in Nat
  BY TerminatedDataSet DEF IInv, TypeOK, PdpRail
<1> SUFFICES pdp' = pdp /\ (rails'[r].rate = rails[r].rate \/ rails'[r].rate = 0)
  BY <1>0 DEF OnlyShrinks, PiecesShrink, RateFalls, PdpRail
<1>1. ASSUME NEW e \in DataSetIds, TerminateService(e) \/ TerminateCDNService(e)
      PROVE  pdp' = pdp /\ rails'[r].rate = rails[r].rate
  <2>1. PICK rs : rails' = TerminateRunning(rs, dataSetInfo[e].payer)
    BY <1>1 DEF TerminateService, TerminateCDNService
  <2>2. dataSetInfo[e].payer \in Payers
    BY <1>1 DEF TerminateService, MayTerminateService, TerminateCDNService, IInv, PayersKnown
  <2>3. LockupLastSettledAt(dataSetInfo[e].payer) \in Nat
    BY <2>2, LockupLastSettledAtType
  <2>4. \/ rails'[r] = rails[r]
        \/ rails'[r] = Terminate(rails[r], LockupLastSettledAt(dataSetInfo[e].payer))
    BY <1>0, <2>1 DEF TerminateRunning
  <2>5. rails'[r].rate = rails[r].rate
    BY <1>0, <2>3, <2>4, TerminateEffect
  <2>6. QED BY <1>1, <2>5 DEF TerminateService, TerminateCDNService
<1>2. ASSUME NEW e \in DataSetIds, NEW a \in CdnAmounts, NEW b \in CdnAmounts,
             SettleFilBeamPaymentRails(e, a, b) \/ TopUpCDNPaymentRails(e, a, b)
      PROVE  pdp' = pdp /\ rails'[r].rate = rails[r].rate
  <2>1. a \in Nat /\ b \in Nat
    BY Constants DEF ConstantsAssumption
  <2>2. rails'[r] \in {PayOnce(rails[r], a), PayOnce(rails[r], b), RaiseLockup(rails[r], a),
                       RaiseLockup(rails[r], b), rails[r]}
    BY <1>0, <1>2 DEF SettleFilBeamPaymentRails, TopUpCDNPaymentRails
  <2>3. QED BY <1>0, <1>2, <2>1, <2>2, LockupEffect
            DEF SettleFilBeamPaymentRails, TopUpCDNPaymentRails
<1>3. ASSUME NEW i \in RailIds, NEW e \in Epochs, SettleRail(i, e)
      PROVE  pdp' = pdp /\ (rails'[r].rate = rails[r].rate \/ rails'[r].rate = 0)
  <2>1. PICK target, outcomes :
          rails' = [rails EXCEPT ![i] = Settled(rails[i], target, outcomes)]
    BY <1>3 DEF SettleRail
  <2>2. \/ Settled(rails[i], target, outcomes).rate = rails[i].rate
        \/ Settled(rails[i], target, outcomes).rate = 0
    <3>1. \/ Settled(rails[i], target, outcomes) = FinalizedRail
          \/ \E upTo, left : Settled(rails[i], target, outcomes)
               = [rails[i] EXCEPT !.settledUpTo = upTo, !.rateChangeQueue = left]
      BY Zenon DEF Settled
    <3>2. FinalizedRail.rate = 0 /\ rails[i] \in Rail
      BY <1>0 DEF FinalizedRail, NoRail
    <3>3. QED BY <3>1, <3>2 DEF Rail
  <2>3. QED BY <1>0, <1>3, <2>1, <2>2 DEF SettleRail
<1>4. ASSUME NEW i \in RailIds, PayerTerminatesRail(i)
      PROVE  pdp' = pdp /\ rails'[r].rate = rails[r].rate
  <2>1. rails'[r] = rails[r] \/ rails'[r] = Terminate(rails[r], blockNumber)
    BY <1>0, <1>4 DEF PayerTerminatesRail
  <2>2. QED BY <1>0, <1>4, <2>1, BlockNumberType, TerminateEffect DEF PayerTerminatesRail
<1>5. ASSUME NEW e \in DataSetIds, SettleTerminatedRailWithoutValidation(e)
      PROVE  pdp' = pdp /\ (rails'[r].rate = rails[r].rate \/ rails'[r].rate = 0)
  BY <1>0, <1>5 DEF SettleTerminatedRailWithoutValidation, FinalizedRail, NoRail
<1>6. ASSUME NEW p \in DryPayers, RunDry(p) \/ Deposit(p)
      PROVE  pdp' = pdp /\ rails' = rails
  BY <1>6 DEF RunDry, Deposit
<1>7. ASSUME NEW price \in StoragePrices, NEW rate \in MinimumRates, UpdatePricing(price, rate)
      PROVE  pdp' = pdp /\ rails' = rails
  BY <1>7 DEF UpdatePricing, external
<1>8. ASSUME NEW config \in ProvingConfigs, ConfigureProvingPeriod(config)
      PROVE  pdp' = pdp /\ rails' = rails
  BY <1>8 DEF ConfigureProvingPeriod, external
<1>9. CASE NewEpoch
  BY <1>9 DEF NewEpoch, external
<1>10. CASE ServiceStep
  BY <1>1, <1>2, <1>7, <1>8, <1>10 DEF ServiceStep
<1>11. CASE FilecoinPayStep
  BY <1>3, <1>4, <1>5, <1>6, <1>11 DEF FilecoinPayStep
<1>12. QED BY <1>9, <1>10, <1>11

\* No step moves the end of a data set; one that is past ends with the data set.
KeepsItsEnd(d) ==
  \/ dataSetInfo'[d].pdpEndEpoch = dataSetInfo[d].pdpEndEpoch
  \/ dataSetInfo'[d] = NoInfo /\ dataSetInfo[d].pdpEndEpoch < blockNumber

LEMMA EndOfDataSetStays ==
  ASSUME IInv, DataSetInv, Next, NEW d \in DataSetIds, dataSetInfo[d].pdpEndEpoch # NotEnded
  PROVE  KeepsItsEnd(d)
<1>0. Live(d) /\ dataSetInfo \in [DataSetIds -> DataSetInfo]
  BY TerminatedDataSet DEF IInv, TypeOK
<1>1. ASSUME NEW p \in Payers, NEW n \in Nonces, NEW cdn \in CdnOptions, DataSetCreated(p, n, cdn)
      PROVE  KeepsItsEnd(d)
  <2>1. d # nextIds.dataSet
    <3>1. ~(d >= nextIds.dataSet)
      BY <1>0 DEF Live, DataSetInv, LinkInv, FreshIds
    <3>2. nextIds.dataSet \in Nat /\ d \in Nat
      BY DEF IInv, TypeOK, DataSetIds
    <3>3. QED BY <3>1, <3>2
  <2>2. \E info : dataSetInfo' = [dataSetInfo EXCEPT ![nextIds.dataSet] = info]
    BY <1>1 DEF DataSetCreated
  <2>3. dataSetInfo'[d] = dataSetInfo[d]
    BY <1>0, <2>1, <2>2
  <2>4. QED BY <2>3 DEF KeepsItsEnd
<1>2. ASSUME NEW e \in DataSetIds, DataSetDeleted(e)
      PROVE  KeepsItsEnd(d)
  <2>1. dataSetInfo' = [dataSetInfo EXCEPT ![e] = NoInfo] /\ dataSetInfo[e].pdpEndEpoch < blockNumber
    BY <1>2 DEF DataSetDeleted
  <2>2. CASE e = d
    BY <1>0, <2>1, <2>2 DEF KeepsItsEnd
  <2>3. CASE e # d
    BY <1>0, <2>1, <2>3 DEF KeepsItsEnd
  <2>4. QED BY <2>2, <2>3
<1>3. ASSUME NEW e \in DataSetIds, TerminateService(e)
      PROVE  KeepsItsEnd(d)
  <2>1. dataSetInfo[e].pdpRailId # NoRailId /\ dataSetInfo[e].pdpEndEpoch = NotEnded
    BY <1>3 DEF TerminateService, MayTerminateService
  <2>2. railToDataSet[dataSetInfo[e].pdpRailId] = e
    BY <2>1 DEF DataSetInv, LinkInv, DataSetsHaveRails, NoInfo
  <2>3. e # d
    BY <2>1
  <2>4. \E end : dataSetInfo' = [dataSetInfo EXCEPT ![e].pdpEndEpoch = end]
    BY <1>3, <2>2 DEF TerminateService
  <2>5. dataSetInfo'[d] = dataSetInfo[d]
    BY <1>0, <2>3, <2>4
  <2>6. QED BY <2>5 DEF KeepsItsEnd
<1>4. CASE UNCHANGED dataSetInfo
  BY <1>4 DEF KeepsItsEnd
<1>5. CASE PDPVerifierStep
  <2>1. ASSUME NEW e \in DataSetIds, NEW count \in 1 .. MaxPieces, NEW n \in Nonces,
               PiecesAdded(e, count, n)
        PROVE  UNCHANGED dataSetInfo
    BY <2>1 DEF PiecesAdded
  <2>2. ASSUME NEW e \in DataSetIds, NEW s \in SUBSET RemovablePieces, PiecesScheduledRemove(e, s)
        PROVE  UNCHANGED dataSetInfo
    BY <2>2 DEF PiecesScheduledRemove, registers
  <2>3. ASSUME NEW e \in DataSetIds, PossessionProven(e)
        PROVE  UNCHANGED dataSetInfo
    BY <2>3 DEF PossessionProven, registers
  <2>4. ASSUME NEW e \in DataSetIds, NextProvingPeriod(e)
        PROVE  UNCHANGED dataSetInfo
    BY <2>4 DEF NextProvingPeriod, StartProving, AdvanceProvingPeriod, registers
  <2>5. QED BY <1>1, <1>2, <1>4, <1>5, <2>1, <2>2, <2>3, <2>4 DEF PDPVerifierStep
<1>6. CASE ServiceStep
  <2>1. ASSUME NEW e \in DataSetIds, TerminateCDNService(e)
        PROVE  UNCHANGED dataSetInfo
    BY <2>1 DEF TerminateCDNService, registers
  <2>2. ASSUME NEW e \in DataSetIds, NEW a \in CdnAmounts, NEW b \in CdnAmounts,
               SettleFilBeamPaymentRails(e, a, b) \/ TopUpCDNPaymentRails(e, a, b)
        PROVE  UNCHANGED dataSetInfo
    BY <2>2 DEF SettleFilBeamPaymentRails, TopUpCDNPaymentRails, registers
  <2>3. ASSUME NEW price \in StoragePrices, NEW rate \in MinimumRates, UpdatePricing(price, rate)
        PROVE  UNCHANGED dataSetInfo
    BY <2>3 DEF UpdatePricing, registers
  <2>4. ASSUME NEW config \in ProvingConfigs, ConfigureProvingPeriod(config)
        PROVE  UNCHANGED dataSetInfo
    BY <2>4 DEF ConfigureProvingPeriod, registers
  <2>5. QED BY <1>3, <1>4, <1>6, <2>1, <2>2, <2>3, <2>4 DEF ServiceStep
<1>7. CASE FilecoinPayStep \/ NewEpoch
  <2>1. UNCHANGED registers
    BY <1>7 DEF FilecoinPayStep, NewEpoch, SettleRail, PayerTerminatesRail,
                SettleTerminatedRailWithoutValidation, RunDry, Deposit
  <2>2. QED BY <1>4, <2>1 DEF registers
<1>8. QED BY <1>5, <1>6, <1>7 DEF Next

\* Once a service is terminated its data set takes no pieces, its rail no higher rate and
\* its end no other epoch, whatever the owner does to the prices and the other party to
\* the data set.
THEOREM TerminatedDataSetsShrink == Spec => TerminatedDataSetsOnlyShrink
<1> DEFINE Shrinking == \A d \in DataSetIds :
             dataSetInfo[d].pdpEndEpoch # NotEnded =>
               /\ pdp'[d].pieces \subseteq pdp[d].pieces
               /\ rails'[dataSetInfo[d].pdpRailId].rate <= PdpRail(d).rate
               /\ \/ dataSetInfo'[d].pdpEndEpoch = dataSetInfo[d].pdpEndEpoch
                  \/ dataSetInfo'[d] = NoInfo /\ dataSetInfo[d].pdpEndEpoch < blockNumber
<1>1. IInv /\ DataSetInv /\ [Next]_vars => [Shrinking]_vars
  <2> SUFFICES ASSUME IInv, DataSetInv, Next, NEW d \in DataSetIds,
                      dataSetInfo[d].pdpEndEpoch # NotEnded
               PROVE  OnlyShrinks(d) /\ KeepsItsEnd(d)
    BY DEF OnlyShrinks, PiecesShrink, RateFalls, KeepsItsEnd
  <2>1. OnlyShrinks(d)
    BY PDPVerifierOnlyShrinks, OthersOnlyShrink DEF Next
  <2>2. QED BY <2>1, EndOfDataSetStays
<1>2. QED BY <1>1, DataSetInvHolds, PTL DEF Spec, TerminatedDataSetsOnlyShrink
-----------------------------------------------------------------------------
(* Settlement gets to the end.                                             *)

\* _findProvenEpochs settles a whole range once every deadline of a period that meets
\* it has passed, proven or not.
LEMMA ResolvedRangeIsSettled ==
  ASSUME NEW proven \in SUBSET Nat, NEW from \in Nat, NEW to \in Nat, from < to,
         NEW A \in Nat \ {0}, NEW M \in Nat \ {0}, NEW now \in Nat, A < to, to + M < now
  PROVE  LET found == FindProvenEpochs(proven, from, to, A, M, now)
         IN  found.ok /\ found.settleUpTo = to
<1> DEFINE start    == Max({from, A})
           deadline(p) == CalcPeriodDeadline(A, p, M)
           first    == ProvingPeriodForEpoch(A, start + 1, M)
           final    == ProvingPeriodForEpoch(A, to, M)
           resolved == {p \in first .. final : p \in proven \/ DeadlinePassed(deadline(p), now)}
           reached  == {start} \cup {Min({to, deadline(p)}) : p \in resolved}
           found    == FindProvenEpochs(proven, from, to, A, M, now)
<1>1. found.ok /\ found.settleUpTo = Max(reached)
  <2>1. to > A /\ to <= now
    OBVIOUS
  <2>2. QED BY <2>1 DEF FindProvenEpochs
<1>2. start \in Nat /\ A <= start /\ start < to
  BY MaxOfTwo
<1>3. to \in reached
  <2>1. /\ final = (to - A - 1) \div M /\ final \in Nat
        /\ M * final <= to - A - 1 /\ to - A - 1 < M * final + M
    <3>1. to - A - 1 \in Nat
      OBVIOUS
    <3>2. final = (to - A - 1) \div M
      BY DEF ProvingPeriodForEpoch, NeverActivated
    <3>3. QED BY <3>1, <3>2, DivisionBounds
  <2>2. deadline(final) = A + (final + 1) * M /\ (final + 1) * M = M * final + M
    BY <2>1 DEF CalcPeriodDeadline
  <2>3. deadline(final) \in Nat /\ to <= deadline(final) /\ deadline(final) < now
    <3> HIDE DEF final, deadline
    <3>1. M * final \in Int
      BY <2>1
    <3>2. QED BY <2>1, <2>2, <3>1
  <2>4. first \in Nat /\ first <= final
    <3>1. first = (start - A) \div M
      <4>1. start + 1 > A /\ start + 1 - A - 1 = start - A
        BY <1>2
      <4>2. start \in Int
        BY <1>2
      <4> HIDE DEF start
      <4>3. QED BY <4>1, <4>2 DEF ProvingPeriodForEpoch, NeverActivated
    <3> HIDE DEF start, first, final
    <3>2. start - A \in Nat
      BY <1>2
    <3>3. first \in Nat /\ M * first <= start - A
      BY <3>1, <3>2, DivisionBounds
    <3>4. M * first < M * final + M
      BY <1>2, <2>1, <3>2, <3>3
    <3>5. first < final + 1
      <4>1. final + 1 \in Nat /\ M * (final + 1) = M * final + M
        BY <2>1
      <4>2. final + 1 <= first <=> M * (final + 1) <= M * first
        BY <3>3, <4>1, MultiplesInOrder
      <4>3. M * first \in Nat /\ M * final \in Nat
        BY <2>1, <3>3
      <4>4. QED BY <2>1, <3>3, <3>4, <4>1, <4>2, <4>3
    <3>6. QED BY <2>1, <3>3, <3>5
  <2>5. final \in resolved
    <3>1. final \in first .. final
      <4> HIDE DEF first, final
      <4> QED BY <2>1, <2>4
    <3>2. DeadlinePassed(deadline(final), now)
      BY <2>3 DEF DeadlinePassed
    <3>3. QED BY <3>1, <3>2
  <2>6. Min({to, deadline(final)}) = to
    <3> HIDE DEF deadline
    <3> QED BY <2>3, MinOfTwo
  <2>7. QED
    <3> HIDE DEF resolved, final, start, deadline
    <3> QED BY <2>5, <2>6
<1>4. found.settleUpTo \in from .. to
  BY <1>1, FindProvenEpochsBounds
<1>5. Max(reached) >= to
  <2>1. ASSUME NEW x \in reached PROVE x \in Int /\ x <= to
    <3>1. CASE x = start
      BY <1>2, <3>1
    <3>2. CASE x # start
      <4>1. PICK p \in resolved : x = Min({to, deadline(p)})
        <5> HIDE DEF resolved, start, deadline
        <5> QED BY <3>2
      <4>2. p \in Int
        BY <4>1
      <4>3. deadline(p) \in Int
        BY <4>2 DEF CalcPeriodDeadline
      <4>4. x = IF to <= deadline(p) THEN to ELSE deadline(p)
        <5> HIDE DEF deadline
        <5> QED BY <4>1, <4>3, MinOfTwo
      <4> HIDE DEF deadline, resolved, start
      <4>5. QED BY <4>3, <4>4
    <3>3. QED BY <3>1, <3>2
  <2> HIDE DEF reached
  <2>2. reached \in SUBSET Int /\ \A x \in reached : x <= to
    BY <2>1
  <2>3. reached # {} /\ to \in Int
    BY <1>3
  <2>4. \A x \in reached : Max(reached) >= x
    BY <2>2, <2>3, MaxOfBoundedSet, Zenon
  <2>5. QED BY <1>3, <2>4
<1>6. QED
  <2> HIDE DEF found, reached
  <2>1. found.ok /\ found.settleUpTo = to
    <3>1. Max(reached) \in Int
      BY <1>1, <1>4
    <3>2. QED BY <1>1, <1>4, <1>5, <3>1
  <2>2. QED BY <2>1 DEF found

\* FilecoinPay carries out and finalizes a settlement to a rail's end that the validator
\* grants whole.
LEMMA WholeSettlementFinalizes ==
  ASSUME NEW rail \in Rail, NEW target \in Nat, NEW outcomes, NEW now \in Nat, InOrder(rail, now),
         rail.status = "active", rail.settledUpTo < target,
         rail.endEpoch # NotEnded, target = rail.endEpoch,
         \A i \in Segments(rail, target) :
           /\ AcceptsOutcome(rail, target, i, outcomes[i])
           /\ outcomes[i].settleUpTo = SegmentEnd(rail, target, i)
  PROVE  CanSettle(rail, target, outcomes) /\ Settled(rail, target, outcomes) = FinalizedRail
<1> DEFINE last  == LastSegment(rail, target, outcomes)
           queue == rail.rateChangeQueue
<1>1. last \in Segments(rail, target)
  BY LastSegmentExists
<1>2. SegmentEnd(rail, target, last) = target
  <2> HIDE DEF last
  <2>1. last \in 1 .. Len(queue) + 1
    BY <1>1 DEF Segments
  <2>2. SegmentEnd(rail, target, last) \in Nat
    BY <2>1, SegmentType
  <2>3. /\ AcceptsOutcome(rail, target, last, outcomes[last])
        /\ ~(outcomes[last].settleUpTo < SegmentEnd(rail, target, last))
    BY <1>1, <2>2
  <2>4. QED BY <2>3, LastSegmentExists DEF last
<1>3. AcceptsOutcome(rail, target, last, outcomes[last]) /\ outcomes[last].settleUpTo = target
  <2> HIDE DEF last
  <2> QED BY <1>1, <1>2
<1>4. ASSUME queue = << >> PROVE outcomes[1].settleUpTo > rail.settledUpTo
  <2>1. Len(queue) = 0
    BY <1>4
  <2>2. 1 \in Segments(rail, target)
    BY <2>1 DEF Segments, SegmentStart
  <2>3. SegmentEnd(rail, target, 1) = target
    BY <2>1 DEF SegmentEnd
  <2>4. rail.settledUpTo \in Nat
    BY DEF Rail
  <2>5. QED BY <2>2, <2>3, <2>4
<1>5. CanSettle(rail, target, outcomes)
  BY <1>3, <1>4 DEF CanSettle
<1>6. Settled(rail, target, outcomes) = FinalizedRail
  <2>1. rail.endEpoch # NotEnded /\ outcomes[last].settleUpTo >= rail.endEpoch
    <3> HIDE DEF last
    <3> QED BY <1>3
  <2>2. QED BY <2>1 DEF Settled
<1>7. QED BY <1>5, <1>6

\* When the deadlines of a segment's periods have passed, the validator settles it whole,
\* or is not asked.
LEMMA ResolvedSegmentIsSettled ==
  ASSUME OrderInv, NEW r \in RailIds, rails[r].status = "active", NEW target \in Nat,
         NEW d \in DataSetIds, railToDataSet[r] = d,
         provingActivationEpoch[d] # NeverActivated, provingActivationEpoch[d] < target,
         rails[r].rateChangeQueue # << >> =>
           rails[r].rateChangeQueue[1].untilEpoch > provingActivationEpoch[d],
         target + proving.maxProvingPeriod < blockNumber,
         NEW i \in Segments(rails[r], target)
  PROVE  /\ Outcomes(r, target)[i].ok
         /\ Outcomes(r, target)[i].settleUpTo = SegmentEnd(rails[r], target, i)
<1> DEFINE rail   == rails[r]
           queue  == rail.rateChangeQueue
           start  == SegmentStart(rail, i)
           end    == SegmentEnd(rail, target, i)
           A      == provingActivationEpoch[d]
           M      == proving.maxProvingPeriod
           proven == provenPeriods[d]
           answer == Outcomes(r, target)[i]
<1>1. rail \in Rail /\ InOrder(rail, blockNumber) /\ blockNumber \in Nat
  BY BlockNumberType DEF OrderInv, RailsInOrder, IInv, TypeOK
<1>2. i \in 1 .. Len(queue) + 1
  BY DEF Segments
<1>3. start \in Nat /\ end \in Nat /\ end <= target /\ start < end
  <2> HIDE DEF rail
  <2>1. i \in Segments(rail, target)
    BY DEF rail
  <2>2. QED BY <1>1, <1>2, <2>1, SegmentType, SegmentNotEmpty
<1>4. A \in Nat \ {0} /\ M \in Nat \ {0} /\ proven \in SUBSET Nat
  BY DEF OrderInv, IInv, TypeOK, NeverActivated
<1>5. A < end
  <2> HIDE DEF A, rail
  <2>1. Len(queue) \in Nat /\ \A j \in 1 .. Len(queue) : queue[j].untilEpoch \in Nat
    BY <1>1, QueueType
  <2>2. CASE i <= Len(queue)
    <3>1. end = Min({target, queue[i].untilEpoch}) /\ i \in 1 .. Len(queue) /\ 1 \in 1 .. Len(queue)
      BY <1>2, <2>1, <2>2 DEF SegmentEnd
    <3>2. queue # << >>
      BY <3>1, <2>1
    <3>3. A < queue[1].untilEpoch
      BY <3>2 DEF A, rail
    <3>4. queue[i].untilEpoch \in Nat /\ queue[1].untilEpoch \in Nat
      BY <2>1, <3>1
    <3>5. queue[1].untilEpoch <= queue[i].untilEpoch
      <4>1. CASE i = 1
        BY <3>4, <4>1
      <4>2. CASE i # 1
        <5>1. 1 < i
          BY <2>1, <3>1, <4>2
        <5>2. queue[1].untilEpoch < queue[i].untilEpoch
          BY <1>1, <3>1, <5>1 DEF InOrder
        <5>3. QED BY <3>4, <5>2
      <4>3. QED BY <4>1, <4>2
    <3>6. A < target
      BY DEF A
    <3> DEFINE until == queue[i].untilEpoch
    <3>7. A < until /\ until \in Nat /\ end = Min({target, until})
      <4> DEFINE earliest == queue[1].untilEpoch
      <4>1. A < earliest /\ earliest <= until /\ earliest \in Nat /\ until \in Nat
        BY <3>3, <3>4, <3>5
      <4>2. end = Min({target, until})
        BY <3>1
      <4> HIDE DEF earliest, until, end
      <4>3. QED BY <1>4, <4>1, <4>2
    <3> HIDE DEF until, end
    <3>8. QED BY <3>6, <3>7, MinOfTwo
  <2>3. CASE ~(i <= Len(queue))
    BY <2>3 DEF SegmentEnd, A
  <2>4. QED BY <2>2, <2>3
<1>6. CASE SegmentRate(rail, i) = 0
  BY <1>6 DEF Outcomes, UnvalidatedOutcome
<1>7. CASE SegmentRate(rail, i) # 0
  <2> DEFINE rate == SegmentRate(rail, i)
  <2>1. d # NoDataSet
    BY DEF DataSetIds, NoDataSet
  <2>2. answer = ValidatePayment(proven, start, end, rate, A, M, blockNumber)
    BY <1>7, <2>1 DEF Outcomes
  <2>3. A # NeverActivated
    BY <1>4 DEF NeverActivated
  <2>4. end + M < blockNumber
    <3>1. target + M < blockNumber
      OBVIOUS
    <3> HIDE DEF end, M
    <3>2. QED BY <1>1, <1>3, <1>4, <3>1
  <2> HIDE DEF rate, answer, start, end, A, M, proven
  <2>5. LET found == FindProvenEpochs(proven, start, end, A, M, blockNumber)
        IN  found.ok /\ found.settleUpTo = end
    BY <1>1, <1>3, <1>4, <1>5, <2>4, ResolvedRangeIsSettled
  <2>6. answer.ok /\ answer.settleUpTo = end
    BY <2>2, <2>3, <2>5 DEF ValidatePayment
  <2>7. QED BY <2>6 DEF answer, end
<1>8. QED BY <1>6, <1>7

\* A client can always get its lockup back, however few proofs the provider gave and
\* however late it was: a terminated rail of a data set that was activated in time can
\* be settled to its end in one call as soon as the deadlines passed.
THEOREM MissedProofsAreSettled == Spec => []MissedProofsNeverBlockSettlement
<1>1. OrderInv /\ DataSetInv => MissedProofsNeverBlockSettlement
  <2> SUFFICES ASSUME OrderInv, DataSetInv, NEW d \in DataSetIds, Live(d),
                      PdpRail(d).status = "active", DeadlinesPassed(d), ActivatedInTime(d)
               PROVE  LET r        == dataSetInfo[d].pdpRailId
                          target   == TargetOf(r, blockNumber)
                          outcomes == Outcomes(r, target)
                      IN  /\ CanSettle(rails[r], target, outcomes)
                          /\ Settled(rails[r], target, outcomes) = FinalizedRail
    BY DEF MissedProofsNeverBlockSettlement
  <2> DEFINE r        == dataSetInfo[d].pdpRailId
             end      == dataSetInfo[d].pdpEndEpoch
             target   == TargetOf(r, blockNumber)
             outcomes == Outcomes(r, target)
  <2>1. r \in RailIds /\ railToDataSet[r] = d
    BY DEF DataSetInv, LinkInv, DataSetsHaveRails
  <2>2. rails[r].status = "active" /\ rails[r].endEpoch = end /\ end # NotEnded
    BY DEF DataSetInv, LinkInv, DataSetsHaveRails, PdpRail, DeadlinesPassed
  <2>3. rails[r] \in Rail /\ InOrder(rails[r], blockNumber) /\ blockNumber \in Nat
    BY <2>1, <2>2, BlockNumberType DEF OrderInv, RailsInOrder, IInv, TypeOK
  <2>4. end \in Nat /\ end + proving.maxProvingPeriod < blockNumber
        /\ proving.maxProvingPeriod \in Nat
    BY DEF OrderInv, IInv, TypeOK, DataSetInfo, DeadlinesPassed
  <2>5. target = end
    <3>1. target = Min({blockNumber, end})
      BY <2>2 DEF TargetOf, SettlementTarget
    <3> HIDE DEF target, end
    <3>2. end <= blockNumber /\ end \in Int /\ blockNumber \in Int
      BY <2>3, <2>4
    <3>3. Min({blockNumber, end}) = end
      BY <3>2, MinOfTwo
    <3>4. QED BY <3>1, <3>3
  <2>6. rails[r].settledUpTo < end
    BY <2>1, <2>2 DEF DataSetInv, TimeInv, SettledOnTime, OnTime
  <2>7. /\ provingActivationEpoch[d] # NeverActivated /\ provingActivationEpoch[d] < end
        /\ rails[r].rateChangeQueue # << >> =>
             rails[r].rateChangeQueue[1].untilEpoch > provingActivationEpoch[d]
    <3>1. provingActivationEpoch[d] \in Nat
      BY DEF OrderInv, IInv, TypeOK
    <3>2. /\ provingActivationEpoch[d] # NeverActivated
          /\ rails[r].endEpoch > provingActivationEpoch[d]
          /\ rails[r].rateChangeQueue # << >> =>
               rails[r].rateChangeQueue[1].untilEpoch > provingActivationEpoch[d]
      BY DEF ActivatedInTime, PdpRail
    <3>3. QED BY <2>2, <2>4, <3>1, <3>2
  <2>8. ASSUME NEW i \in Segments(rails[r], target)
        PROVE  /\ AcceptsOutcome(rails[r], target, i, outcomes[i])
               /\ outcomes[i].settleUpTo = SegmentEnd(rails[r], target, i)
    <3>1. outcomes[i].ok /\ outcomes[i].settleUpTo = SegmentEnd(rails[r], target, i)
      <4> HIDE DEF r, end, target
      <4> QED BY <2>1, <2>2, <2>4, <2>5, <2>7, ResolvedSegmentIsSettled
    <3>2. AcceptsOutcome(rails[r], target, i, outcomes[i])
      <4> HIDE DEF r
      <4> QED BY <2>1, <2>2, <2>3, <3>1, AnswersAccepted
    <3>3. QED BY <3>1, <3>2
  <2> HIDE DEF r, end, target, outcomes
  <2>9. CanSettle(rails[r], target, outcomes) /\ Settled(rails[r], target, outcomes) = FinalizedRail
    BY <2>2, <2>3, <2>4, <2>5, <2>6, <2>8, WholeSettlementFinalizes
  <2>10. QED BY <2>9 DEF r, target, outcomes
<1>2. Init => OrderInv
  BY InitOrder
<1>3. OrderInv /\ [Next]_vars => OrderInv'
  BY NextOrder
<1>4. QED BY <1>1, <1>2, <1>3, DataSetInvHolds, PTL DEF Spec

-----------------------------------------------------------------------------
(* Nothing undoes the end of a rail.                                       *)

\* What the end of a rail excludes.
LEMMA EndedRail ==
  ASSUME IInv, DataSetInv, NEW d \in DataSetIds, EndedInTime(d)
  PROVE  LET r == dataSetInfo[d].pdpRailId
         IN  /\ r \in RailIds /\ r < nextIds.rail /\ railToDataSet[r] = d
             /\ rails[r].status = "active" /\ rails[r].endEpoch = dataSetInfo[d].pdpEndEpoch
             /\ ~IsRunning(rails[r]) /\ ~FullySettled(rails[r])
             /\ ~PaymentNotTerminated(d) /\ ~PaymentNotBeyondEndEpoch(d)
<1> DEFINE r == dataSetInfo[d].pdpRailId
<1>1. /\ rails[r].status = "active" /\ dataSetInfo[d].pdpEndEpoch # NotEnded
      /\ blockNumber > dataSetInfo[d].pdpEndEpoch /\ Live(d)
  BY DEF EndedInTime, PdpRail
<1>2. /\ r \in RailIds /\ r < nextIds.rail /\ railToDataSet[r] = d
      /\ rails[r].endEpoch = dataSetInfo[d].pdpEndEpoch
  BY <1>1 DEF DataSetInv, LinkInv, DataSetsHaveRails
<1>3. ~FullySettled(rails[r])
  <2>1. rails[r].settledUpTo < rails[r].endEpoch
    BY <1>1, <1>2 DEF DataSetInv, TimeInv, SettledOnTime, OnTime
  <2>2. rails[r].settledUpTo \in Nat /\ rails[r].endEpoch \in Nat
    BY <1>2 DEF IInv, TypeOK, Rail
  <2>3. QED BY <1>1, <2>1, <2>2 DEF FullySettled
<1>4. ~PaymentNotBeyondEndEpoch(d)
  <2>1. dataSetInfo[d].pdpEndEpoch \in Nat /\ blockNumber \in Nat
    BY BlockNumberType DEF IInv, TypeOK, DataSetInfo
  <2>2. QED BY <1>1, <2>1 DEF PaymentNotBeyondEndEpoch
<1>5. QED BY <1>1, <1>2, <1>3, <1>4 DEF IsRunning, PaymentNotTerminated

\* The data set stays, with its rail, its end and its activation.
DataSetUndisturbed(d) ==
  /\ pdp'[d].status = pdp[d].status
  /\ dataSetInfo'[d].pdpRailId = dataSetInfo[d].pdpRailId
  /\ dataSetInfo'[d].pdpEndEpoch = dataSetInfo[d].pdpEndEpoch
  /\ provingActivationEpoch'[d] = provingActivationEpoch[d]

\* Nothing happens to a rail but settlement.
OnlySettled(r) ==
  \/ /\ rails'[r].status = rails[r].status
     /\ rails'[r].endEpoch = rails[r].endEpoch
     /\ rails'[r].rateChangeQueue = rails[r].rateChangeQueue
  \/ rails'[r].status = "finalized"
  \/ \E e \in Epochs : SettleRail(r, e)

EndUndisturbed(d) == DataSetUndisturbed(d) /\ OnlySettled(dataSetInfo[d].pdpRailId)

\* A rate set for another data set.
LEMMA OtherRateLeavesRail ==
  ASSUME IInv, DataSetInv, NEW r \in RailIds, NEW e \in DataSetIds, NEW pieceCount,
         Live(e), railToDataSet[r] # e, UpdatePaymentRates(e, pieceCount)
  PROVE  rails'[r] = rails[r]
<1>1. dataSetInfo[e].pdpRailId # r
  BY DEF DataSetInv, LinkInv, DataSetsHaveRails
<1>2. PICK new : rails' = [rails EXCEPT ![dataSetInfo[e].pdpRailId] = new]
  BY DEF UpdatePaymentRates
<1>3. QED BY <1>1, <1>2 DEF IInv, TypeOK

\* The callbacks of PDPVerifier: the guards on the end stop those that would.
LEMMA PDPVerifierLeavesEnd ==
  ASSUME IInv, DataSetInv, PDPVerifierStep, NEW d \in DataSetIds, EndedInTime(d)
  PROVE  EndUndisturbed(d)
<1> DEFINE r == dataSetInfo[d].pdpRailId
<1>1. /\ r \in RailIds /\ r < nextIds.rail /\ railToDataSet[r] = d /\ ~FullySettled(rails[r])
      /\ ~PaymentNotTerminated(d) /\ ~PaymentNotBeyondEndEpoch(d) /\ Live(d)
  BY EndedRail DEF EndedInTime
<1>2. /\ pdp \in [DataSetIds -> VerifierDataSet] /\ dataSetInfo \in [DataSetIds -> DataSetInfo]
      /\ provingActivationEpoch \in [DataSetIds -> Nat] /\ rails \in [RailIds -> Rail]
  BY DEF IInv, TypeOK
<1> SUFFICES /\ pdp'[d].status = pdp[d].status /\ dataSetInfo'[d] = dataSetInfo[d]
             /\ provingActivationEpoch'[d] = provingActivationEpoch[d] /\ rails'[r] = rails[r]
  BY DEF EndUndisturbed, DataSetUndisturbed, OnlySettled
<1> HIDE DEF r
<1>3. ASSUME NEW p \in Payers, NEW n \in Nonces, NEW cdn \in CdnOptions, DataSetCreated(p, n, cdn)
      PROVE  /\ pdp'[d].status = pdp[d].status /\ dataSetInfo'[d] = dataSetInfo[d]
             /\ provingActivationEpoch'[d] = provingActivationEpoch[d] /\ rails'[r] = rails[r]
  <2>1. nextIds.rail \in Nat /\ nextIds.dataSet \in Nat /\ r \in Nat
    BY <1>1 DEF RailIds, IInv, TypeOK
  <2>2. r # nextIds.rail /\ r # nextIds.rail + 1 /\ r # nextIds.rail + 2
    BY <1>1, <2>1
  <2>3. d # nextIds.dataSet
    BY <1>1, <2>1 DEF DataSetInv, LinkInv, FreshIds, Live
  <2>4. rails'[r] = rails[r]
    BY <1>1, <1>3, <2>2 DEF DataSetCreated
  <2>5. QED BY <1>2, <1>3, <2>3, <2>4 DEF DataSetCreated, schedule
<1>4. ASSUME NEW e \in DataSetIds, DataSetDeleted(e)
      PROVE  /\ pdp'[d].status = pdp[d].status /\ dataSetInfo'[d] = dataSetInfo[d]
             /\ provingActivationEpoch'[d] = provingActivationEpoch[d] /\ rails'[r] = rails[r]
  <2>1. e # d
    BY <1>1, <1>4 DEF DataSetDeleted, PdpRail, r
  <2>2. QED BY <1>2, <1>4, <2>1 DEF DataSetDeleted
<1>5. ASSUME NEW e \in DataSetIds, NEW count \in 1 .. MaxPieces, NEW n \in Nonces,
             PiecesAdded(e, count, n)
      PROVE  /\ pdp'[d].status = pdp[d].status /\ dataSetInfo'[d] = dataSetInfo[d]
             /\ provingActivationEpoch'[d] = provingActivationEpoch[d] /\ rails'[r] = rails[r]
  <2>1. e # d /\ Live(e)
    BY <1>1, <1>5 DEF PiecesAdded
  <2>2. rails'[r] = rails[r]
    <3>1. PICK pieceCount : UpdatePaymentRates(e, pieceCount)
      BY <1>5 DEF PiecesAdded
    <3>2. QED BY <1>1, <2>1, <3>1, OtherRateLeavesRail
  <2>3. QED BY <1>2, <1>5, <2>1, <2>2 DEF PiecesAdded, schedule
<1>6. ASSUME NEW e \in DataSetIds, NEW s, PiecesScheduledRemove(e, s)
      PROVE  /\ pdp'[d].status = pdp[d].status /\ dataSetInfo'[d] = dataSetInfo[d]
             /\ provingActivationEpoch'[d] = provingActivationEpoch[d] /\ rails'[r] = rails[r]
  BY <1>2, <1>6 DEF PiecesScheduledRemove, schedule, registers, VerifierDataSet
<1>7. ASSUME NEW e \in DataSetIds, PossessionProven(e)
      PROVE  /\ pdp'[d].status = pdp[d].status /\ dataSetInfo'[d] = dataSetInfo[d]
             /\ provingActivationEpoch'[d] = provingActivationEpoch[d] /\ rails'[r] = rails[r]
  BY <1>7 DEF PossessionProven, registers, external
<1>8. ASSUME NEW e \in DataSetIds, NEW c \in ChallengeEpochs,
             StartProving(e, c) \/ AdvanceProvingPeriod(e, c)
      PROVE  /\ pdp'[d].status = pdp[d].status /\ dataSetInfo'[d] = dataSetInfo[d]
             /\ provingActivationEpoch'[d] = provingActivationEpoch[d] /\ rails'[r] = rails[r]
  <2>1. /\ e # d /\ Live(e) /\ ProvingSetUpdated(e, c) /\ UNCHANGED dataSetInfo
        /\ ProcessScheduledRemovals(e, Cardinality(PiecesAfterRemovals(e)))
    BY <1>1, <1>8 DEF StartProving, AdvanceProvingPeriod, registers
  <2>2. rails'[r] = rails[r]
    BY <1>1, <2>1, OtherRateLeavesRail DEF ProcessScheduledRemovals
  <2>3. pdp'[d] = pdp[d]
    BY <1>2, <2>1 DEF ProvingSetUpdated
  <2>4. provingActivationEpoch'[d] = provingActivationEpoch[d]
    BY <1>2, <1>8, <2>1 DEF StartProving, AdvanceProvingPeriod
  <2>5. QED BY <2>1, <2>2, <2>3, <2>4
<1>9. QED BY <1>3, <1>4, <1>5, <1>6, <1>7, <1>8 DEF PDPVerifierStep, NextProvingPeriod

\* Calls of the parties, FilecoinPay and its users, and time: no rail is ended twice.
LEMMA OthersLeaveEnd ==
  ASSUME IInv, DataSetInv, ServiceStep \/ FilecoinPayStep \/ NewEpoch,
         NEW d \in DataSetIds, EndedInTime(d)
  PROVE  EndUndisturbed(d)
<1> DEFINE r == dataSetInfo[d].pdpRailId
<1>1. /\ r \in RailIds /\ railToDataSet[r] = d /\ rails[r] \in Rail /\ ~IsRunning(rails[r])
      /\ ~PaymentNotTerminated(d) /\ rails \in [RailIds -> Rail]
  BY EndedRail DEF IInv, TypeOK
<1> HIDE DEF r
<1> DEFINE Goal == DataSetUndisturbed(d) /\ OnlySettled(r)
<1> SUFFICES Goal
  BY DEF EndUndisturbed, r
<1>2. ASSUME UNCHANGED <<pdp, dataSetInfo, schedule>>, OnlySettled(r) PROVE Goal
  BY <1>2 DEF DataSetUndisturbed, schedule
<1>3. ASSUME rails'[r] = rails[r] PROVE OnlySettled(r)
  BY <1>3 DEF OnlySettled
<1>4. ASSUME NEW e \in DataSetIds, TerminateService(e) PROVE Goal
  <2>1. e # d /\ dataSetInfo[e].pdpRailId # NoRailId
    BY <1>1, <1>4 DEF TerminateService, MayTerminateService, PaymentNotTerminated
  <2>2. Live(e) /\ railToDataSet[dataSetInfo[e].pdpRailId] = e
    BY <2>1 DEF DataSetInv, LinkInv, DataSetsHaveRails, NoInfo
  <2>3. rails'[r] = rails[r]
    BY <1>1, <1>4 DEF TerminateService, TerminateRunning
  <2>4. dataSetInfo'[d] = dataSetInfo[d]
    BY <1>4, <2>1, <2>2 DEF TerminateService, IInv, TypeOK
  <2>5. UNCHANGED <<pdp, schedule>>
    BY <1>4 DEF TerminateService
  <2>6. QED BY <1>3, <2>3, <2>4, <2>5 DEF DataSetUndisturbed, schedule
<1>5. ASSUME NEW e \in DataSetIds, TerminateCDNService(e) PROVE Goal
  <2>1. rails'[r] = rails[r]
    BY <1>1, <1>5 DEF TerminateCDNService, TerminateRunning
  <2>2. QED BY <1>2, <1>3, <1>5, <2>1 DEF TerminateCDNService, registers
<1>6. ASSUME NEW e \in DataSetIds, NEW a \in CdnAmounts, NEW b \in CdnAmounts,
             SettleFilBeamPaymentRails(e, a, b) \/ TopUpCDNPaymentRails(e, a, b)
      PROVE  Goal
  <2>1. dataSetInfo[e].cdnRailId # r /\ dataSetInfo[e].cacheMissRailId # r
    <3>1. r # NoRailId /\ railToDataSet[r] # NoDataSet
      BY <1>1, Constants DEF RailIds, NoRailId, DataSetIds, NoDataSet, ConstantsAssumption
    <3>2. QED BY <3>1 DEF DataSetInv, LinkInv, CdnRailsApart, CdnRails
  <2>2. rails'[r] = rails[r]
    BY <1>1, <1>6, <2>1 DEF SettleFilBeamPaymentRails, TopUpCDNPaymentRails
  <2>3. UNCHANGED <<pdp, dataSetInfo, schedule>>
    BY <1>6 DEF SettleFilBeamPaymentRails, TopUpCDNPaymentRails, registers
  <2>4. QED BY <1>2, <1>3, <2>2, <2>3
<1>7. ASSUME NEW x, NEW y, UpdatePricing(x, y) \/ ConfigureProvingPeriod(x) PROVE Goal
  BY <1>2, <1>3, <1>7 DEF UpdatePricing, ConfigureProvingPeriod, registers, external
<1>8. ASSUME NEW i \in RailIds, NEW e \in Epochs, SettleRail(i, e) PROVE Goal
  <2>1. OnlySettled(r)
    <3>1. PICK new : rails' = [rails EXCEPT ![i] = new]
      BY <1>8 DEF SettleRail
    <3>2. i # r => rails'[r] = rails[r]
      BY <1>1, <3>1
    <3>3. QED BY <1>3, <1>8, <3>2 DEF OnlySettled
  <2>2. QED BY <1>2, <1>8, <2>1 DEF SettleRail, registers
<1>9. ASSUME NEW i \in RailIds, PayerTerminatesRail(i) PROVE Goal
  <2>1. rails'[r] = rails[r]
    BY <1>1, <1>9 DEF PayerTerminatesRail
  <2>2. QED BY <1>2, <1>3, <1>9, <2>1 DEF PayerTerminatesRail, registers
<1>10. ASSUME NEW e \in DataSetIds, SettleTerminatedRailWithoutValidation(e) PROVE Goal
  <2>1. rails'[r] = rails[r] \/ rails'[r].status = "finalized"
    BY <1>1, <1>10 DEF SettleTerminatedRailWithoutValidation, FinalizedRail, NoRail
  <2>2. OnlySettled(r)
    BY <1>3, <2>1 DEF OnlySettled
  <2>3. QED BY <1>2, <1>10, <2>2 DEF SettleTerminatedRailWithoutValidation, registers
<1>11. ASSUME NEW p \in DryPayers, RunDry(p) \/ Deposit(p) PROVE Goal
  BY <1>2, <1>3, <1>11 DEF RunDry, Deposit, registers
<1>12. CASE NewEpoch
  BY <1>2, <1>3, <1>12 DEF NewEpoch, registers, external
<1>13. CASE ServiceStep
  BY <1>4, <1>5, <1>6, <1>7, <1>13 DEF ServiceStep
<1>14. CASE FilecoinPayStep
  BY <1>8, <1>9, <1>10, <1>11, <1>14 DEF FilecoinPayStep
<1>15. QED BY <1>12, <1>13, <1>14

\* What a settlement in part leaves of the queue begins no earlier than before.
LEMMA SettlementLeavesLaterRates ==
  ASSUME OrderInv, NEW r \in RailIds, NEW e \in Epochs, SettleRail(r, e)
  PROVE  \/ rails'[r].status = "finalized"
         \/ /\ rails'[r] \in Rail
            /\ rails'[r].status = "active" /\ rails'[r].endEpoch = rails[r].endEpoch
            /\ rails'[r].rateChangeQueue # << >> =>
                 /\ rails[r].rateChangeQueue # << >>
                 /\ rails'[r].rateChangeQueue[1].untilEpoch >= rails[r].rateChangeQueue[1].untilEpoch
<1> DEFINE rail == rails[r]
<1>1. /\ rail \in Rail /\ InOrder(rail, blockNumber) /\ rail.payer \in Payers
      /\ e \in Nat /\ rails \in [RailIds -> Rail] /\ blockNumber \in Nat /\ rail.status = "active"
  <2>1. rail.status = "active" /\ IInv /\ RailsInOrder
    BY DEF SettleRail, OrderInv
  <2>2. /\ rail \in Rail /\ rails \in [RailIds -> Rail] /\ rail.payer \in Payers
        /\ InOrder(rail, blockNumber)
    BY <2>1 DEF IInv, TypeOK, PayersKnown, RailsInOrder
  <2>3. e \in Nat /\ blockNumber \in Nat
    BY <2>1, BlockNumberType, Constants DEF Epochs, ConstantsAssumption
  <2>4. QED BY <2>1, <2>2, <2>3
<1>2. TargetOf(r, e) \in Nat
  BY <1>1, LockupLastSettledAtType, SettlementTargetType DEF TargetOf, OrderInv
<1>3. PICK target \in {TargetOf(r, e)}, outcomes \in {Outcomes(r, TargetOf(r, e))} :
        /\ CanSettle(rail, target, outcomes)
        /\ rails' = [rails EXCEPT ![r] = Settled(rail, target, outcomes)]
  BY DEF SettleRail
<1> DEFINE new   == Settled(rail, target, outcomes)
           queue == rail.rateChangeQueue
           left  == new.rateChangeQueue
<1>4. rails'[r] = new /\ target \in Nat
  BY <1>1, <1>2, <1>3
<1>5. new.status \in {"active", "finalized"}
  <2>1. \/ new = FinalizedRail
        \/ \E upTo, rest : new = [rail EXCEPT !.settledUpTo = upTo, !.rateChangeQueue = rest]
    BY Zenon DEF Settled
  <2>2. FinalizedRail.status = "finalized"
    BY DEF FinalizedRail, NoRail
  <2> HIDE DEF new, rail
  <2>3. QED BY <1>1, <2>1, <2>2 DEF Rail
<1>6. ASSUME new.status = "active"
      PROVE  /\ new \in Rail /\ new.endEpoch = rail.endEpoch
             /\ left # << >> => queue # << >> /\ left[1].untilEpoch >= queue[1].untilEpoch
  <2>1. /\ new.endEpoch = rail.endEpoch
        /\ \E m \in 1 .. Len(queue) + 1 : QueueFrom(left, queue, m)
    <3> HIDE DEF rail
    <3> QED BY <1>1, <1>3, <1>4, <1>6, SettledQueue DEF rail
  <2>2. PICK m \in 1 .. Len(queue) + 1 : QueueFrom(left, queue, m)
    BY <2>1
  <2>3. /\ queue \in Seq(RateChange) /\ Len(queue) \in Nat
        /\ \A j \in 1 .. Len(queue) : queue[j].untilEpoch \in Nat
    BY <1>1, QueueType DEF Rail
  <2>0. new \in Rail
    BY <1>1, <1>3, <1>4, SettledType
  <2>4. left \in Seq(RateChange) /\ Len(left) \in Nat
    BY <2>0, QueueType
  <2> HIDE DEF left, queue
  <2>5. /\ Len(left) = Len(queue) - m + 1
        /\ \A i \in 1 .. Len(left) : i + m - 1 \in m .. Len(queue) /\ left[i] = queue[i + m - 1]
    BY <2>2 DEF QueueFrom
  <2>6. ASSUME left # << >>
        PROVE  queue # << >> /\ left[1].untilEpoch >= queue[1].untilEpoch
    <3>1. Len(left) > 0
      BY <2>4, <2>6
    <3>2. m \in 1 .. Len(queue) /\ left[1] = queue[m]
      <4>1. 1 \in 1 .. Len(left) /\ 1 + m - 1 = m
        BY <2>3, <2>4, <3>1
      <4>2. m \in m .. Len(queue) /\ left[1] = queue[m]
        BY <2>5, <4>1
      <4>3. QED BY <2>3, <4>2
    <3>3. queue # << >> /\ 1 \in 1 .. Len(queue)
      BY <2>3, <3>2
    <3>4. m = 1 \/ queue[1].untilEpoch < queue[m].untilEpoch
      BY <1>1, <2>3, <3>2, <3>3 DEF InOrder, queue
    <3>5. queue[1].untilEpoch \in Nat /\ queue[m].untilEpoch \in Nat
      BY <2>3, <3>2, <3>3
    <3>6. QED BY <3>2, <3>3, <3>4, <3>5
  <2>7. QED BY <2>0, <2>1, <2>6 DEF left, queue
<1>7. QED BY <1>4, <1>5, <1>6, <1>1

\* A rail that nothing but settlement happens to keeps what it needs.
LEMMA EndStays ==
  ASSUME OrderInv, DataSetInv, NEW d \in DataSetIds, EndedInTime(d), EndUndisturbed(d),
         blockNumber' \in Nat, blockNumber' >= blockNumber
  PROVE  EndedInTime(d)' \/ rails'[dataSetInfo[d].pdpRailId].status = "finalized"
<1> DEFINE r == dataSetInfo[d].pdpRailId
           A == provingActivationEpoch[d]
<1>1. /\ r \in RailIds /\ rails[r].status = "active" /\ rails[r] \in Rail
      /\ blockNumber \in Nat /\ dataSetInfo[d].pdpEndEpoch \in Nat /\ A \in Nat
  BY EndedRail, BlockNumberType DEF OrderInv, IInv, TypeOK, DataSetInfo
<1>2. /\ Live(d) /\ dataSetInfo[d].pdpEndEpoch # NotEnded /\ blockNumber > dataSetInfo[d].pdpEndEpoch
      /\ A # NeverActivated /\ rails[r].endEpoch > A
      /\ rails[r].rateChangeQueue # << >> => rails[r].rateChangeQueue[1].untilEpoch > A
  BY DEF EndedInTime, ActivatedInTime, PdpRail
<1>3. /\ Live(d)' /\ PdpRail(d)' = rails'[r]
      /\ dataSetInfo'[d].pdpEndEpoch = dataSetInfo[d].pdpEndEpoch /\ provingActivationEpoch'[d] = A
  BY <1>2 DEF EndUndisturbed, DataSetUndisturbed, Live, PdpRail
<1>4. blockNumber' > dataSetInfo[d].pdpEndEpoch
  BY <1>1, <1>2
<1>5. ASSUME rails'[r].status # "finalized"
      PROVE  /\ rails'[r].status = "active" /\ rails'[r].endEpoch = rails[r].endEpoch
             /\ rails'[r].rateChangeQueue # << >> => rails'[r].rateChangeQueue[1].untilEpoch > A
  <2>1. CASE /\ rails'[r].status = rails[r].status
             /\ rails'[r].endEpoch = rails[r].endEpoch
             /\ rails'[r].rateChangeQueue = rails[r].rateChangeQueue
    BY <1>1, <1>2, <2>1
  <2>2. ASSUME NEW e \in Epochs, SettleRail(r, e)
        PROVE  /\ rails'[r].status = "active" /\ rails'[r].endEpoch = rails[r].endEpoch
               /\ rails'[r].rateChangeQueue # << >> => rails'[r].rateChangeQueue[1].untilEpoch > A
    <3> HIDE DEF r, A
    <3>1. /\ rails'[r].status = "active" /\ rails'[r].endEpoch = rails[r].endEpoch
          /\ rails'[r].rateChangeQueue # << >> =>
               /\ rails[r].rateChangeQueue # << >>
               /\ rails'[r].rateChangeQueue[1].untilEpoch >= rails[r].rateChangeQueue[1].untilEpoch
      BY <1>1, <1>5, <2>2, SettlementLeavesLaterRates
    <3>2. ASSUME rails'[r].rateChangeQueue # << >>
          PROVE  rails'[r].rateChangeQueue[1].untilEpoch > A
      <4>1. rails[r].rateChangeQueue[1].untilEpoch \in Nat
        <5>1. rails[r].rateChangeQueue # << >> /\ Len(rails[r].rateChangeQueue) \in Nat
              /\ rails[r].rateChangeQueue \in Seq(RateChange)
          BY <1>1, <3>1, <3>2, QueueType
        <5>2. 1 \in 1 .. Len(rails[r].rateChangeQueue)
          BY <5>1
        <5>3. QED BY <1>1, <5>2, QueueType
      <4>2. rails'[r].rateChangeQueue[1].untilEpoch \in Nat
        <5>1. rails'[r] \in Rail
          BY <1>1, <1>5, <2>2, SettlementLeavesLaterRates
        <5>2. rails'[r].rateChangeQueue # << >> /\ Len(rails'[r].rateChangeQueue) \in Nat
              /\ rails'[r].rateChangeQueue \in Seq(RateChange)
          BY <3>2, <5>1, QueueType
        <5>3. 1 \in 1 .. Len(rails'[r].rateChangeQueue)
          BY <5>2
        <5>4. QED BY <5>1, <5>3, QueueType
      <4>3. QED BY <1>1, <1>2, <3>1, <3>2, <4>1, <4>2 DEF A
    <3>3. QED BY <3>1, <3>2
  <2>3. QED BY <1>5, <2>1, <2>2 DEF EndUndisturbed, OnlySettled
<1>6. rails'[r].status # "finalized" => ActivatedInTime(d)'
  BY <1>2, <1>3, <1>5 DEF ActivatedInTime
<1>7. QED BY <1>2, <1>3, <1>4, <1>5, <1>6 DEF EndedInTime

\* Between the end of a rail and its last settlement nobody takes away what that settlement
\* needs: with MissedProofsAreSettled, waiting for the deadlines is all it takes to get
\* the lockup back.
THEOREM EndedRailsStayPayableForGood == Spec => EndedRailsStayPayable
<1> DEFINE Stays == \A d \in DataSetIds :
             EndedInTime(d) => \/ EndedInTime(d)'
                               \/ rails'[dataSetInfo[d].pdpRailId].status = "finalized"
<1>1. OrderInv /\ DataSetInv /\ [Next]_vars => [Stays]_vars
  <2> SUFFICES ASSUME OrderInv, DataSetInv, Next, NEW d \in DataSetIds, EndedInTime(d)
               PROVE  EndedInTime(d)' \/ rails'[dataSetInfo[d].pdpRailId].status = "finalized"
    OBVIOUS
  <2>1. IInv /\ IInv'
    BY NextIInv DEF OrderInv
  <2>2. EndUndisturbed(d)
    BY <2>1, PDPVerifierLeavesEnd, OthersLeaveEnd DEF Next
  <2>3. blockNumber' \in Nat /\ blockNumber' >= blockNumber
    <3>1. blockNumber' \in Epochs
      BY <2>1 DEF IInv, TypeOK
    <3>2. blockNumber' \in Nat
      BY <3>1, Constants DEF Epochs, ConstantsAssumption
    <3>3. QED BY <2>1, <3>2, NextTime
  <2>4. QED BY <2>2, <2>3, EndStays
<1>2. Init => OrderInv
  BY InitOrder
<1>3. OrderInv /\ [Next]_vars => OrderInv'
  BY NextOrder
<1>4. QED BY <1>1, <1>2, <1>3, DataSetInvHolds, PTL DEF Spec, EndedRailsStayPayable

-----------------------------------------------------------------------------
(* A service that was not ended can be ended.                              *)

RailStaysActive(r) == IsRunning(rails[r]) => rails'[r].status = "active"

RailsStayActive == \A r \in RailIds : RailStaysActive(r)

\* The rail of a service that was not ended is there and runs.
ServicesRun == \A d \in DataSetIds : PaymentNotTerminated(d) => PdpRail(d).status = "active"

\* What FilecoinPay does to a rail short of settling it keeps it active.
LEMMA OperationsKeepStatus ==
  ASSUME NEW rail \in Rail, NEW n \in Nat, NEW now \in Nat
  PROVE  /\ SetRate(rail, n, now).status = rail.status
         /\ Terminate(rail, n).status = rail.status
         /\ PayOnce(rail, n).status = rail.status
         /\ RaiseLockup(rail, n).status = rail.status
<1>1. SetRate(rail, n, now).status = rail.status
  <2>1. \/ SetRate(rail, n, now) = [rail EXCEPT !.rate = n]
        \/ SetRate(rail, n, now) = [rail EXCEPT !.rate = n, !.settledUpTo = now]
        \/ \E queue : SetRate(rail, n, now) = [rail EXCEPT !.rate = n, !.rateChangeQueue = queue]
    BY Zenon DEF SetRate
  <2>2. QED BY <2>1 DEF Rail
<1>2. QED BY <1>1 DEF Terminate, PayOnce, RaiseLockup, Rail

\* Settlement finalizes only rails that ended.
LEMMA RunningRailIsNotFinalized ==
  ASSUME NEW rail \in Rail, NEW target, NEW outcomes, rail.endEpoch = NotEnded
  PROVE  Settled(rail, target, outcomes).status = rail.status
<1>1. PICK upTo, left :
        Settled(rail, target, outcomes) = [rail EXCEPT !.settledUpTo = upTo, !.rateChangeQueue = left]
  BY Zenon DEF Settled
<1>2. QED BY <1>1 DEF Rail

\* The callbacks of PDPVerifier.
LEMMA PDPVerifierKeepsRailsActive ==
  ASSUME IInv, PDPVerifierStep
  PROVE  RailsStayActive
<1>1. rails \in [RailIds -> Rail] /\ blockNumber \in Nat
  BY BlockNumberType DEF IInv, TypeOK
<1>2. ASSUME UNCHANGED rails PROVE RailsStayActive
  BY <1>2 DEF RailsStayActive, RailStaysActive, IsRunning
<1>3. ASSUME NEW d \in DataSetIds, NEW pieceCount \in Nat, UpdatePaymentRates(d, pieceCount)
      PROVE  RailsStayActive
  <2> DEFINE r    == dataSetInfo[d].pdpRailId
             rate == StorageRate(pieceCount)
  <2>1. rate \in Nat
    BY StorageRateType
  <2>2. rails' = [rails EXCEPT ![r] = SetRate(rails[r], rate, blockNumber)]
    BY <1>3 DEF UpdatePaymentRates
  <2> HIDE DEF r, rate
  <2>3. ASSUME NEW i \in RailIds PROVE rails'[i].status = rails[i].status
    <3>1. rails'[i] \in {rails[i], SetRate(rails[i], rate, blockNumber)}
      BY <1>1, <2>2
    <3>2. rails[i] \in Rail
      BY <1>1
    <3>3. SetRate(rails[i], rate, blockNumber).status = rails[i].status
      BY <1>1, <2>1, <3>2, OperationsKeepStatus
    <3>4. QED BY <3>1, <3>3
  <2>4. QED BY <2>3 DEF RailsStayActive, RailStaysActive, IsRunning
<1>4. ASSUME NEW p \in Payers, NEW n \in Nonces, NEW cdn \in CdnOptions, DataSetCreated(p, n, cdn)
      PROVE  RailsStayActive
  <2>1. \A l : NewRail(p, blockNumber, l).status = "active"
    BY DEF NewRail, NoRail
  <2>2. ASSUME NEW i \in RailIds
        PROVE  rails'[i] = rails[i] \/ \E l : rails'[i] = NewRail(p, blockNumber, l)
    BY <1>4 DEF DataSetCreated
  <2>3. QED BY <2>1, <2>2 DEF RailsStayActive, RailStaysActive, IsRunning
<1>5. ASSUME NEW d \in DataSetIds, NEW s,
             DataSetDeleted(d) \/ PiecesScheduledRemove(d, s) \/ PossessionProven(d)
      PROVE  RailsStayActive
  BY <1>2, <1>5 DEF DataSetDeleted, PiecesScheduledRemove, PossessionProven, external
<1>6. ASSUME NEW d \in DataSetIds, NEW count \in 1 .. MaxPieces, NEW n \in Nonces,
             PiecesAdded(d, count, n)
      PROVE  RailsStayActive
  <2> DEFINE pieces == pdp[d].pieces \cup (pdp[d].nextPieceId .. pdp[d].nextPieceId + count - 1)
  <2>1. pieces \in SUBSET PieceIds
    BY <1>6 DEF PiecesAdded, IInv, TypeOK, VerifierDataSet
  <2>2. UpdatePaymentRates(d, Cardinality(pieces))
    BY <1>6 DEF PiecesAdded
  <2> HIDE DEF pieces
  <2>3. QED BY <1>3, <2>1, <2>2, PieceCountType
<1>7. ASSUME NEW d \in DataSetIds, NextProvingPeriod(d)
      PROVE  RailsStayActive
  <2>1. ProcessScheduledRemovals(d, Cardinality(PiecesAfterRemovals(d)))
    BY <1>7 DEF NextProvingPeriod, StartProving, AdvanceProvingPeriod
  <2>2. Cardinality(PiecesAfterRemovals(d)) \in Nat
    BY PiecesLeftType
  <2>3. QED BY <1>2, <1>3, <2>1, <2>2 DEF ProcessScheduledRemovals
<1>8. QED BY <1>4, <1>5, <1>6, <1>7 DEF PDPVerifierStep

\* Calls of the parties, and FilecoinPay.
LEMMA OthersKeepRailsActive ==
  ASSUME IInv, ServiceStep \/ FilecoinPayStep \/ NewEpoch
  PROVE  RailsStayActive
<1>1. rails \in [RailIds -> Rail] /\ blockNumber \in Nat
  BY BlockNumberType DEF IInv, TypeOK
<1>2. ASSUME UNCHANGED rails PROVE RailsStayActive
  BY <1>2 DEF RailsStayActive, RailStaysActive, IsRunning
<1>3. ASSUME \A i \in RailIds : \/ rails'[i] = rails[i]
                                \/ \E n \in Nat : \/ rails'[i] = Terminate(rails[i], n)
                                                  \/ rails'[i] = PayOnce(rails[i], n)
                                                  \/ rails'[i] = RaiseLockup(rails[i], n)
      PROVE  RailsStayActive
  <2>1. ASSUME NEW i \in RailIds PROVE rails'[i].status = rails[i].status
    BY <1>1, <1>3, <2>1, OperationsKeepStatus
  <2>2. QED BY <2>1 DEF RailsStayActive, RailStaysActive, IsRunning
<1>4. ASSUME NEW d \in DataSetIds, TerminateService(d) \/ TerminateCDNService(d)
      PROVE  RailsStayActive
  <2> DEFINE settledAt == LockupLastSettledAt(dataSetInfo[d].payer)
  <2>1. settledAt \in Nat
    BY <1>4, LockupLastSettledAtType
       DEF TerminateService, MayTerminateService, TerminateCDNService, IInv, PayersKnown
  <2>2. ASSUME NEW i \in RailIds
        PROVE  rails'[i] = rails[i] \/ rails'[i] = Terminate(rails[i], settledAt)
    BY <1>4 DEF TerminateService, TerminateCDNService, TerminateRunning
  <2> HIDE DEF settledAt
  <2>3. QED BY <1>3, <2>1, <2>2
<1>5. ASSUME NEW d \in DataSetIds, NEW a \in CdnAmounts, NEW b \in CdnAmounts,
             SettleFilBeamPaymentRails(d, a, b) \/ TopUpCDNPaymentRails(d, a, b)
      PROVE  RailsStayActive
  <2>1. a \in Nat /\ b \in Nat
    BY Constants DEF ConstantsAssumption
  <2>2. ASSUME NEW i \in RailIds
        PROVE  \/ rails'[i] = rails[i]
               \/ \E n \in {a, b} : rails'[i] = PayOnce(rails[i], n) \/ rails'[i] = RaiseLockup(rails[i], n)
    BY <1>5 DEF SettleFilBeamPaymentRails, TopUpCDNPaymentRails
  <2>3. QED BY <1>3, <2>1, <2>2
<1>6. ASSUME NEW x, NEW y, UpdatePricing(x, y) \/ ConfigureProvingPeriod(x) PROVE RailsStayActive
  BY <1>2, <1>6 DEF UpdatePricing, ConfigureProvingPeriod, external
<1>7. ASSUME NEW r \in RailIds, NEW e \in Epochs, SettleRail(r, e) PROVE RailsStayActive
  <2>1. PICK target, outcomes : rails' = [rails EXCEPT ![r] = Settled(rails[r], target, outcomes)]
    BY <1>7 DEF SettleRail
  <2>2. ASSUME NEW i \in RailIds, IsRunning(rails[i]) PROVE rails'[i].status = "active"
    <3>1. rails[i] \in Rail /\ rails[i].endEpoch = NotEnded /\ rails[i].status = "active"
      BY <1>1, <2>2 DEF IsRunning
    <3>2. rails'[i] \in {rails[i], Settled(rails[i], target, outcomes)}
      BY <1>1, <2>1
    <3>3. QED BY <3>1, <3>2, RunningRailIsNotFinalized
  <2>3. QED BY <2>2 DEF RailsStayActive, RailStaysActive
<1>8. ASSUME NEW r \in RailIds, PayerTerminatesRail(r) PROVE RailsStayActive
  <2>1. ASSUME NEW i \in RailIds
        PROVE  rails'[i] = rails[i] \/ rails'[i] = Terminate(rails[i], blockNumber)
    BY <1>1, <1>8 DEF PayerTerminatesRail
  <2>2. QED BY <1>1, <1>3, <2>1
<1>9. ASSUME NEW d \in DataSetIds, SettleTerminatedRailWithoutValidation(d) PROVE RailsStayActive
  BY <1>1, <1>9 DEF SettleTerminatedRailWithoutValidation, RailsStayActive, RailStaysActive, IsRunning
<1>10. ASSUME NEW p \in DryPayers, RunDry(p) \/ Deposit(p) PROVE RailsStayActive
  BY <1>2, <1>10 DEF RunDry, Deposit
<1>11. CASE NewEpoch
  BY <1>2, <1>11 DEF NewEpoch, external
<1>12. CASE ServiceStep
  BY <1>4, <1>5, <1>6, <1>12 DEF ServiceStep
<1>13. CASE FilecoinPayStep
  BY <1>7, <1>8, <1>9, <1>10, <1>13 DEF FilecoinPayStep
<1>14. QED BY <1>11, <1>12, <1>13

\* A service that was not ended was not ended before, or has just begun.
LEMMA ServiceRunsOn ==
  ASSUME IInv, DataSetInv, Next, NEW d \in DataSetIds, PaymentNotTerminated(d)'
  PROVE  \/ PaymentNotTerminated(d) /\ dataSetInfo'[d].pdpRailId = dataSetInfo[d].pdpRailId
         \/ PdpRail(d)'.status = "active"
<1>1. dataSetInfo \in [DataSetIds -> DataSetInfo]
  BY DEF IInv, TypeOK
<1>2. ASSUME dataSetInfo'[d] = dataSetInfo[d]
      PROVE  PaymentNotTerminated(d) /\ dataSetInfo'[d].pdpRailId = dataSetInfo[d].pdpRailId
  BY <1>2 DEF PaymentNotTerminated
<1>3. ASSUME NEW p \in Payers, NEW n \in Nonces, NEW cdn \in CdnOptions, DataSetCreated(p, n, cdn)
      PROVE  dataSetInfo'[d] = dataSetInfo[d] \/ PdpRail(d)'.status = "active"
  <2>1. CASE d = nextIds.dataSet
    <3> DEFINE r == nextIds.rail
    <3>1. dataSetInfo'[d].pdpRailId = r
      BY <1>1, <1>3, <2>1 DEF DataSetCreated
    <3>2. r \in RailIds
      <4>1. r \in Nat \ {0} /\ r <= 3 * (d - 1) + 1 /\ d \in 1 .. MaxDataSets /\ MaxDataSets \in Nat
        BY <2>1, Constants DEF IInv, TypeOK, RailIdsSuffice, DataSetIds, ConstantsAssumption
      <4> HIDE DEF r
      <4>2. QED BY <4>1 DEF RailIds
    <3>3. rails'[r] = NewRail(p, blockNumber, 0)
      <4>1. \A i \in RailIds : i = nextIds.rail => rails'[i] = NewRail(p, blockNumber, 0)
        <5>1. nextIds.rail \in Nat
          BY DEF IInv, TypeOK
        <5>2. QED BY <1>3, <5>1 DEF DataSetCreated
      <4>2. QED BY <3>2, <4>1
    <3>4. QED BY <3>1, <3>3 DEF PdpRail, NewRail, NoRail
  <2>2. CASE d # nextIds.dataSet
    BY <1>1, <1>3, <2>2 DEF DataSetCreated
  <2>3. QED BY <2>1, <2>2
<1>4. ASSUME NEW e \in DataSetIds, DataSetDeleted(e) PROVE dataSetInfo'[d] = dataSetInfo[d]
  <2>1. e # d
    BY <1>1, <1>4 DEF DataSetDeleted, NoInfo, PaymentNotTerminated
  <2>2. QED BY <1>1, <1>4, <2>1 DEF DataSetDeleted
<1>5. ASSUME NEW e \in DataSetIds, TerminateService(e)
      PROVE  PaymentNotTerminated(d) /\ dataSetInfo'[d].pdpRailId = dataSetInfo[d].pdpRailId
  <2>1. /\ railToDataSet[dataSetInfo[e].pdpRailId] = e
        /\ dataSetInfo[e].pdpEndEpoch = NotEnded /\ dataSetInfo[e].pdpRailId # NoRailId
    BY <1>5 DEF TerminateService, MayTerminateService, DataSetInv, LinkInv, DataSetsHaveRails, NoInfo
  <2>2. /\ dataSetInfo'[d].pdpRailId = dataSetInfo[d].pdpRailId
        /\ e # d => dataSetInfo'[d] = dataSetInfo[d]
    BY <1>1, <1>5, <2>1 DEF TerminateService, DataSetInfo
  <2>3. QED BY <2>1, <2>2 DEF PaymentNotTerminated
<1>6. ASSUME NEW e \in DataSetIds, NEW a, NEW b,
             \/ PiecesAdded(e, a, b) \/ PiecesScheduledRemove(e, a) \/ PossessionProven(e)
             \/ StartProving(e, a) \/ AdvanceProvingPeriod(e, a) \/ TerminateCDNService(e)
             \/ SettleFilBeamPaymentRails(e, a, b) \/ TopUpCDNPaymentRails(e, a, b)
             \/ SettleTerminatedRailWithoutValidation(e)
      PROVE  UNCHANGED dataSetInfo
  BY <1>6 DEF PiecesAdded, PiecesScheduledRemove, PossessionProven, StartProving, AdvanceProvingPeriod,
              TerminateCDNService, SettleFilBeamPaymentRails, TopUpCDNPaymentRails,
              SettleTerminatedRailWithoutValidation, registers
<1>7. ASSUME NEW a, NEW b,
             \/ UpdatePricing(a, b) \/ ConfigureProvingPeriod(a) \/ SettleRail(a, b)
             \/ PayerTerminatesRail(a) \/ RunDry(a) \/ Deposit(a) \/ NewEpoch
      PROVE  UNCHANGED dataSetInfo
  BY <1>7 DEF UpdatePricing, ConfigureProvingPeriod, SettleRail, PayerTerminatesRail, RunDry, Deposit,
              NewEpoch, registers
<1>8. CASE PDPVerifierStep
  <2>1. dataSetInfo'[d] = dataSetInfo[d] \/ PdpRail(d)'.status = "active"
    BY <1>3, <1>4, <1>6, <1>8 DEF PDPVerifierStep, NextProvingPeriod
  <2>2. QED BY <1>2, <2>1
<1>9. CASE ServiceStep
  <2>1. CASE \E e \in DataSetIds : TerminateService(e)
    BY <1>5, <2>1
  <2>2. CASE ~ \E e \in DataSetIds : TerminateService(e)
    BY <1>2, <1>6, <1>7, <1>9, <2>2 DEF ServiceStep
  <2>3. QED BY <2>1, <2>2
<1>10. CASE FilecoinPayStep
  BY <1>2, <1>6, <1>7, <1>10 DEF FilecoinPayStep
<1>11. CASE NewEpoch
  BY <1>2, <1>7, <1>11
<1>12. QED BY <1>8, <1>9, <1>10, <1>11 DEF Next

LEMMA NextServicesRun ==
  ASSUME IInv, DataSetInv, ServicesRun, [Next]_vars
  PROVE  ServicesRun'
<1>1. CASE UNCHANGED vars
  BY <1>1 DEF vars, registers, external, ServicesRun, PaymentNotTerminated, PdpRail
<1>2. CASE Next
  <2> SUFFICES ASSUME NEW d \in DataSetIds, PaymentNotTerminated(d)'
               PROVE  PdpRail(d)'.status = "active"
    BY DEF ServicesRun
  <2>1. RailsStayActive
    BY <1>2, PDPVerifierKeepsRailsActive, OthersKeepRailsActive DEF Next
  <2>2. CASE PaymentNotTerminated(d) /\ dataSetInfo'[d].pdpRailId = dataSetInfo[d].pdpRailId
    <3> DEFINE r == dataSetInfo[d].pdpRailId
    <3>1. rails[r].status = "active" /\ dataSetInfo[d].pdpEndEpoch = NotEnded /\ r # NoRailId
      BY <2>2 DEF ServicesRun, PdpRail, PaymentNotTerminated
    <3>2. r \in RailIds /\ rails[r].endEpoch = dataSetInfo[d].pdpEndEpoch
      BY <3>1 DEF DataSetInv, LinkInv, DataSetsHaveRails, NoInfo
    <3>3. rails'[r].status = "active"
      BY <2>1, <3>1, <3>2 DEF RailsStayActive, RailStaysActive, IsRunning
    <3>4. QED BY <2>2, <3>3 DEF PdpRail
  <2>3. QED BY <1>2, <2>2, ServiceRunsOn
<1>3. QED BY <1>1, <1>2

\* Payer and provider can always end a service that was not ended: whatever became of its
\* CDN rails, of the payer's funds and of other services, nothing that terminateService,
\* terminateRail and railTerminated check makes them refuse.
THEOREM ServicesMayBeTerminated ==
  Spec => [](\A d \in DataSetIds : PaymentNotTerminated(d) => MayTerminateService(d))
<1>1. Init => ServicesRun
  BY DEF Init, ServicesRun, PaymentNotTerminated, NoInfo
<1>2. IInv /\ DataSetInv /\ ServicesRun /\ [Next]_vars => ServicesRun'
  BY NextServicesRun
<1>3. IInv /\ DataSetInv /\ ServicesRun
        => \A d \in DataSetIds : PaymentNotTerminated(d) => MayTerminateService(d)
  <2> SUFFICES ASSUME IInv, DataSetInv, ServicesRun, NEW d \in DataSetIds, PaymentNotTerminated(d)
               PROVE  MayTerminateService(d)
    OBVIOUS
  <2> DEFINE r == dataSetInfo[d].pdpRailId
  <2>1. r # NoRailId /\ dataSetInfo[d].pdpEndEpoch = NotEnded /\ rails[r].status = "active"
    BY DEF ServicesRun, PaymentNotTerminated, PdpRail
  <2>2. railToDataSet[r] = d /\ rails[r].endEpoch = dataSetInfo[d].pdpEndEpoch
    BY <2>1 DEF DataSetInv, LinkInv, DataSetsHaveRails, NoInfo
  <2>3. d # NoDataSet
    BY Constants DEF DataSetIds, NoDataSet, ConstantsAssumption
  <2>4. QED BY <2>1, <2>2, <2>3 DEF MayTerminateService, IsRunning
<1>4. QED BY <1>1, <1>2, <1>3, DataSetInvHolds, PTL DEF Spec
=============================================================================
