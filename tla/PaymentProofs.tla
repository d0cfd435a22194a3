--------------------------- MODULE PaymentProofs ----------------------------
(***************************************************************************)
(* As long as the owner does not change the length of the proving periods, *)
(* deadlines stay on the grid laid down at activation, every proof counts  *)
(* for the period it was made in, settlement waits for the proofs to come, *)
(* and it pays for exactly the epochs that a provider proved.  Step by     *)
(* step the contract then implements ArbitratedPayment.                    *)
(***************************************************************************)
EXTENDS WarmStorageProofs

-----------------------------------------------------------------------------
(***************************************************************************)
(* Part 1.  Deadlines, proofs, and the wait for open periods.              *)
(***************************************************************************)

\* The owner may change the challenge window whenever it likes, but not the length of
\* the periods.
OnePeriodLength ==
  \A config \in ProvingConfigs : config.maxProvingPeriod = InitialConfig.maxProvingPeriod

\* The pending deadline is that of period n, which is marked if it was proven.
DeadlineOfPeriod(d, n) ==
  /\ provingDeadlines[d] =
       CalcPeriodDeadline(provingActivationEpoch[d], n, proving.maxProvingPeriod)
  /\ provenThisPeriod[d] => n \in provenPeriods[d]

GridInv ==
  /\ IInv
  /\ proving.maxProvingPeriod = InitialConfig.maxProvingPeriod
  /\ \A d \in DataSetIds :
       /\ provingDeadlines[d] = NoProvingDeadline => ~provenThisPeriod[d]
       /\ provingDeadlines[d] # NoProvingDeadline =>
            /\ provingActivationEpoch[d] <= blockNumber
            /\ \E n \in Nat : DeadlineOfPeriod(d, n)

-----------------------------------------------------------------------------
(* The invariant.                                                          *)

LEMMA InitGrid == Init => GridInv
BY InitIInv DEF Init, GridInv

\* A step that leaves the schedule alone.
LEMMA ScheduleUntouched ==
  ASSUME GridInv, IInv', UNCHANGED <<schedule, proving.maxProvingPeriod>>, blockNumber' \in {blockNumber, blockNumber + 1}
  PROVE  GridInv'
<1>1. blockNumber \in Nat /\ blockNumber' \in Nat /\ blockNumber <= blockNumber'
  BY BlockNumberType DEF GridInv
<1>2. ASSUME NEW d \in DataSetIds, provingDeadlines'[d] # NoProvingDeadline
      PROVE  provingActivationEpoch'[d] <= blockNumber' /\ \E n \in Nat : DeadlineOfPeriod(d, n)'
  <2>1. provingActivationEpoch[d] \in Nat
    BY DEF GridInv, IInv, TypeOK
  <2>2. provingActivationEpoch[d] <= blockNumber /\ \E n \in Nat : DeadlineOfPeriod(d, n)
    BY <1>2 DEF GridInv, schedule
  <2>3. QED BY <1>1, <2>1, <2>2 DEF schedule, DeadlineOfPeriod
<1>3. QED BY <1>2 DEF GridInv, schedule

\* dataSetDeleted drops the deadline and the mark.
LEMMA DataSetDeletedGrid ==
  ASSUME GridInv, IInv', NEW d \in DataSetIds, DataSetDeleted(d)
  PROVE  GridInv'
<1>1. /\ provingDeadlines' = [provingDeadlines EXCEPT ![d] = NoProvingDeadline]
      /\ provenThisPeriod' = [provenThisPeriod EXCEPT ![d] = FALSE]
      /\ provingActivationEpoch' = [provingActivationEpoch EXCEPT ![d] = NeverActivated]
      /\ UNCHANGED <<blockNumber, proving, provenPeriods>>
  BY DEF DataSetDeleted, service
<1>2. /\ provingDeadlines \in [DataSetIds -> Nat]
      /\ provenThisPeriod \in [DataSetIds -> BOOLEAN]
      /\ provingActivationEpoch \in [DataSetIds -> Nat]
  BY DEF GridInv, IInv, TypeOK
<1>3. ~provenThisPeriod'[d] /\ provingDeadlines'[d] = NoProvingDeadline
  BY <1>1, <1>2, Zenon
<1>4. ASSUME NEW i \in DataSetIds, i # d
      PROVE  /\ provingDeadlines'[i] = provingDeadlines[i]
             /\ provenThisPeriod'[i] = provenThisPeriod[i]
             /\ provingActivationEpoch'[i] = provingActivationEpoch[i]
  BY <1>1, <1>2, <1>4, Zenon
<1>5. QED BY <1>1, <1>3, <1>4 DEF GridInv, DeadlineOfPeriod

\* The period in which a proof is taken: that of the pending deadline.
LEMMA ProofInPeriod ==
  ASSUME GridInv, NEW d \in DataSetIds, PossessionProven(d)
  PROVE  \E n \in Nat :
           /\ DeadlineOfPeriod(d, n)
           /\ ProvingPeriodForEpoch(provingActivationEpoch[d], blockNumber,
                                    proving.maxProvingPeriod) = n
           /\ blockNumber \in provingDeadlines[d] - proving.maxProvingPeriod + 1
                                .. provingDeadlines[d]
<1> DEFINE A == provingActivationEpoch[d]
           M == proving.maxProvingPeriod
           W == proving.challengeWindowSize
           D == provingDeadlines[d]
<1>1. /\ A \in Nat /\ M \in Nat \ {0} /\ W \in Nat \ {0} /\ W < M /\ D \in Nat
      /\ blockNumber \in Nat
  BY BlockNumberType DEF GridInv, IInv, TypeOK, WindowWithinPeriod
<1>2. D # NoProvingDeadline /\ blockNumber <= D /\ D - W <= blockNumber
  <2>1. D - W \in 0 .. blockNumber
    BY DEF PossessionProven
  <2>2. D - W <= blockNumber
    BY <1>1, <2>1
  <2>3. QED BY <2>2 DEF PossessionProven
<1>3. A # NeverActivated
  BY <1>2 DEF GridInv, IInv, ActivationComesFirst
<1>4. PICK n \in Nat : DeadlineOfPeriod(d, n)
  BY <1>2 DEF GridInv
<1>5. D = CalcPeriodDeadline(A, n, M)
  BY <1>4 DEF DeadlineOfPeriod
<1>6. D - M < blockNumber
  <2> HIDE DEF A, M, W, D
  <2> QED BY <1>1, <1>2
<1>7. ProvingPeriodForEpoch(A, blockNumber, M) = n
  <2> HIDE DEF A, M, W, D
  <2> QED BY <1>1, <1>2, <1>3, <1>5, <1>6, EpochBelongsToPeriod
<1>8. blockNumber \in D - M + 1 .. D
  <2> HIDE DEF A, M, W, D
  <2> QED BY <1>1, <1>2, <1>6
<1>9. QED BY <1>4, <1>7, <1>8

\* possessionProven marks the period of the pending deadline.
LEMMA PossessionProvenGrid ==
  ASSUME GridInv, IInv', NEW d \in DataSetIds, PossessionProven(d)
  PROVE  GridInv'
<1>1. PICK n \in Nat :
        /\ DeadlineOfPeriod(d, n)
        /\ ProvingPeriodForEpoch(provingActivationEpoch[d], blockNumber,
                                 proving.maxProvingPeriod) = n
  BY ProofInPeriod
<1>2. /\ provenPeriods' = [provenPeriods EXCEPT ![d] = provenPeriods[d] \cup {n}]
      /\ provenThisPeriod' = [provenThisPeriod EXCEPT ![d] = TRUE]
      /\ UNCHANGED <<blockNumber, proving, provingActivationEpoch, provingDeadlines>>
      /\ provingDeadlines[d] # NoProvingDeadline
  BY <1>1 DEF PossessionProven, service
<1>3. /\ provenPeriods \in [DataSetIds -> SUBSET Nat]
      /\ provenThisPeriod \in [DataSetIds -> BOOLEAN]
  BY DEF GridInv, IInv, TypeOK
<1>4. n \in provenPeriods'[d]
  BY <1>2, <1>3
<1>5. ASSUME NEW i \in DataSetIds, i # d
      PROVE  provenPeriods'[i] = provenPeriods[i] /\ provenThisPeriod'[i] = provenThisPeriod[i]
  BY <1>2, <1>3, <1>5, Zenon
<1>6. DeadlineOfPeriod(d, n)'
  BY <1>1, <1>2, <1>4 DEF DeadlineOfPeriod
<1>7. ASSUME NEW i \in DataSetIds, i # d, NEW m \in Nat, DeadlineOfPeriod(i, m)
      PROVE  DeadlineOfPeriod(i, m)'
  BY <1>2, <1>5, <1>7 DEF DeadlineOfPeriod
<1>8. ASSUME NEW i \in DataSetIds
      PROVE  /\ provingDeadlines'[i] = NoProvingDeadline => ~provenThisPeriod'[i]
             /\ provingDeadlines'[i] # NoProvingDeadline =>
                  /\ provingActivationEpoch'[i] <= blockNumber'
                  /\ \E m \in Nat : DeadlineOfPeriod(i, m)'
  <2>1. CASE i = d
    BY <1>2, <1>6, <2>1 DEF GridInv
  <2>2. CASE i # d
    BY <1>2, <1>5, <1>7, <2>2 DEF GridInv
  <2>3. QED BY <2>1, <2>2
<1>9. QED BY <1>2, <1>8 DEF GridInv

\* The first deadline is that of period 0 after the new activation.
LEMMA StartProvingGrid ==
  ASSUME GridInv, IInv', NEW d \in DataSetIds, NEW c \in Nat, StartProving(d, c)
  PROVE  GridInv'
<1>1. blockNumber \in Nat \ {0} /\ proving.maxProvingPeriod \in Nat \ {0}
  BY BlockNumberType DEF GridInv, IInv, TypeOK
<1>2. /\ provingDeadlines' = [provingDeadlines EXCEPT ![d] = blockNumber + proving.maxProvingPeriod]
      /\ provingActivationEpoch' = [provingActivationEpoch EXCEPT ![d] = blockNumber]
      /\ UNCHANGED <<blockNumber, proving, provenPeriods, provenThisPeriod>>
      /\ provingDeadlines[d] = NoProvingDeadline
  BY DEF StartProving, service
<1>3. /\ provingDeadlines \in [DataSetIds -> Nat]
      /\ provingActivationEpoch \in [DataSetIds -> Nat]
  BY DEF GridInv, IInv, TypeOK
<1>4. /\ provingDeadlines'[d] = blockNumber + proving.maxProvingPeriod
      /\ provingActivationEpoch'[d] = blockNumber
      /\ ~provenThisPeriod'[d]
  BY <1>2, <1>3 DEF GridInv
<1>5. DeadlineOfPeriod(d, 0)'
  BY <1>1, <1>2, <1>4 DEF DeadlineOfPeriod, CalcPeriodDeadline
<1>6. ASSUME NEW i \in DataSetIds, i # d
      PROVE  /\ provingDeadlines'[i] = provingDeadlines[i]
             /\ provingActivationEpoch'[i] = provingActivationEpoch[i]
  BY <1>2, <1>3, <1>6, Zenon
<1>7. ASSUME NEW i \in DataSetIds
      PROVE  /\ provingDeadlines'[i] = NoProvingDeadline => ~provenThisPeriod'[i]
             /\ provingDeadlines'[i] # NoProvingDeadline =>
                  /\ provingActivationEpoch'[i] <= blockNumber'
                  /\ \E m \in Nat : DeadlineOfPeriod(i, m)'
  <2>1. CASE i = d
    BY <1>1, <1>2, <1>4, <1>5, <2>1
  <2>2. CASE i # d
    BY <1>2, <1>6, <2>2 DEF GridInv, DeadlineOfPeriod
  <2>3. QED BY <2>1, <2>2
<1>8. QED BY <1>2, <1>7 DEF GridInv

\* The next deadline is that of a later period, which has no mark to show yet.
LEMMA AdvanceProvingPeriodGrid ==
  ASSUME GridInv, IInv', NEW d \in DataSetIds, NEW c \in Nat, AdvanceProvingPeriod(d, c)
  PROVE  GridInv'
<1> DEFINE nextDeadline == IF c = NoChallengeScheduled THEN NoProvingDeadline ELSE NextDeadline(d)
           A == provingActivationEpoch[d]
           M == proving.maxProvingPeriod
<1>1. A \in Nat /\ M \in Nat \ {0}
  BY DEF GridInv, IInv, TypeOK
<1>2. /\ provingDeadlines' = [provingDeadlines EXCEPT ![d] = nextDeadline]
      /\ provenThisPeriod' = [provenThisPeriod EXCEPT ![d] = FALSE]
      /\ UNCHANGED <<blockNumber, proving, provenPeriods, provingActivationEpoch>>
      /\ provingDeadlines[d] # NoProvingDeadline
  BY DEF AdvanceProvingPeriod, service
<1>3. /\ provingDeadlines \in [DataSetIds -> Nat]
      /\ provenThisPeriod \in [DataSetIds -> BOOLEAN]
  BY DEF GridInv, IInv, TypeOK
<1>4. provingDeadlines'[d] = nextDeadline /\ ~provenThisPeriod'[d]
  <2> HIDE DEF nextDeadline
  <2>1. provingDeadlines'[d] = nextDeadline
    BY <1>2, <1>3
  <2>2. ~provenThisPeriod'[d]
    BY <1>2, <1>3
  <2>3. QED BY <2>1, <2>2
<1>5. PICK k \in Nat : NextDeadline(d) = provingDeadlines[d] + M * (k + 1)
  BY NextDeadlineLater DEF GridInv
<1>6. PICK n \in Nat : DeadlineOfPeriod(d, n)
  BY <1>2 DEF GridInv
<1>7. NextDeadline(d) = CalcPeriodDeadline(A, n + k + 1, M)
  <2>1. provingDeadlines[d] = CalcPeriodDeadline(A, n, M)
    BY <1>6 DEF DeadlineOfPeriod
  <2> HIDE DEF A, M
  <2>2. CalcPeriodDeadline(A, n, M) + M * (k + 1) = CalcPeriodDeadline(A, n + k + 1, M)
    <3>1. PICK a \in Nat, m \in Nat \ {0} : a = A /\ m = M
      BY <1>1
    <3>2. CalcPeriodDeadline(a, n, m) + m * (k + 1) = CalcPeriodDeadline(a, n + k + 1, m)
      BY DEF CalcPeriodDeadline
    <3>3. QED BY <3>1, <3>2
  <2>3. QED BY <1>5, <2>1, <2>2
<1>8. nextDeadline # NoProvingDeadline => DeadlineOfPeriod(d, n + k + 1)'
  BY <1>2, <1>4, <1>7 DEF DeadlineOfPeriod
<1>9. n + k + 1 \in Nat
  OBVIOUS
<1>10. ASSUME NEW i \in DataSetIds, i # d
       PROVE  /\ provingDeadlines'[i] = provingDeadlines[i]
              /\ provenThisPeriod'[i] = provenThisPeriod[i]
  <2> HIDE DEF nextDeadline
  <2> QED BY <1>2, <1>3, <1>10, Zenon
<1>11. ASSUME NEW i \in DataSetIds
       PROVE  /\ provingDeadlines'[i] = NoProvingDeadline => ~provenThisPeriod'[i]
              /\ provingDeadlines'[i] # NoProvingDeadline =>
                   /\ provingActivationEpoch'[i] <= blockNumber'
                   /\ \E m \in Nat : DeadlineOfPeriod(i, m)'
  <2> HIDE DEF nextDeadline
  <2>1. CASE i = d
    <3>1. provingActivationEpoch'[d] <= blockNumber'
      BY <1>2 DEF GridInv
    <3>2. QED BY <1>4, <1>8, <1>9, <2>1, <3>1
  <2>2. CASE i # d
    BY <1>2, <1>10, <2>2 DEF GridInv, DeadlineOfPeriod
  <2>3. QED BY <2>1, <2>2
<1>12. QED BY <1>2, <1>11 DEF GridInv

-----------------------------------------------------------------------------
(* The theorems.                                                           *)

\* Steps other than PDPVerifier's on proving and deletion leave the schedule alone.
LEMMA OtherStepsLeaveSchedule ==
  ASSUME OnePeriodLength, GridInv, [Next]_vars,
         \A d \in DataSetIds : ~DataSetDeleted(d) /\ ~PossessionProven(d) /\ ~NextProvingPeriod(d)
  PROVE  UNCHANGED <<schedule, proving.maxProvingPeriod>> /\ blockNumber' \in {blockNumber, blockNumber + 1}
<1>1. CASE PDPVerifierStep
  <2>1. ASSUME NEW p \in Payers, NEW n \in Nonces, NEW cdn \in CdnOptions,
               DataSetCreated(p, n, cdn)
        PROVE  UNCHANGED <<schedule, proving.maxProvingPeriod, blockNumber>>
    BY <2>1 DEF DataSetCreated, service
  <2>2. ASSUME NEW d \in DataSetIds, NEW count \in 1 .. MaxPieces, NEW n \in Nonces,
               PiecesAdded(d, count, n)
        PROVE  UNCHANGED <<schedule, proving.maxProvingPeriod, blockNumber>>
    BY <2>2 DEF PiecesAdded, service
  <2>3. ASSUME NEW d \in DataSetIds, NEW s \in SUBSET RemovablePieces,
               PiecesScheduledRemove(d, s)
        PROVE  UNCHANGED <<schedule, proving.maxProvingPeriod, blockNumber>>
    BY <2>3 DEF PiecesScheduledRemove, service
  <2>4. QED BY <1>1, <2>1, <2>2, <2>3 DEF PDPVerifierStep
<1>2. CASE ServiceStep
  <2>1. ASSUME NEW d \in DataSetIds, TerminateService(d) \/ TerminateCDNService(d)
        PROVE  UNCHANGED <<schedule, proving.maxProvingPeriod, blockNumber>>
    BY <2>1 DEF TerminateService, TerminateCDNService, service
  <2>2. ASSUME NEW d \in DataSetIds, NEW a \in CdnAmounts, NEW b \in CdnAmounts,
               SettleFilBeamPaymentRails(d, a, b) \/ TopUpCDNPaymentRails(d, a, b)
        PROVE  UNCHANGED <<schedule, proving.maxProvingPeriod, blockNumber>>
    BY <2>2 DEF SettleFilBeamPaymentRails, TopUpCDNPaymentRails, service
  <2>3. ASSUME NEW price \in StoragePrices, NEW rate \in MinimumRates,
               UpdatePricing(price, rate)
        PROVE  UNCHANGED <<schedule, proving.maxProvingPeriod, blockNumber>>
    BY <2>3 DEF UpdatePricing
  <2>4. ASSUME NEW config \in ProvingConfigs, ConfigureProvingPeriod(config)
        PROVE  UNCHANGED <<schedule, proving.maxProvingPeriod, blockNumber>>
    BY <2>4 DEF ConfigureProvingPeriod, OnePeriodLength, GridInv
  <2>5. QED BY <1>2, <2>1, <2>2, <2>3, <2>4 DEF ServiceStep
<1>3. CASE FilecoinPayStep
  <2>1. ASSUME NEW r \in RailIds, NEW e \in Epochs, SettleRail(r, e)
        PROVE  UNCHANGED <<schedule, proving.maxProvingPeriod, blockNumber>>
    BY <2>1 DEF SettleRail, service
  <2>2. ASSUME NEW r \in RailIds, PayerTerminatesRail(r)
        PROVE  UNCHANGED <<schedule, proving.maxProvingPeriod, blockNumber>>
    BY <2>2 DEF PayerTerminatesRail, service
  <2>3. ASSUME NEW d \in DataSetIds, SettleTerminatedRailWithoutValidation(d)
        PROVE  UNCHANGED <<schedule, proving.maxProvingPeriod, blockNumber>>
    BY <2>3 DEF SettleTerminatedRailWithoutValidation, service
  <2>4. ASSUME NEW p \in DryPayers, RunDry(p) \/ Deposit(p)
        PROVE  UNCHANGED <<schedule, proving.maxProvingPeriod, blockNumber>>
    BY <2>4 DEF RunDry, Deposit, service
  <2>5. QED BY <1>3, <2>1, <2>2, <2>3, <2>4 DEF FilecoinPayStep
<1>4. CASE NewEpoch
  BY <1>4 DEF NewEpoch, service
<1>5. CASE UNCHANGED vars
  BY <1>5 DEF vars, service
<1>6. QED BY <1>1, <1>2, <1>3, <1>4, <1>5 DEF Next

\* What nextProvingPeriod does to the schedule, whichever its branch.
LEMMA NextProvingPeriodGrid ==
  ASSUME GridInv, IInv', NEW d \in DataSetIds, NextProvingPeriod(d)
  PROVE  GridInv' /\ UNCHANGED provenPeriods
<1>1. PICK c \in ChallengeEpochs : StartProving(d, c) \/ AdvanceProvingPeriod(d, c)
  BY DEF NextProvingPeriod
<1>2. c \in Nat
  BY BlockNumberType DEF GridInv, ChallengeEpochs, NoChallengeScheduled
<1>3. GridInv'
  BY <1>1, <1>2, StartProvingGrid, AdvanceProvingPeriodGrid
<1>4. UNCHANGED provenPeriods
  BY <1>1 DEF StartProving, AdvanceProvingPeriod
<1>5. QED BY <1>3, <1>4

\* The grid invariant is inductive.
LEMMA NextGrid ==
  ASSUME OnePeriodLength, GridInv, [Next]_vars
  PROVE  GridInv'
<1>1. IInv'
  BY NextIInv DEF GridInv
<1>2. CASE \E d \in DataSetIds : DataSetDeleted(d) \/ PossessionProven(d) \/ NextProvingPeriod(d)
  BY <1>1, <1>2, DataSetDeletedGrid, PossessionProvenGrid, NextProvingPeriodGrid
<1>3. CASE ~ \E d \in DataSetIds : DataSetDeleted(d) \/ PossessionProven(d) \/ NextProvingPeriod(d)
  BY <1>1, <1>3, OtherStepsLeaveSchedule, ScheduleUntouched
<1>4. QED BY <1>2, <1>3

\* No deadline is further ahead than the end of the period after the open one.
NotFarAhead ==
  \A d \in DataSetIds :
    provingDeadlines[d] # NoProvingDeadline =>
      provingDeadlines[d] < blockNumber + 2 * proving.maxProvingPeriod

\* A deadline is set or dropped.
LEMMA OneDeadlineSet ==
  ASSUME GridInv, NotFarAhead, NEW d \in DataSetIds, NEW x \in Nat,
         provingDeadlines' = [provingDeadlines EXCEPT ![d] = x],
         x # NoProvingDeadline => x < blockNumber + 2 * proving.maxProvingPeriod,
         UNCHANGED <<blockNumber, proving>>
  PROVE  NotFarAhead'
<1>1. provingDeadlines \in [DataSetIds -> Nat]
  BY DEF GridInv, IInv, TypeOK
<1>2. ASSUME NEW e \in DataSetIds, provingDeadlines'[e] # NoProvingDeadline
      PROVE  provingDeadlines'[e] < blockNumber + 2 * proving.maxProvingPeriod
  <2>1. CASE e = d
    BY <1>1, <1>2, <2>1
  <2>2. CASE e # d
    BY <1>1, <1>2, <2>2 DEF NotFarAhead
  <2>3. QED BY <2>1, <2>2
<1>3. QED BY <1>2 DEF NotFarAhead

\* nextProvingPeriod goes on to the period after the pending one, or, when it comes late,
\* to the one that is open.
LEMMA NextDeadlineNotFarAhead ==
  ASSUME GridInv, NEW d \in DataSetIds, NEW c \in Nat, AdvanceProvingPeriod(d, c)
  PROVE  NextDeadline(d) \in Nat /\ NextDeadline(d) < blockNumber + 2 * proving.maxProvingPeriod
<1> DEFINE M == proving.maxProvingPeriod
           D == provingDeadlines[d]
           k == PeriodsSkipped(d)
<1>1. blockNumber \in Nat /\ M \in Nat \ {0} /\ D \in Nat
  BY BlockNumberType DEF GridInv, IInv, TypeOK
<1>2. D - M \in 0 .. blockNumber - 1
  BY DEF AdvanceProvingPeriod
<1>3. NextDeadline(d) = D + M * (k + 1)
  BY DEF NextDeadline
<1>4. CASE blockNumber <= D
  <2>1. k = 0
    BY <1>4 DEF PeriodsSkipped
  <2>2. NextDeadline(d) = D + M
    <3> HIDE DEF D, M, k
    <3> QED BY <1>1, <1>3, <2>1
  <2> HIDE DEF D, M, k
  <2>3. NextDeadline(d) \in Nat /\ NextDeadline(d) < blockNumber + 2 * M
    BY <1>1, <1>2, <2>2
  <2>4. QED BY <2>3 DEF M
<1>5. CASE ~(blockNumber <= D)
  <2> DEFINE late == blockNumber - (D + 1)
  <2>1. late \in Nat
    <3> HIDE DEF D
    <3> QED BY <1>1, <1>5
  <2>2. k = late \div M
    BY <1>5 DEF PeriodsSkipped
  <2>3. k \in Nat /\ M * k <= late
    <3> HIDE DEF late, M, k
    <3> QED BY <1>1, <2>1, <2>2, DivisionBounds
  <2>4. NextDeadline(d) = D + M * k + M /\ M * k \in Nat
    <3> HIDE DEF D, M, k
    <3> QED BY <1>1, <1>3, <2>3
  <2> DEFINE whole == M * k
  <2>5. NextDeadline(d) = D + whole + M /\ whole \in Nat /\ whole <= late
    BY <2>3, <2>4
  <2>6. late = blockNumber - (D + 1)
    OBVIOUS
  <2> HIDE DEF D, M, k, late, whole
  <2>7. NextDeadline(d) \in Nat /\ NextDeadline(d) < blockNumber + 2 * M
    BY <1>1, <2>5, <2>6
  <2>8. QED BY <2>7 DEF M
<1>6. QED BY <1>4, <1>5

\* Every step.
LEMMA NextNotFarAhead ==
  ASSUME OnePeriodLength, GridInv, NotFarAhead, [Next]_vars
  PROVE  NotFarAhead'
<1>1. /\ blockNumber \in Nat /\ proving.maxProvingPeriod \in Nat \ {0}
      /\ provingDeadlines \in [DataSetIds -> Nat]
  BY BlockNumberType DEF GridInv, IInv, TypeOK
<1>2. ASSUME NEW d \in DataSetIds, DataSetDeleted(d)
      PROVE  NotFarAhead'
  <2>1. /\ provingDeadlines' = [provingDeadlines EXCEPT ![d] = NoProvingDeadline]
        /\ UNCHANGED <<blockNumber, proving>>
    BY <1>2 DEF DataSetDeleted, service
  <2>2. NoProvingDeadline \in Nat
    BY DEF NoProvingDeadline
  <2>3. QED BY <2>1, <2>2, OneDeadlineSet
<1>3. ASSUME NEW d \in DataSetIds, PossessionProven(d)
      PROVE  NotFarAhead'
  BY <1>3 DEF PossessionProven, service, NotFarAhead
<1>4. ASSUME NEW d \in DataSetIds, NextProvingPeriod(d)
      PROVE  NotFarAhead'
  <2>1. PICK c \in ChallengeEpochs : StartProving(d, c) \/ AdvanceProvingPeriod(d, c)
    BY <1>4 DEF NextProvingPeriod
  <2>2. c \in Nat
    BY <1>1 DEF GridInv, ChallengeEpochs, NoChallengeScheduled
  <2>3. CASE StartProving(d, c)
    <3> DEFINE first == blockNumber + proving.maxProvingPeriod
    <3>1. /\ provingDeadlines' = [provingDeadlines EXCEPT ![d] = first]
          /\ UNCHANGED <<blockNumber, proving>>
      BY <2>3 DEF StartProving, service
    <3>2. first \in Nat /\ first < blockNumber + 2 * proving.maxProvingPeriod
      BY <1>1
    <3> HIDE DEF first
    <3>3. QED BY <3>1, <3>2, OneDeadlineSet
  <2>4. CASE AdvanceProvingPeriod(d, c)
    <3> DEFINE next == IF c = NoChallengeScheduled THEN NoProvingDeadline ELSE NextDeadline(d)
    <3>1. /\ provingDeadlines' = [provingDeadlines EXCEPT ![d] = next]
          /\ UNCHANGED <<blockNumber, proving>>
      BY <2>4 DEF AdvanceProvingPeriod, service
    <3>2. next \in Nat /\ (next # NoProvingDeadline => next < blockNumber + 2 * proving.maxProvingPeriod)
      BY <2>2, <2>4, NextDeadlineNotFarAhead DEF NoProvingDeadline
    <3> HIDE DEF next
    <3>3. QED BY <3>1, <3>2, OneDeadlineSet
  <2>5. QED BY <2>1, <2>3, <2>4
<1>5. ASSUME \A d \in DataSetIds : ~DataSetDeleted(d) /\ ~PossessionProven(d) /\ ~NextProvingPeriod(d)
      PROVE  NotFarAhead'
  <2>1. /\ UNCHANGED <<provingDeadlines, proving.maxProvingPeriod>>
        /\ blockNumber' \in {blockNumber, blockNumber + 1}
    BY <1>5, OtherStepsLeaveSchedule DEF schedule
  <2>2. ASSUME NEW d \in DataSetIds, provingDeadlines'[d] # NoProvingDeadline
        PROVE  provingDeadlines'[d] < blockNumber' + 2 * proving'.maxProvingPeriod
    <3>1. provingDeadlines[d] \in Nat /\ provingDeadlines[d] < blockNumber + 2 * proving.maxProvingPeriod
      BY <1>1, <2>1, <2>2 DEF NotFarAhead
    <3>2. QED BY <1>1, <2>1, <3>1
  <2>3. QED BY <2>2 DEF NotFarAhead
<1>6. QED BY <1>2, <1>3, <1>4, <1>5

\* The pending deadline is found again by division.
LEMMA PendingDeadline ==
  ASSUME GridInv, NEW d \in DataSetIds, provingDeadlines[d] # NoProvingDeadline
  PROVE  \E n \in Nat : DeadlineOfPeriod(d, n) /\ PendingPeriod(d) = n
<1> DEFINE A == provingActivationEpoch[d]
           M == proving.maxProvingPeriod
<1>1. A \in Nat /\ M \in Nat \ {0}
  BY DEF GridInv, IInv, TypeOK
<1>2. PICK n \in Nat : DeadlineOfPeriod(d, n)
  BY DEF GridInv
<1>3. (provingDeadlines[d] - A) \div M - 1 = n
  <2>1. provingDeadlines[d] = CalcPeriodDeadline(A, n, M)
    BY <1>2 DEF DeadlineOfPeriod
  <2> HIDE DEF A, M
  <2>2. QED BY <1>1, <2>1, PeriodOfDeadline
<1>4. QED BY <1>2, <1>3 DEF PendingPeriod

\* On the grid in the sense of the property the runs check.
LEMMA GridInvImpliesOnTheGrid == GridInv /\ NotFarAhead => DeadlinesOnTheGrid
<1> SUFFICES ASSUME GridInv, NotFarAhead,
                    NEW d \in DataSetIds, provingDeadlines[d] # NoProvingDeadline
             PROVE  LET A == provingActivationEpoch[d]
                        M == proving.maxProvingPeriod
                        n == PendingPeriod(d)
                    IN  /\ A # NeverActivated /\ A <= blockNumber
                        /\ n >= 0 /\ provingDeadlines[d] = CalcPeriodDeadline(A, n, M)
                        /\ provingDeadlines[d] < blockNumber + 2 * M
                        /\ provenThisPeriod[d] => n \in provenPeriods[d]
  BY DEF DeadlinesOnTheGrid
<1>1. /\ provingActivationEpoch[d] # NeverActivated
      /\ provingActivationEpoch[d] <= blockNumber
  BY DEF GridInv, IInv, ActivationComesFirst
<1>2. PICK n \in Nat : DeadlineOfPeriod(d, n) /\ PendingPeriod(d) = n
  BY PendingDeadline
<1>3. QED BY <1>1, <1>2 DEF DeadlineOfPeriod, NotFarAhead

\* However late, early or often nextProvingPeriod is called, the pending deadline of
\* a data set stays on the grid laid down when its proving started, at most one period
\* ahead of the open one, and provenThisPeriod agrees with the bitmap.
THEOREM DeadlinesStayOnTheGrid ==
  ASSUME OnePeriodLength
  PROVE  Spec => []DeadlinesOnTheGrid
<1>1. Init => GridInv /\ NotFarAhead
  BY InitGrid DEF Init, NotFarAhead
<1>2. GridInv /\ NotFarAhead /\ [Next]_vars => GridInv' /\ NotFarAhead'
  BY NextGrid, NextNotFarAhead
<1>3. GridInv /\ NotFarAhead => DeadlinesOnTheGrid
  BY GridInvImpliesOnTheGrid
<1>4. QED BY <1>1, <1>2, <1>3, PTL DEF Spec

\* A period enters the bitmap only at an epoch of its own and while its deadline is the
\* pending one: no proof resolves a period that passed or one to come.
THEOREM ProofsCountOnlyForTheirOwnPeriod ==
  ASSUME OnePeriodLength
  PROVE  Spec => ProofsCountForTheirOwnPeriod
<1> DEFINE ForItsOwnPeriod ==
             \A d \in DataSetIds : \A n \in provenPeriods'[d] \ provenPeriods[d] :
               LET deadline == CalcPeriodDeadline(provingActivationEpoch[d], n,
                                                  proving.maxProvingPeriod)
               IN  /\ n # NoPeriod
                   /\ deadline = provingDeadlines[d]
                   /\ blockNumber \in deadline - proving.maxProvingPeriod + 1 .. deadline
<1>1. Init => GridInv
  BY InitGrid
<1>2. GridInv /\ [Next]_vars => GridInv'
  BY NextGrid
<1>3. GridInv /\ [Next]_vars => [ForItsOwnPeriod]_vars
  <2> SUFFICES ASSUME GridInv, [Next]_vars PROVE ForItsOwnPeriod
    OBVIOUS
  <2>1. IInv'
    BY NextIInv DEF GridInv
  <2>2. ASSUME NEW d \in DataSetIds, PossessionProven(d)
        PROVE  ForItsOwnPeriod
    <3>1. PICK n \in Nat :
            /\ DeadlineOfPeriod(d, n)
            /\ ProvingPeriodForEpoch(provingActivationEpoch[d], blockNumber,
                                     proving.maxProvingPeriod) = n
            /\ blockNumber \in provingDeadlines[d] - proving.maxProvingPeriod + 1
                                 .. provingDeadlines[d]
      BY <2>2, ProofInPeriod
    <3>2. provenPeriods' = [provenPeriods EXCEPT ![d] = provenPeriods[d] \cup {n}]
      BY <2>2, <3>1 DEF PossessionProven
    <3>3. provenPeriods \in [DataSetIds -> SUBSET Nat]
      BY DEF GridInv, IInv, TypeOK
    <3>4. n # NoPeriod
      BY DEF NoPeriod
    <3>5. QED BY <3>1, <3>2, <3>3, <3>4 DEF DeadlineOfPeriod
  <2>3. CASE ~ \E d \in DataSetIds : PossessionProven(d)
    <3>1. UNCHANGED provenPeriods
      <4>1. CASE \E d \in DataSetIds : DataSetDeleted(d) \/ NextProvingPeriod(d)
        BY <2>1, <4>1, NextProvingPeriodGrid DEF DataSetDeleted
      <4>2. CASE ~ \E d \in DataSetIds : DataSetDeleted(d) \/ NextProvingPeriod(d)
        BY <2>3, <4>2, OtherStepsLeaveSchedule DEF schedule
      <4>3. QED BY <4>1, <4>2
    <3>2. QED BY <3>1
  <2>4. QED BY <2>2, <2>3
<1>4. QED BY <1>1, <1>2, <1>3, PTL DEF Spec, ProofsCountForTheirOwnPeriod

-----------------------------------------------------------------------------
(* Settlement waits for proofs that may still arrive: one range.           *)

\* A period whose deadline has not passed and that has no proof holds settlement back to
\* the end of the period before, unless the range begins later.
LEMMA OpenPeriodHoldsBack ==
  ASSUME NEW proven \in SUBSET Nat, NEW from \in Nat, NEW to \in Nat, from < to,
         NEW A \in Nat \ {0}, NEW M \in Nat \ {0}, NEW now \in Nat,
         NEW p \in Nat, p \notin proven, now <= CalcPeriodDeadline(A, p, M),
         FindProvenEpochs(proven, from, to, A, M, now).ok
  PROVE  LET upTo == FindProvenEpochs(proven, from, to, A, M, now).settleUpTo
         IN  upTo <= from \/ upTo <= CalcPeriodDeadline(A, p, M) - M
<1> DEFINE start    == Max({from, A})
           deadline(q) == CalcPeriodDeadline(A, q, M)
           first    == ProvingPeriodForEpoch(A, start + 1, M)
           final    == ProvingPeriodForEpoch(A, to, M)
           resolved == {q \in first .. final : q \in proven \/ DeadlinePassed(deadline(q), now)}
           reached  == {start} \cup {Min({to, deadline(q)}) : q \in resolved}
           upTo     == FindProvenEpochs(proven, from, to, A, M, now).settleUpTo
           bound    == deadline(p) - M
<1>1. A < to /\ to <= now /\ upTo = Max(reached)
  <2>1. to > A /\ to <= now
    BY DEF FindProvenEpochs, Reverted
  <2>2. QED BY <2>1 DEF FindProvenEpochs
<1>2. start \in Nat /\ A <= start /\ start < to /\ start \in {from, A}
  BY <1>1, MaxOfTwo
<1>3. ASSUME NEW q \in Nat PROVE deadline(q) = A + M * (q + 1) /\ M * (q + 1) \in Nat /\ deadline(q) \in Nat
  BY DEF CalcPeriodDeadline
<1>4. bound = A + M * p /\ M * p \in Nat /\ M * (p + 1) = M * p + M
  BY <1>3
<1>5. first \in Nat /\ final \in Nat /\ M * final <= to - A - 1
  <2>1. first \in Nat /\ final \in Nat
    <3>1. start + 1 \in Nat /\ A < start + 1
      BY <1>2
    <3> HIDE DEF start
    <3>2. QED BY <1>1, <3>1, PeriodExists
  <2>2. to - A - 1 \in Nat
    BY <1>1
  <2>3. final = (to - A - 1) \div M
    BY <1>1 DEF ProvingPeriodForEpoch, NeverActivated
  <2>4. QED BY <2>1, <2>2, <2>3, DivisionBounds
<1>6. final <= p
  <2>1. to <= A + M * (p + 1)
    <3>1. now <= deadline(p) /\ deadline(p) = A + M * (p + 1)
      BY <1>3
    <3> HIDE DEF deadline
    <3>2. QED BY <1>1, <1>3, <3>1
  <2>2. p + 1 \in Nat /\ (p + 1 <= final <=> M * (p + 1) <= M * final)
    <3> HIDE DEF final
    <3> QED BY <1>5, MultiplesInOrder
  <2>3. M * final \in Nat /\ M * (p + 1) \in Nat
    BY <1>3, <1>5
  <2> HIDE DEF final
  <2>4. QED BY <1>5, <2>1, <2>2, <2>3
<1>7. ASSUME NEW q \in resolved PROVE deadline(q) \in Nat /\ deadline(q) <= bound
  <2>1. q \in first .. final /\ (q \in proven \/ DeadlinePassed(deadline(q), now))
    OBVIOUS
  <2> HIDE DEF first, final
  <2>2. q \in Nat /\ q <= p
    BY <1>5, <1>6, <2>1
  <2>3. q # p
    <3>1. ~DeadlinePassed(deadline(p), now)
      <4>1. deadline(p) \in Nat /\ now <= deadline(p)
        BY <1>3
      <4> HIDE DEF deadline
      <4>2. QED BY <4>1 DEF DeadlinePassed
    <3> HIDE DEF deadline
    <3>2. QED BY <2>1, <3>1
  <2>4. q + 1 \in Nat /\ q + 1 <= p
    BY <2>2, <2>3
  <2>5. M * (q + 1) <= M * p
    BY <2>4, MultiplesInOrder
  <2>6. deadline(q) = A + M * (q + 1) /\ M * (q + 1) \in Nat
    BY <1>3, <2>2
  <2> HIDE DEF deadline, bound
  <2>7. QED BY <1>4, <2>5, <2>6
<1>8. ASSUME NEW x \in reached PROVE x \in Int /\ x <= to /\ (x <= from \/ x <= bound)
  <2>1. CASE x = start
    <3> HIDE DEF start, bound
    <3> QED BY <1>2, <1>4, <2>1
  <2>2. CASE x # start
    <3>1. PICK q \in resolved : x = Min({to, deadline(q)})
      <4> HIDE DEF resolved, start, deadline
      <4> QED BY <2>2
    <3>2. deadline(q) \in Nat /\ deadline(q) <= bound
      BY <1>7
    <3> HIDE DEF deadline, resolved, start
    <3>3. x = IF to <= deadline(q) THEN to ELSE deadline(q)
      BY <3>1, <3>2, MinOfTwo
    <3> HIDE DEF bound
    <3>4. bound \in Int
      BY <1>4
    <3>5. QED BY <3>2, <3>3, <3>4
  <2>3. QED BY <2>1, <2>2
<1>9. Max(reached) \in reached
  <2>1. reached # {}
    OBVIOUS
  <2> HIDE DEF reached
  <2>2. reached \in SUBSET Int /\ (\A x \in reached : x <= to) /\ to \in Int
    BY <1>8
  <2>3. QED BY <2>1, <2>2, MaxOfBoundedSet, Zenon
<1>10. upTo <= from \/ upTo <= bound
  <2> HIDE DEF reached, bound, upTo
  <2> QED BY <1>1, <1>8, <1>9
<1>11. QED BY <1>10

-----------------------------------------------------------------------------
(* Settlement waits for proofs that may still arrive: one call.            *)

\* Rates that were charged are positive, so that FilecoinPay asks the validator about
\* every segment.
RatesCharged(rail) ==
  /\ rail.rate = 0 => rail.rateChangeQueue = << >>
  /\ \A i \in 1 .. Len(rail.rateChangeQueue) : rail.rateChangeQueue[i].rate > 0

\* The validator is asked about each segment, and what it answers is held back.
LEMMA SegmentHeldBack ==
  ASSUME OrderInv, NEW r \in RailIds, rails[r].status = "active",
         NEW d \in DataSetIds, railToDataSet[r] = d, provingActivationEpoch[d] # NeverActivated,
         rails[r].rate > 0, RatesCharged(rails[r]),
         NEW target \in Nat, NEW i \in Segments(rails[r], target),
         AcceptsOutcome(rails[r], target, i, Outcomes(r, target)[i]),
         NEW p \in Nat, p \notin provenPeriods[d],
         blockNumber <= CalcPeriodDeadline(provingActivationEpoch[d], p, proving.maxProvingPeriod)
  PROVE  LET upTo == Outcomes(r, target)[i].settleUpTo
         IN  /\ upTo \in SegmentStart(rails[r], i) .. SegmentEnd(rails[r], target, i)
             /\ SegmentStart(rails[r], i) < SegmentEnd(rails[r], target, i)
             /\ SegmentStart(rails[r], i) \in Nat
             /\ SegmentEnd(rails[r], target, i) \in Nat
             /\ \/ upTo <= SegmentStart(rails[r], i)
                \/ upTo <= CalcPeriodDeadline(provingActivationEpoch[d], p, proving.maxProvingPeriod)
                             - proving.maxProvingPeriod
<1> DEFINE rail   == rails[r]
           queue  == rail.rateChangeQueue
           start  == SegmentStart(rail, i)
           end    == SegmentEnd(rail, target, i)
           rate   == SegmentRate(rail, i)
           A      == provingActivationEpoch[d]
           M      == proving.maxProvingPeriod
           proven == provenPeriods[d]
           answer == Outcomes(r, target)[i]
<1>1. rail \in Rail /\ InOrder(rail, blockNumber) /\ blockNumber \in Nat
  BY BlockNumberType DEF OrderInv, RailsInOrder, IInv, TypeOK
<1>2. i \in 1 .. Len(queue) + 1
  BY DEF Segments
<1>3. start \in Nat /\ end \in Nat /\ start < end /\ rate \in Nat
  <2> HIDE DEF rail
  <2>1. i \in Segments(rail, target)
    BY DEF rail
  <2>2. QED BY <1>1, <1>2, <2>1, SegmentType, SegmentNotEmpty
<1>4. A \in Nat \ {0} /\ M \in Nat \ {0} /\ proven \in SUBSET Nat
  BY DEF OrderInv, IInv, TypeOK, NeverActivated
<1>5. rate > 0
  <2> HIDE DEF rail
  <2>1. Len(queue) \in Nat /\ rail.rate > 0 /\ RatesCharged(rail)
    BY <1>1, QueueType DEF rail
  <2>2. QED BY <1>2, <2>1 DEF SegmentRate, RatesCharged
<1>6. answer = ValidatePayment(proven, start, end, rate, A, M, blockNumber)
  <2>1. d # NoDataSet
    BY DEF DataSetIds, NoDataSet
  <2>2. rate # 0
    <3> HIDE DEF rate
    <3> QED BY <1>3, <1>5
  <2>3. QED BY <2>1, <2>2 DEF Outcomes
<1>7. answer.ok /\ answer.settleUpTo \in start .. end
  BY DEF AcceptsOutcome
<1> HIDE DEF answer, rate, start, end, A, M, proven
<1>8. LET found == FindProvenEpochs(proven, start, end, A, M, blockNumber)
      IN  answer.ok = found.ok /\ answer.settleUpTo = found.settleUpTo
  BY <1>4, <1>6 DEF ValidatePayment, NeverActivated
<1>9. p \notin proven /\ blockNumber <= CalcPeriodDeadline(A, p, M)
  BY DEF proven, A, M
<1>10. answer.settleUpTo <= start \/ answer.settleUpTo <= CalcPeriodDeadline(A, p, M) - M
  BY <1>1, <1>3, <1>4, <1>7, <1>8, <1>9, OpenPeriodHoldsBack
<1>11. QED BY <1>3, <1>7, <1>10 DEF answer, start, end, A, M

\* The epoch up to which a call of settleRail settles.
SettlementReached(r, untilEpoch) ==
  LET target   == TargetOf(r, untilEpoch)
      outcomes == Outcomes(r, target)
  IN  outcomes[LastSegment(rails[r], target, outcomes)].settleUpTo

\* A call of settleRail stops at or before the end of the period that precedes an open one,
\* however many rates it passes.
LEMMA SettlementStopsBefore ==
  ASSUME OrderInv, NEW r \in RailIds, NEW e \in Nat, SettleRail(r, e),
         NEW d \in DataSetIds, railToDataSet[r] = d, provingActivationEpoch[d] # NeverActivated,
         rails[r].rate > 0, RatesCharged(rails[r]),
         NEW p \in Nat, p \notin provenPeriods[d],
         blockNumber <= CalcPeriodDeadline(provingActivationEpoch[d], p, proving.maxProvingPeriod),
         rails[r].settledUpTo <=
           CalcPeriodDeadline(provingActivationEpoch[d], p, proving.maxProvingPeriod)
             - proving.maxProvingPeriod
  PROVE  SettlementReached(r, e) <=
           CalcPeriodDeadline(provingActivationEpoch[d], p, proving.maxProvingPeriod)
             - proving.maxProvingPeriod
<1> DEFINE rail     == rails[r]
           queue    == rail.rateChangeQueue
           target   == TargetOf(r, e)
           outcomes == Outcomes(r, target)
           last     == LastSegment(rail, target, outcomes)
           upTo     == outcomes[last].settleUpTo
           bound    == CalcPeriodDeadline(provingActivationEpoch[d], p, proving.maxProvingPeriod)
                         - proving.maxProvingPeriod
<1>1. /\ rail.status = "active" /\ rail \in Rail /\ InOrder(rail, blockNumber)
      /\ rail.payer \in Payers /\ blockNumber \in Nat
  BY BlockNumberType DEF SettleRail, OrderInv, RailsInOrder, IInv, TypeOK, PayersKnown
<1>2. target \in Nat
  BY <1>1, LockupLastSettledAtType, SettlementTargetType DEF TargetOf, OrderInv
<1>3. CanSettle(rail, target, outcomes) /\ rails' = [rails EXCEPT ![r] = Settled(rail, target, outcomes)]
  BY DEF SettleRail
<1>4. /\ last \in Segments(rail, target)
      /\ AcceptsOutcome(rail, target, last, outcomes[last])
      /\ \A i \in Segments(rail, target) : i < last =>
           /\ AcceptsOutcome(rail, target, i, outcomes[i])
           /\ ~(outcomes[i].settleUpTo < SegmentEnd(rail, target, i))
  <2>1. rail.settledUpTo < target /\ AcceptsOutcome(rail, target, last, outcomes[last])
    BY <1>3 DEF CanSettle
  <2> HIDE DEF rail, target, outcomes
  <2>2. QED BY <1>1, <1>2, <2>1, LastSegmentExists
<1>5. bound \in Int
  BY DEF OrderInv, IInv, TypeOK, CalcPeriodDeadline
<1>6. ASSUME NEW i \in Segments(rail, target), AcceptsOutcome(rail, target, i, outcomes[i])
      PROVE  /\ outcomes[i].settleUpTo \in SegmentStart(rail, i) .. SegmentEnd(rail, target, i)
             /\ SegmentStart(rail, i) < SegmentEnd(rail, target, i)
             /\ SegmentStart(rail, i) \in Nat
             /\ SegmentEnd(rail, target, i) \in Nat
             /\ outcomes[i].settleUpTo <= SegmentStart(rail, i) \/ outcomes[i].settleUpTo <= bound
  <2>1. rails[r].status = "active"
    BY <1>1
  <2> HIDE DEF target
  <2>2. QED BY <1>2, <1>6, <2>1, SegmentHeldBack
<1>7. SegmentStart(rail, last) <= bound
  <2>1. CASE last = 1
    <3>1. SegmentStart(rail, last) = rail.settledUpTo
      BY <2>1 DEF SegmentStart
    <3>2. QED BY <3>1
  <2>2. CASE last # 1
    <3> DEFINE j == last - 1
    <3> HIDE DEF last
    <3>1. /\ Len(queue) \in Nat /\ rail.settledUpTo \in Nat
          /\ \A i \in 1 .. Len(queue) : queue[i].untilEpoch \in Nat
      BY <1>1, QueueType DEF Rail
    <3>2. last \in 2 .. Len(queue) + 1 /\ SegmentStart(rail, last) < target
      BY <1>4, <2>2, <3>1 DEF Segments
    <3>3. j \in 1 .. Len(queue) /\ SegmentStart(rail, last) = queue[j].untilEpoch
      BY <3>1, <3>2 DEF SegmentStart
    <3>4. j < last
      BY <3>2
    <3> HIDE DEF j
    <3>5. SegmentStart(rail, j) < queue[j].untilEpoch /\ SegmentStart(rail, j) \in Nat
      <4>1. CASE j = 1
        BY <1>1, <3>1, <3>3, <4>1 DEF SegmentStart, InOrder
      <4>2. CASE j # 1
        <5>1. j - 1 \in 1 .. Len(queue) /\ j - 1 < j
          BY <3>1, <3>3, <4>2
        <5>2. queue[j - 1].untilEpoch < queue[j].untilEpoch
          BY <1>1, <3>3, <5>1 DEF InOrder
        <5>3. QED BY <3>1, <4>2, <5>1, <5>2 DEF SegmentStart
      <4>3. QED BY <4>1, <4>2
    <3>6. queue[j].untilEpoch \in Nat /\ queue[j].untilEpoch < target
      BY <3>1, <3>2, <3>3
    <3>7. j \in Segments(rail, target)
      <4> HIDE DEF target, rail
      <4>1. SegmentStart(rail, j) < target
        BY <1>2, <3>5, <3>6
      <4>2. j \in 1 .. Len(queue) + 1
        BY <3>1, <3>3
      <4>3. QED BY <4>1, <4>2 DEF Segments
    <3>8. SegmentEnd(rail, target, j) = queue[j].untilEpoch
      <4> DEFINE until == queue[j].untilEpoch
      <4>1. SegmentEnd(rail, target, j) = Min({target, until})
        BY <3>3 DEF SegmentEnd
      <4>2. until \in Nat /\ until < target
        BY <3>6
      <4> HIDE DEF until, target
      <4>3. SegmentEnd(rail, target, j) = until
        BY <1>2, <4>1, <4>2, MinOfTwo
      <4>4. QED BY <4>3 DEF until
    <3>9. /\ AcceptsOutcome(rail, target, j, outcomes[j])
          /\ ~(outcomes[j].settleUpTo < SegmentEnd(rail, target, j))
      <4> HIDE DEF rail, target, outcomes
      <4> QED BY <1>4, <3>7, <3>4
    <3>10. /\ outcomes[j].settleUpTo \in SegmentStart(rail, j) .. SegmentEnd(rail, target, j)
           /\ outcomes[j].settleUpTo <= SegmentStart(rail, j) \/ outcomes[j].settleUpTo <= bound
      <4> HIDE DEF rail, target, outcomes, bound
      <4> QED BY <1>6, <3>7, <3>9
    <3> DEFINE until == queue[j].untilEpoch
               begun == SegmentStart(rail, j)
               got   == outcomes[j].settleUpTo
    <3>11. /\ until \in Nat /\ begun \in Nat /\ begun < until
           /\ got \in begun .. until /\ ~(got < until)
           /\ got <= begun \/ got <= bound
      <4> HIDE DEF rail, target, outcomes, bound
      <4> QED BY <3>5, <3>6, <3>8, <3>9, <3>10
    <3>12. SegmentStart(rail, last) = until
      BY <3>3
    <3> HIDE DEF until, begun, got, bound
    <3>13. until <= bound
      BY <1>5, <3>11
    <3>14. QED BY <3>12, <3>13
  <2>3. QED BY <2>1, <2>2
<1>8. upTo <= bound
  <2>1. /\ upTo \in SegmentStart(rail, last) .. SegmentEnd(rail, target, last)
        /\ SegmentStart(rail, last) \in Nat
        /\ upTo <= SegmentStart(rail, last) \/ upTo <= bound
    <3> HIDE DEF rail, target, outcomes, last, bound
    <3> QED BY <1>4, <1>6
  <2> HIDE DEF upTo, last, bound, rail
  <2>2. QED BY <1>5, <1>7, <2>1
<1>9. QED BY <1>8 DEF SettlementReached

\* A rail that a settlement does not finalize is settled up to the epoch it reached.
LEMMA SettledUpToReached ==
  ASSUME IInv, NEW r \in RailIds, NEW e \in Nat, SettleRail(r, e), rails'[r].status = "active"
  PROVE  rails'[r].settledUpTo = SettlementReached(r, e)
<1> DEFINE rail     == rails[r]
           queue    == rail.rateChangeQueue
           target   == TargetOf(r, e)
           outcomes == Outcomes(r, target)
           last     == LastSegment(rail, target, outcomes)
           upTo     == outcomes[last].settleUpTo
           passed   == {i \in 1 .. last : i <= Len(queue) /\ upTo >= queue[i].untilEpoch}
           left     == SubSeq(queue, Cardinality(passed) + 1, Len(queue))
<1>1. rails' = [rails EXCEPT ![r] = Settled(rail, target, outcomes)] /\ rail \in Rail
  BY DEF SettleRail, IInv, TypeOK
<1>2. rails'[r] = Settled(rail, target, outcomes)
  BY <1>1 DEF IInv, TypeOK
<1>3. ~(rail.endEpoch # NotEnded /\ upTo >= rail.endEpoch)
  BY <1>2 DEF Settled, FinalizedRail, NoRail
<1>4. Settled(rail, target, outcomes) = [rail EXCEPT !.settledUpTo = upTo, !.rateChangeQueue = left]
  <2> HIDE DEF rail, target, outcomes
  <2> QED BY <1>3, Zenon DEF Settled
<1>5. Settled(rail, target, outcomes).settledUpTo = upTo
  <2> HIDE DEF rail, left, upTo
  <2> QED BY <1>1, <1>4 DEF Rail
<1>6. QED BY <1>2, <1>5 DEF SettlementReached

\* So it leaves the rail at or before that end.
LEMMA SettlementHeldBack ==
  ASSUME OrderInv, NEW r \in RailIds, NEW e \in Nat, SettleRail(r, e),
         rails'[r].status = "active",
         NEW d \in DataSetIds, railToDataSet[r] = d, provingActivationEpoch[d] # NeverActivated,
         rails[r].rate > 0, RatesCharged(rails[r]),
         NEW p \in Nat, p \notin provenPeriods[d],
         blockNumber <= CalcPeriodDeadline(provingActivationEpoch[d], p, proving.maxProvingPeriod),
         rails[r].settledUpTo <=
           CalcPeriodDeadline(provingActivationEpoch[d], p, proving.maxProvingPeriod)
             - proving.maxProvingPeriod
  PROVE  rails'[r].settledUpTo <=
           CalcPeriodDeadline(provingActivationEpoch[d], p, proving.maxProvingPeriod)
             - proving.maxProvingPeriod
BY SettlementStopsBefore, SettledUpToReached DEF OrderInv

-----------------------------------------------------------------------------
(* Settlement waits for proofs that may still arrive: the invariant.       *)

\* The minimum rate is positive, and so is every rate that was charged.
RailsCharged ==
  /\ pricing.minimumRate > 0
  /\ \A r \in RailIds : rails[r].status = "active" => RatesCharged(rails[r])

\* A data set with pieces, or whose proving ever started, is charged for.
DataSetsCharged ==
  \A d \in DataSetIds :
    IF Live(d)
    THEN (pdp[d].pieces # {} \/ provingActivationEpoch[d] # NeverActivated)
           /\ PdpRail(d).status = "active" => PdpRail(d).rate > 0
    ELSE pdp[d].pieces = {} /\ provingActivationEpoch[d] = NeverActivated

\* No period without a proof whose deadline did not pass is settled.
OpenPeriodWaits(d, p) ==
  LET A == provingActivationEpoch[d]
      M == proving.maxProvingPeriod
  IN  /\ Live(d) /\ A # NeverActivated /\ PdpRail(d).status = "active"
      /\ p \notin provenPeriods[d] /\ blockNumber <= CalcPeriodDeadline(A, p, M)
      => PdpRail(d).settledUpTo <= CalcPeriodDeadline(A, p, M) - M

OpenPeriodsWait == \A d \in DataSetIds : \A p \in Nat : OpenPeriodWaits(d, p)

\* The history counts the starts of proving.
StartsCounted ==
  /\ DOMAIN audit = DataSetIds
  /\ \A d \in DataSetIds : "activations" \in DOMAIN audit[d] /\ audit[d].activations \in Nat

\* Before proving first starts nothing is marked; until it starts again no mark is
\* ahead of the pending deadline, and that deadline's own only if it was just set.
MarksNotAhead(d) ==
  LET deadlineOf(p) == CalcPeriodDeadline(provingActivationEpoch[d], p, proving.maxProvingPeriod)
  IN  /\ audit[d].activations = 0 =>
           provenPeriods[d] = {} /\ provingDeadlines[d] = NoProvingDeadline
      /\ audit[d].activations = 1 /\ provingDeadlines[d] # NoProvingDeadline =>
           \A p \in provenPeriods[d] :
             /\ deadlineOf(p) <= provingDeadlines[d]
             /\ ~provenThisPeriod[d] =>
                  deadlineOf(p) <= provingDeadlines[d] - proving.maxProvingPeriod

MarksInv == StartsCounted /\ \A d \in DataSetIds : MarksNotAhead(d)

RateInv == RailsCharged /\ DataSetsCharged

WaitInv == GridInv /\ OrderInv /\ DataSetInv /\ RateInv /\ OpenPeriodsWait /\ MarksInv

\* Nothing was charged or proven before the contract is initialized.
LEMMA InitWait == Init => WaitInv
<1> SUFFICES ASSUME Init PROVE WaitInv
  OBVIOUS
<1>1. GridInv /\ OrderInv /\ DataSetInv
  BY InitGrid, InitOrder, InitDataSetInv
<1>2. /\ pricing.minimumRate > 0
      /\ \A r \in RailIds : rails[r].status = "none"
      /\ \A d \in DataSetIds : /\ ~Live(d)
                               /\ pdp[d].pieces = {}
                               /\ provingActivationEpoch[d] = NeverActivated
  BY Constants DEF Init, NoRail, Live, ConstantsAssumption
<1>3. /\ DOMAIN audit = DataSetIds
      /\ \A d \in DataSetIds : /\ audit[d] = NoAudit
                               /\ provenPeriods[d] = {}
                               /\ provingDeadlines[d] = NoProvingDeadline
  BY DEF Init
<1>4. "activations" \in DOMAIN NoAudit /\ NoAudit.activations = 0
  BY DEF NoAudit
<1>5. MarksInv
  BY <1>3, <1>4 DEF MarksInv, StartsCounted, MarksNotAhead
<1>6. RateInv /\ OpenPeriodsWait
  BY <1>2 DEF RateInv, RailsCharged, DataSetsCharged, OpenPeriodsWait, OpenPeriodWaits
<1>7. QED BY <1>1, <1>5, <1>6 DEF WaitInv

-----------------------------------------------------------------------------
(* What a step does to the charges of a rail.                              *)

ChargedAsBefore(r) ==
  /\ rails[r].status = "active"
  /\ rails'[r].rate = rails[r].rate
  /\ rails'[r].settledUpTo = rails[r].settledUpTo
  /\ rails'[r].rateChangeQueue = rails[r].rateChangeQueue
  /\ rails[r].endEpoch \in {NotEnded, rails'[r].endEpoch}

CreatedNow(r) ==
  /\ r >= nextIds.rail
  /\ rails'[r].rate = 0 /\ rails'[r].rateChangeQueue = << >>
  /\ rails'[r].settledUpTo = blockNumber

\* Nothing, or its creation, a positive rate or a settlement.
RailStaysCharged(r) ==
  rails'[r].status = "active" =>
    \/ ChargedAsBefore(r)
    \/ CreatedNow(r)
    \/ /\ rails[r].status = "active"
       /\ \E rate \in Nat \ {0} : rails'[r] = SetRate(rails[r], rate, blockNumber)
    \/ \E untilEpoch \in Epochs : SettleRail(r, untilEpoch)

RailsStayCharged == \A r \in RailIds : RailStaysCharged(r)

LEMMA UntouchedRailsStayCharged ==
  ASSUME UNCHANGED rails
  PROVE  RailsStayCharged
BY DEF RailsStayCharged, RailStaysCharged, ChargedAsBefore

\* terminateRail and the operations on the fixed lockup.
LEMMA OtherOperationsKeepCharges ==
  ASSUME IInv,
         \A r \in RailIds :
           \/ rails'[r] = rails[r]
           \/ \E n \in Nat : \/ IsRunning(rails[r]) /\ rails'[r] = Terminate(rails[r], n)
                             \/ rails'[r] = PayOnce(rails[r], n)
                             \/ rails'[r] = RaiseLockup(rails[r], n)
  PROVE  RailsStayCharged
<1>1. ASSUME NEW rail \in Rail, NEW n \in Nat
      PROVE  \A next \in {Terminate(rail, n), PayOnce(rail, n), RaiseLockup(rail, n)} :
               /\ next.status = rail.status
               /\ next.rate = rail.rate
               /\ next.settledUpTo = rail.settledUpTo
               /\ next.rateChangeQueue = rail.rateChangeQueue
               /\ next # Terminate(rail, n) => next.endEpoch = rail.endEpoch
  BY DEF Rail, Terminate, PayOnce, RaiseLockup
<1>2. ASSUME NEW r \in RailIds, rails'[r].status = "active"
      PROVE  ChargedAsBefore(r)
  <2>1. CASE rails'[r] = rails[r]
    BY <1>2, <2>1 DEF ChargedAsBefore
  <2>2. CASE rails'[r] # rails[r]
    <3>1. PICK n \in Nat : \/ IsRunning(rails[r]) /\ rails'[r] = Terminate(rails[r], n)
                           \/ rails'[r] = PayOnce(rails[r], n)
                           \/ rails'[r] = RaiseLockup(rails[r], n)
      BY <2>2
    <3>2. rails[r] \in Rail
      BY DEF IInv, TypeOK
    <3>3. /\ rails'[r].status = rails[r].status
          /\ rails'[r].rate = rails[r].rate
          /\ rails'[r].settledUpTo = rails[r].settledUpTo
          /\ rails'[r].rateChangeQueue = rails[r].rateChangeQueue
      BY <1>1, <3>1, <3>2
    <3>4. rails[r].endEpoch \in {NotEnded, rails'[r].endEpoch}
      <4>1. CASE rails'[r] = Terminate(rails[r], n)
        BY <3>1, <4>1, <1>1, <3>2 DEF IsRunning, PayOnce, RaiseLockup, Rail
      <4>2. CASE rails'[r] # Terminate(rails[r], n)
        BY <1>1, <3>1, <3>2, <4>2
      <4>3. QED BY <4>1, <4>2
    <3>5. QED BY <1>2, <3>3, <3>4 DEF ChargedAsBefore
  <2>3. QED BY <2>1, <2>2
<1>3. QED BY <1>2 DEF RailsStayCharged, RailStaysCharged

\* dataSetCreated.
LEMMA DataSetCreatedKeepsCharges ==
  ASSUME IInv, NEW p \in Payers, NEW n \in Nonces, NEW cdn \in CdnOptions, DataSetCreated(p, n, cdn)
  PROVE  RailsStayCharged
<1>1. \A l : /\ NewRail(p, blockNumber, l).rate = 0
             /\ NewRail(p, blockNumber, l).rateChangeQueue = << >>
             /\ NewRail(p, blockNumber, l).settledUpTo = blockNumber
  BY DEF NewRail, NoRail
<1>2. nextIds.rail \in Nat
  BY DEF IInv, TypeOK
<1>3. ASSUME NEW r \in RailIds
      PROVE  \/ rails'[r] = rails[r]
             \/ /\ r >= nextIds.rail
                /\ \E l \in {0, CacheMissLockup, CdnLockup} : rails'[r] = NewRail(p, blockNumber, l)
  BY <1>2 DEF DataSetCreated
<1>4. QED BY <1>1, <1>3 DEF RailsStayCharged, RailStaysCharged, ChargedAsBefore, CreatedNow

\* _calculateStorageRate never goes below the minimum rate.
LEMMA StorageRatePositive ==
  ASSUME IInv, pricing.minimumRate > 0, NEW pieceCount \in Nat
  PROVE  StorageRate(pieceCount) \in Nat \ {0}
<1>1. pricing.storagePrice \in Nat /\ pricing.minimumRate \in Nat
  BY DEF IInv, TypeOK
<1>2. DustRate \in Nat /\ PiecesPerUnit \in Nat \ {0}
  BY Constants DEF ConstantsAssumption
<1>3. pieceCount * pricing.storagePrice \in Nat
  BY <1>1
<1>4. (pieceCount * pricing.storagePrice) \div PiecesPerUnit \in Nat
  BY <1>2, <1>3, DivisionBounds
<1>5. QED BY <1>1, <1>2, <1>4, MaxOfTwo DEF StorageRate

\* updatePaymentRates: a positive rate on the data set's PDP rail.
LEMMA UpdatePaymentRatesEffect ==
  ASSUME IInv, pricing.minimumRate > 0, NEW d \in DataSetIds, NEW pieceCount \in Nat,
         UpdatePaymentRates(d, pieceCount)
  PROVE  /\ RailsStayCharged
         /\ rails'[dataSetInfo[d].pdpRailId].rate > 0
<1> DEFINE r == dataSetInfo[d].pdpRailId
           rate == StorageRate(pieceCount)
<1>1. r \in RailIds /\ rails \in [RailIds -> Rail]
  BY DEF UpdatePaymentRates, IInv, TypeOK, DataSetInfo
<1>2. rails[r] \in Rail /\ rate \in Nat \ {0} /\ blockNumber \in Nat
  BY <1>1, StorageRatePositive, BlockNumberType
<1>3. /\ rails[r].status = "active"
      /\ rails' = [rails EXCEPT ![r] = SetRate(rails[r], rate, blockNumber)]
  BY DEF UpdatePaymentRates, CanSetRate
<1> HIDE DEF r, rate
<1>4. /\ rails'[r] = SetRate(rails[r], rate, blockNumber)
      /\ \A i \in RailIds : i # r => rails'[i] = rails[i]
  BY <1>1, <1>3
<1>5. rails'[r].rate = rate
  BY <1>2, <1>4, SetRateEffect
<1>6. RailsStayCharged
  BY <1>2, <1>3, <1>4 DEF RailsStayCharged, RailStaysCharged, ChargedAsBefore
<1>7. QED BY <1>2, <1>5, <1>6 DEF r

\* processScheduledPieceMetadataRemovals.
LEMMA ScheduledRemovalsKeepCharges ==
  ASSUME IInv, pricing.minimumRate > 0, NEW d \in DataSetIds, NEW pieceCount \in Nat,
         ProcessScheduledRemovals(d, pieceCount)
  PROVE  RailsStayCharged
BY UpdatePaymentRatesEffect, UntouchedRailsStayCharged DEF ProcessScheduledRemovals

LEMMA EpochsAreNaturals == Epochs \subseteq Nat
BY Constants DEF Epochs, ConstantsAssumption

\* settleRail leaves the other rails alone.
LEMMA SettleRailKeepsCharges ==
  ASSUME IInv, NEW r \in RailIds, NEW untilEpoch \in Epochs, SettleRail(r, untilEpoch)
  PROVE  RailsStayCharged
<1>1. \E new : rails' = [rails EXCEPT ![r] = new]
  BY DEF SettleRail
<1>2. \A i \in RailIds : i # r => rails'[i] = rails[i]
  BY <1>1 DEF IInv, TypeOK
<1>3. QED BY <1>2 DEF RailsStayCharged, RailStaysCharged, ChargedAsBefore

\* settleTerminatedRailWithoutValidation finalizes the rail.
LEMMA UnvalidatedSettlementKeepsCharges ==
  ASSUME IInv, NEW d \in DataSetIds, SettleTerminatedRailWithoutValidation(d)
  PROVE  RailsStayCharged
<1> DEFINE r == dataSetInfo[d].pdpRailId
<1>1. rails' = [rails EXCEPT ![r] = FinalizedRail] /\ rails \in [RailIds -> Rail]
  BY DEF SettleTerminatedRailWithoutValidation, IInv, TypeOK
<1>2. FinalizedRail.status # "active"
  BY DEF FinalizedRail, NoRail
<1>3. \A i \in RailIds : rails'[i] = rails[i] \/ rails'[i].status # "active"
  <2> HIDE DEF r
  <2> QED BY <1>1, <1>2
<1>4. QED BY <1>3 DEF RailsStayCharged, RailStaysCharged, ChargedAsBefore

\* Every step.
LEMMA NextKeepsCharges ==
  ASSUME IInv, pricing.minimumRate > 0, [Next]_vars
  PROVE  RailsStayCharged
<1>1. CASE PDPVerifierStep
  <2>1. ASSUME NEW p \in Payers, NEW n \in Nonces, NEW cdn \in CdnOptions,
               DataSetCreated(p, n, cdn)
        PROVE  RailsStayCharged
    BY <2>1, DataSetCreatedKeepsCharges
  <2>2. ASSUME NEW d \in DataSetIds, NEW s,
               \/ DataSetDeleted(d)
               \/ PiecesScheduledRemove(d, s)
               \/ PossessionProven(d)
        PROVE  RailsStayCharged
    BY <2>2, UntouchedRailsStayCharged
       DEF DataSetDeleted, PiecesScheduledRemove, PossessionProven, external
  <2>3. ASSUME NEW d \in DataSetIds, NEW count \in 1 .. MaxPieces, NEW n \in Nonces,
               PiecesAdded(d, count, n)
        PROVE  RailsStayCharged
    <3> DEFINE pieces == pdp[d].pieces \cup (pdp[d].nextPieceId .. pdp[d].nextPieceId + count - 1)
    <3>1. pieces \in SUBSET PieceIds
      BY <2>3 DEF PiecesAdded, IInv, TypeOK, VerifierDataSet
    <3>2. UpdatePaymentRates(d, Cardinality(pieces))
      BY <2>3 DEF PiecesAdded
    <3> HIDE DEF pieces
    <3>3. QED BY <3>1, <3>2, PieceCountType, UpdatePaymentRatesEffect
  <2>4. ASSUME NEW d \in DataSetIds, NextProvingPeriod(d)
        PROVE  RailsStayCharged
    <3>1. ProcessScheduledRemovals(d, Cardinality(PiecesAfterRemovals(d)))
      BY <2>4 DEF NextProvingPeriod, StartProving, AdvanceProvingPeriod
    <3>2. QED BY <3>1, PiecesLeftType, ScheduledRemovalsKeepCharges
  <2>5. QED BY <1>1, <2>1, <2>2, <2>3, <2>4 DEF PDPVerifierStep
<1>2. CASE ServiceStep
  <2>1. ASSUME NEW d \in DataSetIds, TerminateService(d) \/ TerminateCDNService(d)
        PROVE  RailsStayCharged
    <3> DEFINE settledAt == LockupLastSettledAt(dataSetInfo[d].payer)
    <3>1. settledAt \in Nat
      BY <2>1, LockupLastSettledAtType DEF TerminateService, MayTerminateService, TerminateCDNService, IInv, PayersKnown
    <3>2. ASSUME NEW r \in RailIds
          PROVE  \/ rails'[r] = rails[r]
                 \/ IsRunning(rails[r]) /\ rails'[r] = Terminate(rails[r], settledAt)
      BY <2>1 DEF TerminateService, TerminateCDNService, TerminateRunning
    <3> HIDE DEF settledAt
    <3>3. QED BY <3>1, <3>2, OtherOperationsKeepCharges
  <2>2. ASSUME NEW d \in DataSetIds, NEW a \in CdnAmounts, NEW b \in CdnAmounts,
               SettleFilBeamPaymentRails(d, a, b) \/ TopUpCDNPaymentRails(d, a, b)
        PROVE  RailsStayCharged
    <3>1. a \in Nat /\ b \in Nat
      BY Constants DEF ConstantsAssumption
    <3>2. ASSUME NEW r \in RailIds
          PROVE  \/ rails'[r] = rails[r]
                 \/ \E n \in {a, b} : \/ rails'[r] = PayOnce(rails[r], n)
                                      \/ rails'[r] = RaiseLockup(rails[r], n)
      BY <2>2 DEF SettleFilBeamPaymentRails, TopUpCDNPaymentRails
    <3>3. QED BY <3>1, <3>2, OtherOperationsKeepCharges
  <2>3. ASSUME NEW x, NEW y, UpdatePricing(x, y) \/ ConfigureProvingPeriod(x)
        PROVE  RailsStayCharged
    BY <2>3, UntouchedRailsStayCharged DEF UpdatePricing, ConfigureProvingPeriod, external
  <2>4. QED BY <1>2, <2>1, <2>2, <2>3 DEF ServiceStep
<1>3. CASE FilecoinPayStep
  <2>1. ASSUME NEW r \in RailIds, NEW e \in Epochs, SettleRail(r, e)
        PROVE  RailsStayCharged
    BY <2>1, SettleRailKeepsCharges
  <2>2. ASSUME NEW r \in RailIds, PayerTerminatesRail(r)
        PROVE  RailsStayCharged
    <3>1. ASSUME NEW i \in RailIds
          PROVE  \/ rails'[i] = rails[i]
                 \/ IsRunning(rails[i]) /\ rails'[i] = Terminate(rails[i], blockNumber)
      BY <2>2 DEF PayerTerminatesRail, IInv, TypeOK
    <3>2. QED BY <3>1, BlockNumberType, OtherOperationsKeepCharges
  <2>3. ASSUME NEW d \in DataSetIds, SettleTerminatedRailWithoutValidation(d)
        PROVE  RailsStayCharged
    BY <2>3, UnvalidatedSettlementKeepsCharges
  <2>4. ASSUME NEW p \in DryPayers, RunDry(p) \/ Deposit(p)
        PROVE  RailsStayCharged
    BY <2>4, UntouchedRailsStayCharged DEF RunDry, Deposit
  <2>5. QED BY <1>3, <2>1, <2>2, <2>3, <2>4 DEF FilecoinPayStep
<1>4. CASE NewEpoch \/ UNCHANGED vars
  BY <1>4, UntouchedRailsStayCharged DEF NewEpoch, vars, external
<1>5. QED BY <1>1, <1>2, <1>3, <1>4 DEF Next

\* updatePricing keeps what it is told 0 for.
LEMMA NextKeepsMinimumRate ==
  ASSUME IInv, pricing.minimumRate > 0, [Next]_vars
  PROVE  pricing'.minimumRate > 0
<1>1. CASE PDPVerifierStep
  <2>1. ASSUME NEW p, NEW n, NEW cdn, DataSetCreated(p, n, cdn) PROVE UNCHANGED pricing
    BY <2>1 DEF DataSetCreated, service
  <2>2. ASSUME NEW d, DataSetDeleted(d) PROVE UNCHANGED pricing
    BY <2>2 DEF DataSetDeleted, service
  <2>3. ASSUME NEW d, NEW count, NEW n, PiecesAdded(d, count, n) PROVE UNCHANGED pricing
    BY <2>3 DEF PiecesAdded, service
  <2>4. ASSUME NEW d, NEW s, PiecesScheduledRemove(d, s) PROVE UNCHANGED pricing
    BY <2>4 DEF PiecesScheduledRemove, service
  <2>5. ASSUME NEW d, PossessionProven(d) PROVE UNCHANGED pricing
    BY <2>5 DEF PossessionProven, service
  <2>6. ASSUME NEW d, NextProvingPeriod(d) PROVE UNCHANGED pricing
    BY <2>6 DEF NextProvingPeriod, StartProving, AdvanceProvingPeriod, service
  <2>7. UNCHANGED pricing
    BY <1>1, <2>1, <2>2, <2>3, <2>4, <2>5, <2>6 DEF PDPVerifierStep
  <2>8. QED BY <2>7
<1>2. CASE ServiceStep
  <2>1. ASSUME NEW price \in StoragePrices, NEW rate \in MinimumRates, UpdatePricing(price, rate)
        PROVE  pricing'.minimumRate > 0
    BY <2>1 DEF UpdatePricing
  <2>2. QED BY ZenonT(60), <1>2, <2>1 DEF ServiceStep, TerminateService, TerminateCDNService,
              SettleFilBeamPaymentRails, TopUpCDNPaymentRails, ConfigureProvingPeriod, service
<1>3. CASE FilecoinPayStep
  BY <1>3 DEF FilecoinPayStep, SettleRail, PayerTerminatesRail,
              SettleTerminatedRailWithoutValidation, RunDry, Deposit, service
<1>4. CASE NewEpoch \/ UNCHANGED vars
  BY <1>4 DEF NewEpoch, vars, service
<1>5. QED BY <1>1, <1>2, <1>3, <1>4 DEF Next

\* modifyRailPayment: the queue takes rates that were charged, and the unsettled epochs
\* stay where they are once there was a rate.
LEMMA SetRateKeepsCharged ==
  ASSUME NEW rail \in Rail, RatesCharged(rail), NEW rate \in Nat \ {0}, NEW now \in Nat
  PROVE  LET new == SetRate(rail, rate, now)
         IN  /\ RatesCharged(new)
             /\ new.rate > 0
             /\ rail.rate > 0 => new.settledUpTo = rail.settledUpTo
<1> DEFINE queue == rail.rateChangeQueue
           new   == SetRate(rail, rate, now)
           added == Append(queue, [rate |-> rail.rate, untilEpoch |-> now])
<1>1. rail.rate \in Nat /\ Len(queue) \in Nat /\ queue \in Seq(RateChange)
  BY QueueType DEF Rail
<1>2. \/ new = [rail EXCEPT !.rate = rate]
      \/ rail.rate = 0 /\ new = [rail EXCEPT !.rate = rate, !.settledUpTo = now]
      \/ rail.rate # 0 /\ new = [rail EXCEPT !.rate = rate, !.rateChangeQueue = added]
  <2>1. CASE rail.rate = 0
    <3>1. queue = << >>
      BY <2>1 DEF RatesCharged
    <3>2. QED BY <2>1, <3>1, Zenon DEF SetRate
  <2>2. CASE rail.rate # 0
    BY <2>2, Zenon DEF SetRate
  <2>3. QED BY <2>1, <2>2
<1> HIDE DEF new
<1>3. CASE rail.rate # 0 /\ new = [rail EXCEPT !.rate = rate, !.rateChangeQueue = added]
  <2>1. new.rate = rate /\ new.rateChangeQueue = added /\ new.settledUpTo = rail.settledUpTo
    BY <1>3 DEF Rail
  <2>2. \A i \in 1 .. Len(added) : added[i].rate > 0
    <3>1. [rate |-> rail.rate, untilEpoch |-> now] \in RateChange
      BY <1>1 DEF RateChange
    <3>2. Len(added) = Len(queue) + 1
      BY <1>1, <3>1, AppendProperties
    <3>3. \A i \in 1 .. Len(queue) : added[i] = queue[i]
      BY <1>1, <3>1, AppendProperties
    <3>4. added[Len(queue) + 1].rate = rail.rate
      BY <1>1, <3>1, AppendProperties
    <3> HIDE DEF added, queue
    <3>5. \A i \in 1 .. Len(queue) : queue[i].rate > 0
      BY DEF RatesCharged, queue
    <3>6. QED BY <1>1, <1>3, <3>2, <3>3, <3>4, <3>5
  <2> HIDE DEF added
  <2>3. QED BY <2>1, <2>2 DEF RatesCharged, new
<1>4. CASE ~(rail.rate # 0 /\ new = [rail EXCEPT !.rate = rate, !.rateChangeQueue = added])
  <2>1. /\ new.rate = rate /\ new.rateChangeQueue = queue
        /\ rail.rate # 0 => new.settledUpTo = rail.settledUpTo
    BY <1>2, <1>4 DEF Rail
  <2>2. QED BY <1>1, <2>1 DEF RatesCharged, new
<1>5. QED BY <1>3, <1>4

\* settleRail drops queued rates and adds none.
LEMMA SettledKeepsCharged ==
  ASSUME NEW rail \in Rail, RatesCharged(rail), NEW target \in Nat, NEW outcomes,
         CanSettle(rail, target, outcomes),
         Settled(rail, target, outcomes).status = "active"
  PROVE  LET new == Settled(rail, target, outcomes)
         IN  RatesCharged(new) /\ new.rate = rail.rate
<1> DEFINE last   == LastSegment(rail, target, outcomes)
           upTo   == outcomes[last].settleUpTo
           queue  == rail.rateChangeQueue
           passed == {i \in 1 .. last : i <= Len(queue) /\ upTo >= queue[i].untilEpoch}
           m      == Cardinality(passed) + 1
           left   == SubSeq(queue, m, Len(queue))
           new    == Settled(rail, target, outcomes)
<1>1. Len(queue) \in Nat /\ queue \in Seq(RateChange)
  BY QueueType DEF Rail
<1>2. new = [rail EXCEPT !.settledUpTo = upTo, !.rateChangeQueue = left]
  <2>1. FinalizedRail.status = "finalized"
    BY DEF FinalizedRail, NoRail
  <2>2. QED BY <2>1 DEF Settled
<1>3. new.rate = rail.rate /\ new.rateChangeQueue = left
  <2> HIDE DEF new, left, upTo
  <2> QED BY <1>2 DEF Rail
<1>4. m \in Nat \ {0}
  <2>1. IsFiniteSet(1 .. Len(queue))
    BY <1>1, FS_Interval
  <2>2. passed \subseteq 1 .. Len(queue)
    <3>1. last \in Int
      <4>1. last \in Segments(rail, target)
        BY LastSegmentExists DEF CanSettle
      <4>2. QED BY <1>1, <4>1 DEF Segments
    <3> HIDE DEF last, upTo, queue
    <3>2. QED BY <1>1, <3>1
  <2> HIDE DEF passed
  <2>3. IsFiniteSet(passed)
    BY <2>1, <2>2, FS_Subset
  <2>4. Cardinality(passed) \in Nat
    BY <2>3, FS_CardinalityType
  <2>5. QED BY <2>4
<1> HIDE DEF m
<1>5. CASE m <= Len(queue)
  <2>1. /\ Len(left) = Len(queue) - m + 1
        /\ \A i \in 1 .. Len(queue) - m + 1 : left[i] = queue[m + i - 1]
    BY <1>1, <1>4, <1>5, SubSeqProperties
  <2>2. rail.rate # 0
    BY <1>1, <1>4, <1>5, EmptySeq DEF RatesCharged
  <2>3. \A i \in 1 .. Len(left) : left[i].rate > 0
    <3> HIDE DEF left, queue
    <3>1. \A i \in 1 .. Len(queue) : queue[i].rate > 0
      BY DEF RatesCharged, queue
    <3>2. \A i \in 1 .. Len(left) : m + i - 1 \in 1 .. Len(queue)
      BY <1>1, <1>4, <1>5, <2>1
    <3>3. QED BY <2>1, <3>1, <3>2
  <2> HIDE DEF new, left
  <2>4. QED BY <1>3, <2>2, <2>3 DEF RatesCharged, new
<1>6. CASE ~(m <= Len(queue))
  <2>1. left = << >>
    BY <1>1, <1>4, <1>6
  <2>2. Len(<< >>) = 0
    OBVIOUS
  <2> HIDE DEF new, left
  <2>3. QED BY <1>3, <2>1, <2>2 DEF RatesCharged, new
<1>7. QED BY <1>3, <1>5, <1>6

\* What settleRail makes of the rail it settles.
LEMMA SettleRailKeepsRate ==
  ASSUME IInv, NEW r \in RailIds, RatesCharged(rails[r]), NEW untilEpoch \in Epochs,
         SettleRail(r, untilEpoch), rails'[r].status = "active"
  PROVE  rails[r].status = "active" /\ RatesCharged(rails'[r]) /\ rails'[r].rate = rails[r].rate
<1>1. rails[r] \in Rail /\ rails[r].payer \in Payers /\ rails[r].status = "active"
  BY DEF SettleRail, IInv, TypeOK, PayersKnown
<1>2. TargetOf(r, untilEpoch) \in Nat
  BY <1>1, EpochsAreNaturals, LockupLastSettledAtType, SettlementTargetType DEF TargetOf
<1>3. PICK target \in {TargetOf(r, untilEpoch)}, outcomes \in {Outcomes(r, TargetOf(r, untilEpoch))} :
        /\ CanSettle(rails[r], target, outcomes)
        /\ rails' = [rails EXCEPT ![r] = Settled(rails[r], target, outcomes)]
  BY DEF SettleRail
<1>4. rails'[r] = Settled(rails[r], target, outcomes)
  BY <1>3 DEF IInv, TypeOK
<1>5. QED BY <1>1, <1>2, <1>3, <1>4, SettledKeepsCharged

\* Rates stay charged, and a rail that has one keeps one.
LEMMA ChargesKept ==
  ASSUME IInv, RailsCharged, RailsStayCharged,
         NEW r \in RailIds, rails'[r].status = "active"
  PROVE  /\ RatesCharged(rails'[r])
         /\ r < nextIds.rail =>
              rails[r].status = "active" /\ (rails[r].rate > 0 => rails'[r].rate > 0)
<1>1. rails[r] \in Rail /\ blockNumber \in Nat /\ r \in Nat /\ nextIds.rail \in Nat
  <2>1. r \in Nat
    BY DEF RailIds
  <2>2. QED BY <2>1, BlockNumberType DEF IInv, TypeOK
<1>2. rails[r].status = "active" => RatesCharged(rails[r])
  BY DEF RailsCharged
<1>3. CASE ChargedAsBefore(r)
  BY <1>2, <1>3 DEF ChargedAsBefore, RatesCharged
<1>4. CASE CreatedNow(r)
  <2>1. RatesCharged(rails'[r])
    BY <1>4 DEF CreatedNow, RatesCharged
  <2>2. QED BY <1>1, <1>4, <2>1 DEF CreatedNow
<1>5. CASE rails[r].status = "active" /\ \E rate \in Nat \ {0} : rails'[r] = SetRate(rails[r], rate, blockNumber)
  BY <1>1, <1>2, <1>5, SetRateKeepsCharged
<1>6. CASE \E untilEpoch \in Epochs : SettleRail(r, untilEpoch)
  <2>1. rails[r].status = "active"
    BY <1>6 DEF SettleRail
  <2>2. QED BY <1>2, <1>6, <2>1, SettleRailKeepsRate
<1>7. QED BY <1>3, <1>4, <1>5, <1>6 DEF RailsStayCharged, RailStaysCharged

LEMMA NextRailsCharged ==
  ASSUME IInv, RailsCharged, [Next]_vars
  PROVE  RailsStayCharged /\ RailsCharged'
<1>1. RailsStayCharged /\ pricing'.minimumRate > 0
  BY NextKeepsCharges, NextKeepsMinimumRate DEF RailsCharged
<1>2. QED BY <1>1, ChargesKept DEF RailsCharged

-----------------------------------------------------------------------------
(* What a step does to a data set.                                         *)

SameRail(d) == Live(d) /\ Live(d)' /\ dataSetInfo'[d].pdpRailId = dataSetInfo[d].pdpRailId

\* The data set keeps its rail, its activation and its marks.
ScheduleKept(d) ==
  /\ UNCHANGED blockNumber \/ blockNumber' = blockNumber + 1
  /\ provingActivationEpoch'[d] = provingActivationEpoch[d]
  /\ provenPeriods[d] \subseteq provenPeriods'[d]

\* Nothing, a proof, or pieces that leave: no piece is added.
DataSetKept(d) ==
  /\ Live(d) => SameRail(d)
  /\ ~Live(d) => ~Live(d)'
  /\ ScheduleKept(d)
  /\ pdp'[d].pieces \subseteq pdp[d].pieces

PiecesCharged(d) == SameRail(d) /\ ScheduleKept(d) /\ rails'[dataSetInfo[d].pdpRailId].rate > 0

ProvingStarted(d) ==
  /\ SameRail(d)
  /\ UNCHANGED blockNumber
  /\ pdp[d].pieces # {}
  /\ provingActivationEpoch'[d] = blockNumber

Created(d) ==
  /\ ~Live(d)
  /\ Live(d)' => dataSetInfo'[d].pdpRailId = nextIds.rail
  /\ provingActivationEpoch'[d] = provingActivationEpoch[d]
  /\ pdp'[d].pieces = pdp[d].pieces

Deleted(d) ==
  ~Live(d)' /\ pdp'[d].pieces = {} /\ provingActivationEpoch'[d] = NeverActivated

DataSetStep(d) ==
  DataSetKept(d) \/ PiecesCharged(d) \/ ProvingStarted(d) \/ Created(d) \/ Deleted(d)

LEMMA UntouchedDataSet ==
  ASSUME NEW d \in DataSetIds,
         pdp'[d].status = pdp[d].status, pdp'[d].pieces \subseteq pdp[d].pieces,
         dataSetInfo'[d].pdpRailId = dataSetInfo[d].pdpRailId,
         UNCHANGED blockNumber \/ blockNumber' = blockNumber + 1,
         provingActivationEpoch'[d] = provingActivationEpoch[d],
         provenPeriods[d] \subseteq provenPeriods'[d]
  PROVE  DataSetStep(d)
BY DEF DataSetStep, DataSetKept, SameRail, ScheduleKept, Live

\* The callbacks of PDPVerifier.
LEMMA PDPVerifierDataSetStep ==
  ASSUME IInv, DataSetInv, pricing.minimumRate > 0, PDPVerifierStep, NEW d \in DataSetIds
  PROVE  DataSetStep(d)
<1>0. /\ pdp \in [DataSetIds -> VerifierDataSet] /\ dataSetInfo \in [DataSetIds -> DataSetInfo]
      /\ provingActivationEpoch \in [DataSetIds -> Nat]
      /\ provenPeriods \in [DataSetIds -> SUBSET Nat]
  BY DEF IInv, TypeOK
<1>1. ASSUME NEW p \in Payers, NEW n \in Nonces, NEW cdn \in CdnOptions, DataSetCreated(p, n, cdn)
      PROVE  DataSetStep(d)
  <2>1. UNCHANGED <<blockNumber, provingActivationEpoch, provenPeriods>>
    BY <1>1 DEF DataSetCreated, schedule
  <2>2. pdp'[d].pieces = pdp[d].pieces
    <3>1. pdp' = [pdp EXCEPT ![nextIds.dataSet].status = "live"]
      BY <1>1 DEF DataSetCreated
    <3>2. QED BY <1>0, <3>1 DEF VerifierDataSet
  <2>3. CASE d = nextIds.dataSet
    <3>1. ~Live(d)
      <4>1. FreshIds /\ nextIds.dataSet \in Nat
        BY DEF DataSetInv, LinkInv, IInv, TypeOK
      <4>2. QED BY <2>3, <4>1 DEF FreshIds, Live
    <3>2. dataSetInfo'[d].pdpRailId = nextIds.rail
      BY <1>0, <1>1, <2>3 DEF DataSetCreated
    <3>3. QED BY <2>1, <2>2, <3>1, <3>2 DEF DataSetStep, Created
  <2>4. CASE d # nextIds.dataSet
    <3>1. pdp'[d] = pdp[d] /\ dataSetInfo'[d] = dataSetInfo[d]
      BY <1>0, <1>1, <2>4 DEF DataSetCreated
    <3>2. QED BY <2>1, <3>1, UntouchedDataSet
  <2>5. QED BY <2>3, <2>4
<1>2. ASSUME NEW e \in DataSetIds, DataSetDeleted(e) PROVE DataSetStep(d)
  <2>1. CASE d = e
    <3>1. /\ pdp'[d].status = "deleted" /\ pdp'[d].pieces = {}
          /\ provingActivationEpoch'[d] = NeverActivated
      BY <1>0, <1>2, <2>1 DEF DataSetDeleted, VerifierDataSet
    <3>2. QED BY <3>1 DEF DataSetStep, Deleted, Live
  <2>2. CASE d # e
    <3>1. /\ pdp'[d] = pdp[d] /\ dataSetInfo'[d] = dataSetInfo[d]
          /\ provingActivationEpoch'[d] = provingActivationEpoch[d]
          /\ UNCHANGED <<blockNumber, provenPeriods>>
      BY <1>0, <1>2, <2>2 DEF DataSetDeleted
    <3>2. QED BY <3>1, UntouchedDataSet
  <2>3. QED BY <2>1, <2>2
<1>3. ASSUME NEW e \in DataSetIds, NEW count \in 1 .. MaxPieces, NEW n \in Nonces,
             PiecesAdded(e, count, n)
      PROVE  DataSetStep(d)
  <2>1. UNCHANGED <<blockNumber, provingActivationEpoch, provenPeriods, dataSetInfo>>
    BY <1>3 DEF PiecesAdded, schedule
  <2>2. CASE d = e
    <3> DEFINE pieces == pdp[d].pieces \cup
                           (pdp[d].nextPieceId .. pdp[d].nextPieceId + count - 1)
    <3>1. pieces \in SUBSET PieceIds
      BY <1>0, <1>3, <2>2 DEF PiecesAdded, VerifierDataSet
    <3>2. UpdatePaymentRates(d, Cardinality(pieces))
      BY <1>3, <2>2 DEF PiecesAdded
    <3> HIDE DEF pieces
    <3>3. rails'[dataSetInfo[d].pdpRailId].rate > 0
      BY <3>1, <3>2, PieceCountType, UpdatePaymentRatesEffect
    <3>4. Live(d) /\ Live(d)'
      BY <1>0, <1>3, <2>2 DEF PiecesAdded, Live, VerifierDataSet
    <3>5. QED BY <2>1, <3>3, <3>4 DEF DataSetStep, PiecesCharged, SameRail, ScheduleKept
  <2>3. CASE d # e
    <3>1. pdp'[d] = pdp[d]
      BY <1>0, <1>3, <2>3 DEF PiecesAdded
    <3>2. QED BY <2>1, <3>1, UntouchedDataSet
  <2>4. QED BY <2>2, <2>3
<1>4. ASSUME NEW e \in DataSetIds, NEW s \in SUBSET RemovablePieces, PiecesScheduledRemove(e, s)
      PROVE  DataSetStep(d)
  <2>1. UNCHANGED <<blockNumber, provingActivationEpoch, provenPeriods, dataSetInfo>>
    BY <1>4 DEF PiecesScheduledRemove, schedule, registers
  <2>2. pdp'[d].pieces = pdp[d].pieces /\ pdp'[d].status = pdp[d].status
    BY <1>0, <1>4 DEF PiecesScheduledRemove, VerifierDataSet
  <2>3. QED BY <2>1, <2>2, UntouchedDataSet
<1>5. ASSUME NEW e \in DataSetIds, PossessionProven(e) PROVE DataSetStep(d)
  <2>1. UNCHANGED <<blockNumber, provingActivationEpoch, dataSetInfo, pdp>>
    BY <1>5 DEF PossessionProven, registers, external
  <2>2. provenPeriods[d] \subseteq provenPeriods'[d]
    BY <1>0, <1>5 DEF PossessionProven
  <2>3. QED BY <2>1, <2>2, UntouchedDataSet
<1>6. ASSUME NEW e \in DataSetIds, NEW c \in ChallengeEpochs,
             StartProving(e, c) \/ AdvanceProvingPeriod(e, c)
      PROVE  DataSetStep(d)
  <2>1. UNCHANGED <<blockNumber, provenPeriods, dataSetInfo>>
    BY <1>6 DEF StartProving, AdvanceProvingPeriod, registers
  <2>2. /\ pdp'[d].status = pdp[d].status
        /\ pdp'[d].pieces \subseteq pdp[d].pieces
    <3>1. ProvingSetUpdated(e, c)
      BY <1>6 DEF StartProving, AdvanceProvingPeriod
    <3>2. QED BY <1>0, <3>1 DEF ProvingSetUpdated, PiecesAfterRemovals, VerifierDataSet
  <2>3. CASE provingActivationEpoch'[d] = provingActivationEpoch[d]
    BY <2>1, <2>2, <2>3, UntouchedDataSet
  <2>4. CASE provingActivationEpoch'[d] # provingActivationEpoch[d]
    <3>1. d = e /\ StartProving(d, c)
      BY <1>0, <1>6, <2>4 DEF StartProving, AdvanceProvingPeriod
    <3>2. Live(d) /\ provingActivationEpoch'[d] = blockNumber
      BY <1>0, <3>1 DEF StartProving
    <3>3. pdp[d].pieces # {}
      <4>1. c # NoChallengeScheduled
        <5>1. /\ blockNumber \in Nat \ {0}
              /\ proving.maxProvingPeriod \in Nat /\ proving.challengeWindowSize \in Nat
              /\ proving.challengeWindowSize < proving.maxProvingPeriod
          BY BlockNumberType DEF IInv, TypeOK, WindowWithinPeriod
        <5>2. c \in blockNumber + proving.maxProvingPeriod - proving.challengeWindowSize
                    .. blockNumber + proving.maxProvingPeriod
          <6>1. InChallengeWindow(c, blockNumber + proving.maxProvingPeriod)
            BY <3>1 DEF StartProving
          <6>2. QED BY <5>1, <6>1 DEF InChallengeWindow
        <5>3. QED BY <5>1, <5>2 DEF NoChallengeScheduled
      <4>2. PiecesAfterRemovals(d) # {}
        BY <3>1, <4>1 DEF StartProving, ChallengeEpochOffered
      <4>3. QED BY <4>2 DEF PiecesAfterRemovals
    <3>4. QED BY <2>1, <2>2, <3>2, <3>3 DEF DataSetStep, ProvingStarted, SameRail, Live
  <2>5. QED BY <2>3, <2>4
<1>7. QED BY <1>1, <1>2, <1>3, <1>4, <1>5, <1>6 DEF PDPVerifierStep, NextProvingPeriod

\* Every other step leaves the data set with the rail and the schedule it has.
LEMMA OtherDataSetStep ==
  ASSUME IInv, DataSetInv, ServiceStep \/ FilecoinPayStep \/ NewEpoch \/ UNCHANGED vars,
         NEW d \in DataSetIds
  PROVE  DataSetStep(d)
<1> SUFFICES /\ UNCHANGED <<pdp, schedule>>
             /\ dataSetInfo'[d].pdpRailId = dataSetInfo[d].pdpRailId
             /\ UNCHANGED blockNumber \/ blockNumber' = blockNumber + 1
  BY UntouchedDataSet DEF schedule
<1>1. CASE ServiceStep
  <2>1. ASSUME NEW e \in DataSetIds, TerminateService(e)
        PROVE  /\ UNCHANGED <<pdp, schedule, blockNumber>>
               /\ dataSetInfo'[d].pdpRailId = dataSetInfo[d].pdpRailId
    BY <2>1 DEF TerminateService, IInv, TypeOK, DataSetInfo
  <2>2. ASSUME NEW e \in DataSetIds, TerminateCDNService(e)
        PROVE  UNCHANGED <<pdp, schedule, blockNumber, dataSetInfo>>
    BY <2>2 DEF TerminateCDNService, registers
  <2>3. ASSUME NEW e, NEW a, NEW b, SettleFilBeamPaymentRails(e, a, b) \/ TopUpCDNPaymentRails(e, a, b)
        PROVE  UNCHANGED <<pdp, schedule, blockNumber, dataSetInfo>>
    BY <2>3 DEF SettleFilBeamPaymentRails, TopUpCDNPaymentRails, registers
  <2>4. ASSUME NEW x, NEW y, UpdatePricing(x, y) \/ ConfigureProvingPeriod(x)
        PROVE  UNCHANGED <<pdp, schedule, blockNumber, dataSetInfo>>
    BY <2>4 DEF UpdatePricing, ConfigureProvingPeriod, registers, external
  <2>5. QED BY <1>1, <2>1, <2>2, <2>3, <2>4 DEF ServiceStep
<1>2. CASE FilecoinPayStep
  BY <1>2 DEF FilecoinPayStep, SettleRail, PayerTerminatesRail,
              SettleTerminatedRailWithoutValidation, RunDry, Deposit, registers
<1>3. CASE NewEpoch
  BY <1>3 DEF NewEpoch, registers, external
<1>4. CASE UNCHANGED vars
  BY <1>4 DEF vars, registers, external
<1>5. QED BY <1>1, <1>2, <1>3, <1>4

-----------------------------------------------------------------------------
(* Settlement waits for proofs that may still arrive: the induction.       *)

\* The rail of a data set that keeps it.
LEMMA KeptRail ==
  ASSUME IInv, DataSetInv, RailsCharged, RailsStayCharged, NEW d \in DataSetIds, SameRail(d),
         PdpRail(d)'.status = "active"
  PROVE  LET r == dataSetInfo[d].pdpRailId
         IN  /\ r \in RailIds /\ r < nextIds.rail /\ railToDataSet[r] = d
             /\ PdpRail(d)' = rails'[r] /\ PdpRail(d) = rails[r]
             /\ rails[r].status = "active"
             /\ rails[r].rate > 0 => rails'[r].rate > 0
<1> DEFINE r == dataSetInfo[d].pdpRailId
<1>1. r \in RailIds /\ r < nextIds.rail /\ railToDataSet[r] = d
  BY DEF SameRail, DataSetInv, LinkInv, DataSetsHaveRails
<1>2. PdpRail(d)' = rails'[r] /\ PdpRail(d) = rails[r]
  BY DEF SameRail, PdpRail
<1> HIDE DEF r
<1>3. rails[r].status = "active" /\ (rails[r].rate > 0 => rails'[r].rate > 0)
  BY <1>1, <1>2, ChargesKept
<1>4. QED BY <1>1, <1>2, <1>3 DEF r

\* A data set is charged for from its first pieces on.
LEMMA NextDataSetsCharged ==
  ASSUME IInv, DataSetInv, RateInv, [Next]_vars
  PROVE  DataSetsCharged'
<1>1. RailsStayCharged
  BY NextRailsCharged DEF RateInv
<1>2. ASSUME NEW d \in DataSetIds PROVE DataSetStep(d)
  BY PDPVerifierDataSetStep, OtherDataSetStep DEF Next, RateInv, RailsCharged
<1>3. ASSUME NEW d \in DataSetIds, SameRail(d), PdpRail(d)'.status = "active",
             pdp[d].pieces # {} \/ provingActivationEpoch[d] # NeverActivated
      PROVE  PdpRail(d)'.rate > 0
  <2>1. PdpRail(d).status = "active"
    BY <1>1, <1>3, KeptRail DEF RateInv
  <2>2. PdpRail(d).rate > 0
    BY <1>3, <2>1 DEF RateInv, DataSetsCharged, SameRail
  <2>3. QED BY <1>1, <1>3, <2>2, KeptRail DEF RateInv
<1>4. ASSUME NEW d \in DataSetIds
      PROVE  IF Live(d)'
             THEN (pdp'[d].pieces # {} \/ provingActivationEpoch'[d] # NeverActivated)
                    /\ PdpRail(d)'.status = "active" => PdpRail(d)'.rate > 0
             ELSE pdp'[d].pieces = {} /\ provingActivationEpoch'[d] = NeverActivated
  <2>0. ~Live(d) => pdp[d].pieces = {} /\ provingActivationEpoch[d] = NeverActivated
    BY DEF RateInv, DataSetsCharged
  <2>1. CASE DataSetKept(d)
    <3>1. CASE Live(d)
      BY <1>3, <2>1, <3>1 DEF DataSetKept, ScheduleKept, SameRail
    <3>2. CASE ~Live(d)
      BY <2>0, <2>1, <3>2 DEF DataSetKept, ScheduleKept
    <3>3. QED BY <3>1, <3>2
  <2>2. CASE PiecesCharged(d)
    BY <2>2 DEF PiecesCharged, SameRail, PdpRail
  <2>3. CASE ProvingStarted(d)
    BY <1>3, <2>3 DEF ProvingStarted, SameRail
  <2>4. CASE Created(d)
    BY <2>0, <2>4 DEF Created
  <2>5. CASE Deleted(d)
    BY <2>5 DEF Deleted
  <2>6. QED BY <1>2, <2>1, <2>2, <2>3, <2>4, <2>5 DEF DataSetStep
<1>5. QED BY <1>4 DEF DataSetsCharged, PdpRail

\* While a data set keeps its rail and its activation, no step settles the rail beyond an
\* open period.
LEMMA OpenPeriodKeepsWaiting ==
  ASSUME OrderInv, DataSetInv, RateInv, RailsStayCharged, UNCHANGED proving.maxProvingPeriod,
         NEW d \in DataSetIds, SameRail(d), ScheduleKept(d),
         NEW p \in Nat, OpenPeriodWaits(d, p)
  PROVE  OpenPeriodWaits(d, p)'
<1> DEFINE A     == provingActivationEpoch[d]
           M     == proving.maxProvingPeriod
           r     == dataSetInfo[d].pdpRailId
           bound == CalcPeriodDeadline(A, p, M) - M
<1> SUFFICES ASSUME A # NeverActivated, PdpRail(d)'.status = "active", p \notin provenPeriods'[d],
                    blockNumber' <= CalcPeriodDeadline(A, p, M)
             PROVE  PdpRail(d)'.settledUpTo <= bound
  BY DEF ScheduleKept, OpenPeriodWaits
<1>1. /\ r \in RailIds /\ r < nextIds.rail /\ railToDataSet[r] = d
      /\ PdpRail(d)' = rails'[r] /\ PdpRail(d) = rails[r]
      /\ rails[r].status = "active"
  BY KeptRail DEF OrderInv, RateInv
<1>2. /\ blockNumber \in Nat /\ r \in Nat /\ nextIds.rail \in Nat
      /\ A \in Nat /\ M \in Nat \ {0} /\ CalcPeriodDeadline(A, p, M) \in Nat
  <2>1. r \in Nat
    BY <1>1 DEF RailIds
  <2>2. blockNumber \in Nat /\ nextIds.rail \in Nat /\ A \in Nat /\ M \in Nat \ {0}
    BY BlockNumberType DEF OrderInv, IInv, TypeOK
  <2> HIDE DEF A, M
  <2>3. CalcPeriodDeadline(A, p, M) \in Nat
    BY <2>2 DEF CalcPeriodDeadline
  <2>4. QED BY <2>1, <2>2, <2>3
<1>3. p \notin provenPeriods[d] /\ blockNumber <= CalcPeriodDeadline(A, p, M)
  <2>1. p \notin provenPeriods[d]
    BY DEF ScheduleKept
  <2>2. blockNumber' = blockNumber \/ blockNumber' = blockNumber + 1
    BY DEF ScheduleKept
  <2>3. blockNumber' <= CalcPeriodDeadline(A, p, M)
    OBVIOUS
  <2> HIDE DEF A, M
  <2>4. QED BY <1>2, <2>1, <2>2, <2>3
<1>4. rails[r].settledUpTo <= bound
  BY <1>1, <1>3 DEF OpenPeriodWaits, SameRail
<1>5. rails[r].rate > 0 /\ RatesCharged(rails[r]) /\ rails[r] \in Rail
  BY <1>1 DEF RateInv, RailsCharged, DataSetsCharged, SameRail, OrderInv, IInv, TypeOK
<1>6. CASE ChargedAsBefore(r)
  BY <1>1, <1>4, <1>6 DEF ChargedAsBefore
<1>7. CASE \E rate \in Nat \ {0} : rails'[r] = SetRate(rails[r], rate, blockNumber)
  <2>1. rails'[r].settledUpTo = rails[r].settledUpTo
    BY <1>2, <1>5, <1>7, SetRateKeepsCharged
  <2>2. QED BY <1>1, <1>4, <2>1
<1>8. CASE \E untilEpoch \in Epochs : SettleRail(r, untilEpoch)
  <2>1. rails'[r].status = "active"
    BY <1>1
  <2> HIDE DEF r
  <2>2. rails'[r].settledUpTo <= bound
    BY <1>1, <1>3, <1>4, <1>5, <1>8, <2>1, EpochsAreNaturals, SettlementHeldBack
  <2>3. QED BY <1>1, <2>2
<1>9. ~(r >= nextIds.rail)
  BY <1>1, <1>2
<1>10. QED BY <1>1, <1>6, <1>7, <1>8, <1>9 DEF RailsStayCharged, RailStaysCharged, CreatedNow

\* Open periods hold settlement back, at the start of proving too, when nothing is settled
\* beyond the current epoch.
LEMMA NextOpenPeriodsWait ==
  ASSUME OnePeriodLength, GridInv, OrderInv, DataSetInv, RateInv, OpenPeriodsWait, [Next]_vars
  PROVE  OpenPeriodsWait'
<1>1. UNCHANGED proving.maxProvingPeriod /\ OrderInv' /\ RailsStayCharged
  BY NextGrid, NextOrder, NextRailsCharged DEF GridInv, OrderInv, RateInv
<1>2. ASSUME NEW d \in DataSetIds, NEW p \in Nat PROVE OpenPeriodWaits(d, p)'
  <2>1. DataSetStep(d)
    BY PDPVerifierDataSetStep, OtherDataSetStep DEF Next, RateInv, RailsCharged, OrderInv
  <2>2. ~Live(d) => provingActivationEpoch[d] = NeverActivated
    BY DEF RateInv, DataSetsCharged
  <2>3. CASE SameRail(d) /\ ScheduleKept(d)
    BY <1>1, <2>3, OpenPeriodKeepsWaiting DEF OpenPeriodsWait
  <2>4. CASE ~Live(d)' \/ provingActivationEpoch'[d] = NeverActivated
    BY <2>4 DEF OpenPeriodWaits
  <2>5. CASE ProvingStarted(d)
    <3> SUFFICES ASSUME PdpRail(d)'.status = "active"
                 PROVE  PdpRail(d)'.settledUpTo
                          <= CalcPeriodDeadline(blockNumber, p, proving.maxProvingPeriod)
                               - proving.maxProvingPeriod
      BY <1>1, <2>5 DEF OpenPeriodWaits, ProvingStarted
    <3> DEFINE M == proving.maxProvingPeriod
    <3>1. blockNumber \in Nat /\ M \in Nat
      BY BlockNumberType DEF OrderInv, IInv, TypeOK
    <3>2. PdpRail(d)' \in Rail /\ PdpRail(d)'.settledUpTo <= blockNumber
      <4>1. PdpRail(d)' = rails'[dataSetInfo[d].pdpRailId] /\ dataSetInfo[d].pdpRailId \in RailIds
        BY <2>5 DEF ProvingStarted, SameRail, PdpRail, DataSetInv, LinkInv, DataSetsHaveRails
      <4>2. rails' \in [RailIds -> Rail] /\ blockNumber' = blockNumber
        BY <1>1, <2>5 DEF OrderInv, IInv, TypeOK, ProvingStarted
      <4>3. QED BY <1>1, <4>1, <4>2 DEF OrderInv, RailsInOrder, InOrder
    <3>3. PdpRail(d)'.settledUpTo \in Nat
      BY <3>2 DEF Rail
    <3>4. CalcPeriodDeadline(blockNumber, p, M) - M = blockNumber + p * M /\ p * M \in Nat
      <4> HIDE DEF M
      <4> QED BY <3>1 DEF CalcPeriodDeadline
    <3> HIDE DEF M
    <3>5. PdpRail(d)'.settledUpTo <= CalcPeriodDeadline(blockNumber, p, M) - M
      BY <3>1, <3>2, <3>3, <3>4
    <3>6. QED BY <3>5 DEF M
  <2>6. QED BY <2>1, <2>2, <2>3, <2>4, <2>5
            DEF DataSetStep, DataSetKept, PiecesCharged, Created, Deleted, ScheduleKept
<1>3. QED BY <1>2 DEF OpenPeriodsWait

-----------------------------------------------------------------------------
(* Marks stay behind the pending deadline.                                 *)

StartsKept ==
  /\ DOMAIN audit' = DataSetIds
  /\ \A d \in DataSetIds : /\ "activations" \in DOMAIN audit'[d]
                           /\ audit'[d].activations = audit[d].activations

\* The history counts nothing but starts of proving.
LEMMA OtherStepsKeepStarts ==
  ASSUME IInv, StartsCounted, [Next]_vars, \A d \in DataSetIds : ~NextProvingPeriod(d)
  PROVE  StartsKept
<1>1. UNCHANGED audit => StartsKept
  BY DEF StartsCounted, StartsKept
<1>2. CASE PDPVerifierStep
  <2>1. ASSUME NEW d \in DataSetIds, PossessionProven(d) PROVE StartsKept
    <3>1. audit' = [audit EXCEPT ![d].covered = audit[d].covered \cup (EpochsOfCurrentPeriod(d) \cap Epochs)]
      BY <2>1 DEF PossessionProven
    <3>2. QED BY <3>1 DEF StartsCounted, StartsKept
  <2>2. ASSUME NEW p, NEW n, NEW cdn, DataSetCreated(p, n, cdn) PROVE StartsKept
    BY <1>1, <2>2 DEF DataSetCreated
  <2>3. ASSUME NEW d, NEW count, NEW n, PiecesAdded(d, count, n) PROVE StartsKept
    BY <1>1, <2>3 DEF PiecesAdded
  <2>4. ASSUME NEW d, NEW s, DataSetDeleted(d) \/ PiecesScheduledRemove(d, s) PROVE StartsKept
    BY <1>1, <2>4 DEF DataSetDeleted, PiecesScheduledRemove
  <2>5. QED BY <1>2, <2>1, <2>2, <2>3, <2>4 DEF PDPVerifierStep
<1>3. CASE ServiceStep
  BY ZenonT(60), <1>1, <1>3 DEF ServiceStep, TerminateService, TerminateCDNService, SettleFilBeamPaymentRails,
                    TopUpCDNPaymentRails, UpdatePricing, ConfigureProvingPeriod
<1>4. CASE FilecoinPayStep
  <2>1. ASSUME NEW r \in RailIds, NEW e \in Epochs, SettleRail(r, e) PROVE StartsKept
    <3>1. CASE UNCHANGED audit
      BY <1>1, <3>1
    <3>2. CASE audit' # audit
      <4>1. PICK d \in DataSetIds : \E paid, upTo :
              audit' = [audit EXCEPT ![d].paid = paid, ![d].settledUpTo = upTo]
        BY <2>1, <3>2 DEF SettleRail, IInv, TypeOK
      <4>2. QED BY <4>1 DEF StartsCounted, StartsKept
    <3>3. QED BY <3>1, <3>2
  <2>2. ASSUME NEW d \in DataSetIds, SettleTerminatedRailWithoutValidation(d) PROVE StartsKept
    <3>1. audit' = [audit EXCEPT ![d].waived = TRUE]
      BY <2>2 DEF SettleTerminatedRailWithoutValidation
    <3>2. QED BY <3>1 DEF StartsCounted, StartsKept
  <2>3. ASSUME NEW r, NEW p, PayerTerminatesRail(r) \/ RunDry(p) \/ Deposit(p) PROVE StartsKept
    BY <1>1, <2>3 DEF PayerTerminatesRail, RunDry, Deposit
  <2>4. QED BY <1>4, <2>1, <2>2, <2>3 DEF FilecoinPayStep
<1>5. CASE NewEpoch
  <2>1. audit' = [d \in DataSetIds |->
                    [audit[d] EXCEPT !.rateOf[blockNumber + 1] = RateCharged(d, blockNumber + 1)]]
    BY <1>5 DEF NewEpoch
  <2>2. QED BY <2>1 DEF StartsCounted, StartsKept
<1>6. CASE UNCHANGED vars
  BY <1>1, <1>6 DEF vars
<1>7. QED BY <1>2, <1>3, <1>4, <1>5, <1>6 DEF Next

\* A data set whose schedule is not touched.
LEMMA UntouchedMarks ==
  ASSUME NEW d \in DataSetIds, MarksNotAhead(d), UNCHANGED proving.maxProvingPeriod,
         audit'[d].activations = audit[d].activations,
         provenPeriods'[d] = provenPeriods[d],
         \/ provingDeadlines'[d] = NoProvingDeadline
         \/ /\ provingDeadlines'[d] = provingDeadlines[d]
            /\ provingActivationEpoch'[d] = provingActivationEpoch[d]
            /\ provenThisPeriod'[d] = provenThisPeriod[d]
  PROVE  MarksNotAhead(d)'
BY DEF MarksNotAhead

\* possessionProven marks the period of the pending deadline.
LEMMA PossessionProvenMarks ==
  ASSUME GridInv, MarksInv, NEW d \in DataSetIds, PossessionProven(d), StartsKept,
         NEW e \in DataSetIds
  PROVE  MarksNotAhead(e)'
<1>1. PICK n \in Nat :
        /\ DeadlineOfPeriod(d, n)
        /\ ProvingPeriodForEpoch(provingActivationEpoch[d], blockNumber,
                                 proving.maxProvingPeriod) = n
  BY ProofInPeriod
<1>2. /\ provenPeriods' = [provenPeriods EXCEPT ![d] = provenPeriods[d] \cup {n}]
      /\ provenThisPeriod' = [provenThisPeriod EXCEPT ![d] = TRUE]
      /\ UNCHANGED <<proving, provingActivationEpoch, provingDeadlines>>
      /\ provingDeadlines[d] # NoProvingDeadline
      /\ ~provenThisPeriod[d]
  BY <1>1 DEF PossessionProven, service
<1>3. /\ provenPeriods \in [DataSetIds -> SUBSET Nat]
      /\ provenThisPeriod \in [DataSetIds -> BOOLEAN]
      /\ provingDeadlines[d] \in Nat /\ proving.maxProvingPeriod \in Nat
  BY DEF GridInv, IInv, TypeOK
<1>4. audit'[e].activations = audit[e].activations /\ MarksNotAhead(e) /\ MarksNotAhead(d)
  BY DEF StartsKept, MarksInv
<1>5. CASE e = d
  <2>1. provenPeriods'[d] = provenPeriods[d] \cup {n} /\ provenThisPeriod'[d] = TRUE
    BY <1>2, <1>3, Zenon
  <2>2. audit'[d].activations # 0
    BY <1>2, <1>4, <1>5 DEF MarksNotAhead
  <2>3. CalcPeriodDeadline(provingActivationEpoch[d], n, proving.maxProvingPeriod)
          = provingDeadlines[d]
    BY <1>1 DEF DeadlineOfPeriod
  <2>4. provingDeadlines[d] <= provingDeadlines[d]
    BY <1>3
  <2>5. QED BY <1>2, <1>4, <1>5, <2>1, <2>2, <2>3, <2>4 DEF MarksNotAhead
<1>6. CASE e # d
  <2>1. provenPeriods'[e] = provenPeriods[e] /\ provenThisPeriod'[e] = provenThisPeriod[e]
    BY <1>2, <1>3, <1>6, Zenon
  <2>2. QED BY <1>2, <1>4, <2>1, UntouchedMarks
<1>7. QED BY <1>5, <1>6

\* nextProvingPeriod of a running data set moves the deadline on by a period at least.
LEMMA AdvanceProvingPeriodMarks ==
  ASSUME GridInv, MarksInv, NEW d \in DataSetIds, NEW c \in Nat, AdvanceProvingPeriod(d, c),
         NEW e \in DataSetIds
  PROVE  StartsCounted' /\ MarksNotAhead(e)'
<1> DEFINE nextDeadline == IF c = NoChallengeScheduled THEN NoProvingDeadline ELSE NextDeadline(d)
           M == proving.maxProvingPeriod
           deadlineOf(p) == CalcPeriodDeadline(provingActivationEpoch[d], p, M)
<1>1. /\ provingDeadlines' = [provingDeadlines EXCEPT ![d] = nextDeadline]
      /\ provenThisPeriod' = [provenThisPeriod EXCEPT ![d] = FALSE]
      /\ UNCHANGED <<proving, provenPeriods, provingActivationEpoch, audit>>
      /\ provingDeadlines[d] # NoProvingDeadline
  BY DEF AdvanceProvingPeriod, service
<1>2. /\ provingDeadlines \in [DataSetIds -> Nat]
      /\ provenThisPeriod \in [DataSetIds -> BOOLEAN]
      /\ provenPeriods[d] \in SUBSET Nat /\ provingActivationEpoch[d] \in Nat /\ M \in Nat \ {0}
  BY DEF GridInv, IInv, TypeOK
<1>3. StartsCounted' /\ MarksNotAhead(d) /\ MarksNotAhead(e)
  BY <1>1 DEF MarksInv, StartsCounted
<1>4. CASE e = d
  <2>1. provingDeadlines'[d] = nextDeadline /\ provenThisPeriod'[d] = FALSE
    <3> HIDE DEF nextDeadline
    <3> QED BY <1>1, <1>2
  <2>2. CASE nextDeadline = NoProvingDeadline
    BY <1>1, <1>3, <1>4, <2>1, <2>2, UntouchedMarks
  <2>3. CASE nextDeadline # NoProvingDeadline
    <3>1. PICK k \in Nat : nextDeadline = provingDeadlines[d] + M * (k + 1)
      BY <2>3, NextDeadlineLater DEF GridInv
    <3>2. audit[d].activations # 0
      BY <1>1, <1>3 DEF MarksNotAhead
    <3>3. ASSUME audit[d].activations = 1, NEW p \in provenPeriods[d]
          PROVE  deadlineOf(p) <= nextDeadline /\ deadlineOf(p) <= nextDeadline - M
      <4>1. deadlineOf(p) <= provingDeadlines[d]
        BY <1>1, <1>3, <3>3 DEF MarksNotAhead
      <4>2. deadlineOf(p) \in Nat /\ provingDeadlines[d] \in Nat
        BY <1>2 DEF CalcPeriodDeadline
      <4>3. M * (k + 1) = M * k + M /\ M * k \in Nat /\ M \in Nat
        <5> HIDE DEF M
        <5> QED BY <1>2
      <4> HIDE DEF deadlineOf, nextDeadline, M
      <4>4. QED BY <3>1, <4>1, <4>2, <4>3
    <3> HIDE DEF nextDeadline
    <3>4. /\ audit'[d].activations = audit[d].activations
          /\ provenPeriods'[d] = provenPeriods[d]
          /\ provingActivationEpoch'[d] = provingActivationEpoch[d]
          /\ proving' = proving
      BY <1>1
    <3>5. MarksNotAhead(d)'
      BY <2>1, <3>2, <3>3, <3>4 DEF MarksNotAhead
    <3>6. QED BY <1>3, <1>4, <3>5
  <2>4. QED BY <2>2, <2>3
<1>5. CASE e # d
  <2>1. provingDeadlines'[e] = provingDeadlines[e] /\ provenThisPeriod'[e] = provenThisPeriod[e]
    <3> HIDE DEF nextDeadline
    <3> QED BY <1>1, <1>2, <1>5, Zenon
  <2>2. QED BY <1>1, <1>3, <2>1, UntouchedMarks
<1>6. QED BY <1>3, <1>4, <1>5

\* A first start finds no marks, and a later one is counted.
LEMMA StartProvingMarks ==
  ASSUME GridInv, MarksInv, NEW d \in DataSetIds, NEW c \in Nat, StartProving(d, c),
         NEW e \in DataSetIds
  PROVE  StartsCounted' /\ MarksNotAhead(e)'
<1>1. /\ provingDeadlines' = [provingDeadlines EXCEPT ![d] = blockNumber + proving.maxProvingPeriod]
      /\ provingActivationEpoch' = [provingActivationEpoch EXCEPT ![d] = blockNumber]
      /\ UNCHANGED <<proving, provenPeriods, provenThisPeriod>>
      /\ audit' = [audit EXCEPT ![d].activations = audit[d].activations + 1]
  BY DEF StartProving, service
<1>2. /\ provingDeadlines \in [DataSetIds -> Nat]
      /\ provingActivationEpoch \in [DataSetIds -> Nat]
  BY DEF GridInv, IInv, TypeOK
<1>3. MarksNotAhead(d) /\ MarksNotAhead(e)
  BY DEF MarksInv
<1>4. /\ DOMAIN audit' = DataSetIds
      /\ \A i \in DataSetIds :
           /\ "activations" \in DOMAIN audit'[i]
           /\ audit'[i].activations = audit[i].activations + IF i = d THEN 1 ELSE 0
           /\ audit[i].activations \in Nat
  BY <1>1 DEF MarksInv, StartsCounted
<1>5. StartsCounted'
  BY <1>4 DEF StartsCounted
<1>6. CASE e = d
  <2>1. audit'[d].activations # 0
    BY <1>4
  <2>2. audit'[d].activations = 1 => provenPeriods[d] = {}
    BY <1>3, <1>4 DEF MarksNotAhead
  <2>3. provenPeriods' = provenPeriods
    BY <1>1
  <2>4. MarksNotAhead(d)'
    BY <2>1, <2>2, <2>3 DEF MarksNotAhead
  <2>5. QED BY <1>5, <1>6, <2>4
<1>7. CASE e # d
  <2>1. /\ provingDeadlines'[e] = provingDeadlines[e]
        /\ provingActivationEpoch'[e] = provingActivationEpoch[e]
    BY <1>1, <1>2, <1>7, Zenon
  <2>2. audit'[e].activations = audit[e].activations
    BY <1>4, <1>7
  <2>3. QED BY <1>1, <1>3, <1>5, <2>1, <2>2, UntouchedMarks
<1>8. QED BY <1>6, <1>7

\* Every step.
LEMMA NextMarks ==
  ASSUME OnePeriodLength, GridInv, MarksInv, [Next]_vars
  PROVE  MarksInv'
<1>1. UNCHANGED proving.maxProvingPeriod /\ IInv
  BY NextGrid DEF GridInv
<1>2. StartsKept => StartsCounted'
  BY DEF StartsKept, MarksInv, StartsCounted
<1>3. ASSUME NEW d \in DataSetIds, NextProvingPeriod(d)
      PROVE  MarksInv'
  <2>1. PICK c \in ChallengeEpochs : StartProving(d, c) \/ AdvanceProvingPeriod(d, c)
    BY <1>3 DEF NextProvingPeriod
  <2>2. c \in Nat
    BY <1>1, BlockNumberType DEF ChallengeEpochs, NoChallengeScheduled
  <2>3. QED BY <1>3, <2>1, <2>2, StartProvingMarks, AdvanceProvingPeriodMarks DEF MarksInv
<1>4. ASSUME \A d \in DataSetIds : ~NextProvingPeriod(d)
      PROVE  MarksInv'
  <2>1. StartsKept
    BY <1>1, <1>4, OtherStepsKeepStarts DEF MarksInv
  <2>2. ASSUME NEW d \in DataSetIds, PossessionProven(d), NEW e \in DataSetIds
        PROVE  MarksNotAhead(e)'
    BY <2>1, <2>2, PossessionProvenMarks
  <2>3. ASSUME NEW d \in DataSetIds, DataSetDeleted(d), NEW e \in DataSetIds
        PROVE  MarksNotAhead(e)'
    <3>1. \/ provingDeadlines'[e] = NoProvingDeadline
          \/ /\ provingDeadlines'[e] = provingDeadlines[e]
             /\ provingActivationEpoch'[e] = provingActivationEpoch[e]
             /\ provenThisPeriod'[e] = provenThisPeriod[e]
      BY <1>1, <2>3 DEF DataSetDeleted, IInv, TypeOK
    <3>2. UNCHANGED provenPeriods
      BY <2>3 DEF DataSetDeleted
    <3>3. QED BY <1>1, <2>1, <3>1, <3>2, UntouchedMarks DEF StartsKept, MarksInv
  <2>4. ASSUME \A d \in DataSetIds : ~PossessionProven(d) /\ ~DataSetDeleted(d), NEW e \in DataSetIds
        PROVE  MarksNotAhead(e)'
    <3>1. UNCHANGED schedule
      BY <1>4, <2>4, OtherStepsLeaveSchedule
    <3>2. QED BY <1>1, <2>1, <3>1, UntouchedMarks DEF StartsKept, MarksInv, schedule
  <2>5. QED BY <1>2, <2>1, <2>2, <2>3, <2>4 DEF MarksInv
<1>5. QED BY <1>3, <1>4

-----------------------------------------------------------------------------

\* The invariant is inductive.
LEMMA NextWait ==
  ASSUME OnePeriodLength, WaitInv, [Next]_vars
  PROVE  WaitInv'
<1>1. GridInv' /\ OrderInv' /\ DataSetInv'
  BY NextGrid, NextOrder, NextDataSetInv DEF WaitInv, GridInv
<1>2. RateInv'
  BY NextRailsCharged, NextDataSetsCharged DEF WaitInv, GridInv, RateInv
<1>3. OpenPeriodsWait' /\ MarksInv'
  BY NextOpenPeriodsWait, NextMarks DEF WaitInv
<1>4. QED BY <1>1, <1>2, <1>3 DEF WaitInv

\* A proof is awaited only for a period that is not marked: those of the first life of
\* a data set are marked when they are proven and not before.
LEMMA AwaitedPeriodIsUnmarked ==
  ASSUME WaitInv, NEW d \in DataSetIds, AwaitsProof(d)
  PROVE  \E n \in Nat :
           /\ provingDeadlines[d] =
                CalcPeriodDeadline(provingActivationEpoch[d], n, proving.maxProvingPeriod)
           /\ n \notin provenPeriods[d]
<1> DEFINE A == provingActivationEpoch[d]
           M == proving.maxProvingPeriod
           D == provingDeadlines[d]
<1>1. M \in Nat \ {0} /\ D \in Nat
  BY DEF WaitInv, GridInv, IInv, TypeOK
<1>2. D # NoProvingDeadline /\ ~provenThisPeriod[d]
  BY DEF AwaitsProof
<1>3. PICK n \in Nat : DeadlineOfPeriod(d, n) /\ PendingPeriod(d) = n
  BY <1>2, PendingDeadline DEF WaitInv
<1>4. D = CalcPeriodDeadline(A, n, M)
  BY <1>3 DEF DeadlineOfPeriod
<1>5. n \notin provenPeriods[d]
  <2> SUFFICES ASSUME n \in provenPeriods[d] PROVE FALSE
    OBVIOUS
  <2>1. audit[d].activations = 1
    BY <1>3 DEF AwaitsProof
  <2>2. CalcPeriodDeadline(A, n, M) <= D - M
    BY <1>2, <2>1 DEF WaitInv, MarksInv, MarksNotAhead
  <2>3. ~(D <= D - M)
    <3> HIDE DEF D, M
    <3> QED BY <1>1
  <2>4. QED BY <1>4, <2>2, <2>3
<1>6. QED BY <1>4, <1>5

\* In the sense of the property the runs check.
LEMMA WaitInvImpliesWaiting == WaitInv => SettlementWaitsForOpenPeriod
<1> SUFFICES ASSUME WaitInv, NEW d \in DataSetIds, AwaitsProof(d),
                    dataSetInfo[d].pdpRailId # NoRailId, PdpRail(d).status = "active"
             PROVE  PdpRail(d).settledUpTo <= provingDeadlines[d] - proving.maxProvingPeriod
  BY DEF SettlementWaitsForOpenPeriod
<1>1. PICK n \in Nat :
        /\ provingDeadlines[d] =
             CalcPeriodDeadline(provingActivationEpoch[d], n, proving.maxProvingPeriod)
        /\ n \notin provenPeriods[d]
  BY AwaitedPeriodIsUnmarked
<1>2. provingDeadlines[d] # NoProvingDeadline /\ blockNumber <= provingDeadlines[d]
  BY DEF AwaitsProof
<1>3. Live(d) /\ provingActivationEpoch[d] # NeverActivated
  BY <1>2 DEF WaitInv, DataSetInv, LinkInv, DataSetsHaveRails, NoInfo, GridInv, IInv, ActivationComesFirst
<1>4. QED BY <1>1, <1>2, <1>3 DEF WaitInv, OpenPeriodsWait, OpenPeriodWaits

\* However settlement is cut into calls, whatever rates are set in between, however late
\* nextProvingPeriod is and however often proving starts again: while a proof of the pending
\* period is awaited, the PDP rail is settled at most up to the end of the period before.
THEOREM SettlementWaitsForOpenPeriods ==
  ASSUME OnePeriodLength
  PROVE  Spec => []SettlementWaitsForOpenPeriod
<1>1. Init => WaitInv
  BY InitWait
<1>2. WaitInv /\ [Next]_vars => WaitInv'
  BY NextWait
<1>3. WaitInv => SettlementWaitsForOpenPeriod
  BY WaitInvImpliesWaiting
<1>4. QED BY <1>1, <1>2, <1>3, PTL DEF Spec

-----------------------------------------------------------------------------
(***************************************************************************)
(* Part 2.  Settlement pays for exactly the epochs that a provider proved, *)
(* however it is cut into calls, rates and segments.                       *)
(***************************************************************************)

-----------------------------------------------------------------------------
(* What one answer pays.                                                   *)

\* The share of the proposed amount is the rate of each epoch that has a proof.
LEMMA ActivatedAnswerPaysProvenEpochs ==
  ASSUME NEW proven \in SUBSET Nat, NEW from \in Nat, NEW to \in Nat, from < to,
         NEW A \in Nat \ {0}, NEW M \in Nat \ {0}, NEW now \in Nat, NEW rate \in Nat,
         NEW g, \A e \in ProvenWithin(proven, from, to, A, M) : g[e] = rate,
         ValidatePayment(proven, from, to, rate, A, M, now).ok
  PROVE  LET answer == ValidatePayment(proven, from, to, rate, A, M, now)
         IN  /\ answer.settleUpTo \in from .. to
             /\ answer.modifiedAmount
                  = SumOver(g, ProvenWithin(proven, from, answer.settleUpTo, A, M))
<1> DEFINE answer == ValidatePayment(proven, from, to, rate, A, M, now)
           found  == FindProvenEpochs(proven, from, to, A, M, now)
           upTo   == answer.settleUpTo
           paid   == ProvenWithin(proven, from, upTo, A, M)
           n      == Cardinality(paid)
           epochs == to - from
<1>1. answer = [ok |-> found.ok, modifiedAmount |-> Prorated(rate * epochs, found.count, epochs),
                settleUpTo |-> found.settleUpTo]
  BY Zenon DEF ValidatePayment, NeverActivated
<1>2. found.ok
  <2> HIDE DEF found
  <2> QED BY <1>1
<1>3. A < to /\ to <= now
  BY <1>2 DEF FindProvenEpochs, Reverted
<1>4. /\ found.settleUpTo \in Max({from, A}) .. to
      /\ found.count = Cardinality(ProvenWithin(proven, from, found.settleUpTo, A, M))
  <2> DEFINE reached == SettledWithin(proven, from, to, A, M, now)
  <2>1. /\ found = [ok |-> TRUE, count |-> Cardinality(ProvenWithin(proven, from, reached, A, M)),
                    settleUpTo |-> reached]
        /\ reached \in Max({from, A}) .. to
    BY <1>3, FindProvenEpochsAnswer
  <2> HIDE DEF found, reached
  <2>2. QED BY <2>1
<1>5. upTo = found.settleUpTo /\ answer.modifiedAmount = Prorated(rate * epochs, found.count, epochs)
  <2> HIDE DEF found
  <2> QED BY <1>1
<1>6. upTo \in from .. to
  <2>1. Max({from, A}) \in Int /\ Max({from, A}) >= from
    BY MaxOfTwo
  <2> HIDE DEF upTo
  <2>2. QED BY <1>4, <1>5, <2>1
<1>7. found.count = n
  BY <1>4, <1>5
<1>8. IsFiniteSet(paid) /\ paid \subseteq ProvenWithin(proven, from, to, A, M)
  <2> HIDE DEF upTo
  <2>1. upTo \in Nat /\ from <= upTo /\ upTo <= to
    BY <1>6
  <2>2. QED BY <2>1, ProvenWithinType, ProvenWithinSplit
<1>9. n \in Nat /\ SumOver(g, paid) = rate * n
  <2> HIDE DEF paid
  <2>1. \A e \in paid : g[e] = rate
    BY <1>8
  <2>2. QED BY <1>8, <2>1, SumOfConstant
<1>10. Prorated(rate * epochs, n, epochs) = rate * n
  <2>1. epochs \in Nat \ {0}
    OBVIOUS
  <2> HIDE DEF n, epochs
  <2>2. rate * n \in Nat /\ (rate * epochs) * n = epochs * (rate * n) + 0
    BY <1>9, <2>1
  <2>3. (epochs * (rate * n) + 0) \div epochs = rate * n
    <3> DEFINE k == rate * n
    <3>1. k \in Nat
      BY <2>2
    <3> HIDE DEF k
    <3>2. (epochs * k + 0) \div epochs = k
      BY <2>1, <3>1, DivisionOfMultiple
    <3>3. QED BY <3>2 DEF k
  <2>4. QED BY <2>2, <2>3 DEF Prorated
<1> HIDE DEF answer, found, n, epochs, paid
<1>11. QED BY <1>5, <1>6, <1>7, <1>9, <1>10 DEF answer, paid

\* So it is before proving starts, when nothing is paid and nothing was proven.
LEMMA AnswerPaysProvenEpochs ==
  ASSUME NEW proven \in SUBSET Nat, NEW from \in Nat, NEW to \in Nat, from < to,
         NEW A \in Nat, NEW M \in Nat \ {0}, NEW now \in Nat, NEW rate \in Nat,
         NEW g, \A e \in ProvenWithin(proven, from, to, A, M) : g[e] = rate,
         ValidatePayment(proven, from, to, rate, A, M, now).ok
  PROVE  LET answer == ValidatePayment(proven, from, to, rate, A, M, now)
         IN  /\ answer.settleUpTo \in from .. to
             /\ answer.modifiedAmount
                  = SumOver(g, ProvenWithin(proven, from, answer.settleUpTo, A, M))
<1>1. CASE A = NeverActivated
  <2> DEFINE answer == ValidatePayment(proven, from, to, rate, A, M, now)
  <2>1. answer.modifiedAmount = 0 /\ answer.settleUpTo = from
    BY <1>1 DEF ValidatePayment
  <2>2. ProvenWithin(proven, from, from, A, M) = {}
    BY ProvenWithinNothing
  <2>3. SumOver(g, {}) = 0
    BY SumOfNothing
  <2> HIDE DEF answer
  <2>4. QED BY <2>1, <2>2, <2>3 DEF answer
<1>2. CASE A # NeverActivated
  <2>1. PICK B \in Nat \ {0} : B = A
    BY <1>2 DEF NeverActivated
  <2>2. QED BY <2>1, ActivatedAnswerPaysProvenEpochs
<1>3. QED BY <1>1, <1>2

-----------------------------------------------------------------------------
(* The rates a rail has yet to settle are those its epochs were charged at. *)

\* Every epoch that passed and is not settled was charged at the rate of its segment.
RateRecorded(rail, rateOf, now) ==
  \A i \in 1 .. Len(rail.rateChangeQueue) + 1 : \A e \in Nat :
    /\ SegmentStart(rail, i) < e /\ e <= now
    /\ i <= Len(rail.rateChangeQueue) => e <= rail.rateChangeQueue[i].untilEpoch
    /\ rail.endEpoch # NotEnded => e <= rail.endEpoch
    => rateOf[e] = SegmentRate(rail, i)

\* A rail at its creation, or settled up to now, with no change of rate in its queue.
LEMMA NothingToRecord ==
  ASSUME NEW rail, NEW now \in Nat, NEW rateOf,
         rail.settledUpTo = now, rail.rateChangeQueue = << >>
  PROVE  RateRecorded(rail, rateOf, now)
<1>1. Len(rail.rateChangeQueue) + 1 = 1
  OBVIOUS
<1>2. ASSUME NEW i \in 1 .. Len(rail.rateChangeQueue) + 1, NEW e \in Nat,
             SegmentStart(rail, i) < e, e <= now
      PROVE  FALSE
  <2>1. i = 1
    BY <1>1
  <2>2. QED BY <1>2, <2>1 DEF SegmentStart
<1>3. QED BY <1>2 DEF RateRecorded

\* terminateRail brings the end nearer; the operations on the lockup change nothing.
LEMMA ChargesStayRecorded ==
  ASSUME NEW rail, NEW new, NEW now, NEW rateOf, RateRecorded(rail, rateOf, now),
         new.rate = rail.rate, new.settledUpTo = rail.settledUpTo,
         new.rateChangeQueue = rail.rateChangeQueue, rail.endEpoch \in {NotEnded, new.endEpoch}
  PROVE  RateRecorded(new, rateOf, now)
BY DEF RateRecorded, SegmentStart, SegmentRate

\* An epoch that passes is charged at the current rate.
LEMMA EpochRecorded ==
  ASSUME NEW rail \in Rail, NEW now \in Nat, InOrder(rail, now),
         NEW before, RateRecorded(rail, before, now), NEW after,
         \A e \in Nat : e <= now => after[e] = before[e],
         (rail.endEpoch # NotEnded => now + 1 <= rail.endEpoch) => after[now + 1] = rail.rate
  PROVE  RateRecorded(rail, after, now + 1)
<1> DEFINE queue == rail.rateChangeQueue
<1>1. /\ Len(queue) \in Nat
      /\ \A i \in 1 .. Len(queue) : queue[i].untilEpoch \in Nat
  BY QueueType
<1>2. ASSUME NEW i \in 1 .. Len(queue) + 1, NEW e \in Nat,
             SegmentStart(rail, i) < e, e <= now + 1,
             i <= Len(queue) => e <= queue[i].untilEpoch,
             rail.endEpoch # NotEnded => e <= rail.endEpoch
      PROVE  after[e] = SegmentRate(rail, i)
  <2>1. CASE e <= now
    BY <1>2, <2>1 DEF RateRecorded
  <2>2. CASE ~(e <= now)
    <3>1. e = now + 1
      BY <1>2, <2>2
    <3>2. ~(i <= Len(queue))
      <4>1. i \in 1 .. Len(queue) => queue[i].untilEpoch <= now
        BY DEF InOrder
      <4>2. QED BY <1>1, <1>2, <2>2, <4>1
    <3>3. SegmentRate(rail, i) = rail.rate
      BY <3>2 DEF SegmentRate
    <3>4. QED BY <1>2, <3>1, <3>3
  <2>3. QED BY <2>1, <2>2
<1>3. QED BY <1>2 DEF RateRecorded

\* modifyRailPayment queues the old rate up to now, or nothing was due at it.
LEMMA SetRateRecorded ==
  ASSUME NEW rail \in Rail, NEW now \in Nat, InOrder(rail, now), NEW rate \in Nat,
         NEW rateOf, RateRecorded(rail, rateOf, now)
  PROVE  RateRecorded(SetRate(rail, rate, now), rateOf, now)
<1> DEFINE queue  == rail.rateChangeQueue
           change == [rate |-> rail.rate, untilEpoch |-> now]
           longer == Append(queue, change)
           new    == SetRate(rail, rate, now)
<1>1. /\ queue \in Seq(RateChange) /\ Len(queue) \in Nat
      /\ \A i \in 1 .. Len(queue) : queue[i].untilEpoch \in Nat
  BY QueueType
<1>2. rail.settledUpTo \in Nat
  BY DEF Rail
<1>3. CASE rate = rail.rate \/ rail.settledUpTo = now
             \/ (queue # << >> /\ queue[Len(queue)].untilEpoch = now)
  <2>1. new = [rail EXCEPT !.rate = rate]
    BY <1>3 DEF SetRate
  <2>2. /\ new.rate = rate /\ new.rateChangeQueue = queue /\ new.endEpoch = rail.endEpoch
        /\ new.settledUpTo = rail.settledUpTo
    <3> HIDE DEF new, queue
    <3> QED BY <2>1 DEF Rail, queue
  <2> HIDE DEF new
  <2>3. ASSUME NEW i \in 1 .. Len(queue) + 1, NEW e \in Nat,
               SegmentStart(rail, i) < e, e <= now,
               i <= Len(queue) => e <= queue[i].untilEpoch,
               rail.endEpoch # NotEnded => e <= rail.endEpoch
        PROVE  rateOf[e] = SegmentRate(new, i)
    <3>1. rateOf[e] = SegmentRate(rail, i)
      BY <2>3 DEF RateRecorded
    <3>2. CASE i <= Len(queue)
      BY <2>2, <3>1, <3>2 DEF SegmentRate
    <3>3. CASE ~(i <= Len(queue))
      <4>1. i = Len(queue) + 1
        BY <1>1, <3>3
      <4>2. rail.settledUpTo # now
        <5>1. SegmentStart(rail, i) >= rail.settledUpTo
          <6>1. CASE i = 1
            BY <1>2, <6>1 DEF SegmentStart
          <6>2. CASE i # 1
            <7>1. i - 1 \in 1 .. Len(queue)
              BY <1>1, <4>1, <6>2
            <7>2. rail.settledUpTo < queue[i - 1].untilEpoch
              BY <7>1 DEF InOrder
            <7>3. QED BY <1>1, <1>2, <6>2, <7>1, <7>2 DEF SegmentStart
          <6>3. QED BY <6>1, <6>2
        <5>2. SegmentStart(rail, i) \in Nat
          BY <1>1, SegmentType
        <5>3. QED BY <1>2, <2>3, <5>1, <5>2
      <4>3. queue # << >> => queue[Len(queue)].untilEpoch # now
        <5> SUFFICES ASSUME queue # << >>, queue[Len(queue)].untilEpoch = now PROVE FALSE
          OBVIOUS
        <5>1. Len(queue) \in 1 .. Len(queue) /\ i # 1 /\ i - 1 = Len(queue)
          BY <1>1, <4>1, EmptySeq
        <5>2. SegmentStart(rail, i) = now
          BY <5>1 DEF SegmentStart
        <5>3. QED BY <2>3, <5>2
      <4>4. SegmentRate(rail, i) = rail.rate /\ SegmentRate(new, i) = rate
        BY <2>2, <3>3 DEF SegmentRate
      <4>5. QED BY <1>3, <3>1, <4>2, <4>3, <4>4
    <3>4. QED BY <3>2, <3>3
  <2>4. \A i \in 1 .. Len(queue) + 1 : SegmentStart(new, i) = SegmentStart(rail, i)
    BY <2>2 DEF SegmentStart
  <2> HIDE DEF queue
  <2>5. RateRecorded(new, rateOf, now)
    BY <2>2, <2>3, <2>4 DEF RateRecorded
  <2>6. QED BY <2>5 DEF new
<1>4. CASE ~(rate = rail.rate \/ rail.settledUpTo = now
               \/ (queue # << >> /\ queue[Len(queue)].untilEpoch = now))
           /\ rail.rate = 0 /\ queue = << >>
  <2>1. new = [rail EXCEPT !.rate = rate, !.settledUpTo = now]
    BY <1>4 DEF SetRate
  <2>2. new.settledUpTo = now /\ new.rateChangeQueue = << >>
    <3> HIDE DEF new
    <3> QED BY <1>4, <2>1 DEF Rail
  <2>3. QED BY <2>2, NothingToRecord
<1>5. CASE ~(rate = rail.rate \/ rail.settledUpTo = now
               \/ (queue # << >> /\ queue[Len(queue)].untilEpoch = now))
           /\ ~(rail.rate = 0 /\ queue = << >>)
  <2>1. new = [rail EXCEPT !.rate = rate, !.rateChangeQueue = longer]
    BY <1>5 DEF SetRate
  <2>2. /\ new.rateChangeQueue = longer /\ new.endEpoch = rail.endEpoch
        /\ new.settledUpTo = rail.settledUpTo
    <3> HIDE DEF new, longer
    <3> QED BY <2>1 DEF Rail
  <2>3. /\ Len(longer) = Len(queue) + 1
        /\ \A i \in 1 .. Len(queue) : longer[i] = queue[i]
        /\ longer[Len(queue) + 1] = change
    <3>1. change \in RateChange
      BY DEF RateChange, Rail
    <3> HIDE DEF change, queue
    <3>2. QED BY <1>1, <3>1, AppendProperties
  <2> HIDE DEF new, longer
  <2>4. ASSUME NEW i \in 1 .. Len(queue) + 2, NEW e \in Nat,
               SegmentStart(new, i) < e, e <= now,
               i <= Len(queue) + 1 => e <= longer[i].untilEpoch,
               rail.endEpoch # NotEnded => e <= rail.endEpoch
        PROVE  rateOf[e] = SegmentRate(new, i)
    <3>1. CASE i = Len(queue) + 2
      <4>1. SegmentStart(new, i) = now
        <5>1. i # 1 /\ i - 1 = Len(queue) + 1
          BY <1>1, <3>1
        <5>2. QED BY <2>2, <2>3, <5>1 DEF SegmentStart
      <4>2. QED BY <2>4, <4>1
    <3>2. CASE i # Len(queue) + 2
      <4>1. i \in 1 .. Len(queue) + 1 /\ i <= Len(longer)
        BY <1>1, <2>3, <3>2
      <4>2. SegmentStart(new, i) = SegmentStart(rail, i)
        <5>1. CASE i = 1
          BY <2>2, <5>1 DEF SegmentStart
        <5>2. CASE i # 1
          <6>1. i - 1 \in 1 .. Len(queue)
            BY <1>1, <4>1, <5>2
          <6>2. QED BY <2>2, <2>3, <5>2, <6>1 DEF SegmentStart
        <5>3. QED BY <5>1, <5>2
      <4>3. SegmentRate(new, i) = longer[i].rate
        BY <2>2, <4>1 DEF SegmentRate
      <4>4. CASE i = Len(queue) + 1
        <5>1. SegmentRate(rail, i) = rail.rate /\ ~(i <= Len(queue))
          BY <1>1, <4>4 DEF SegmentRate
        <5>2. rateOf[e] = SegmentRate(rail, i)
          BY <2>4, <4>1, <4>2, <5>1 DEF RateRecorded
        <5>3. QED BY <2>3, <4>3, <4>4, <5>1, <5>2
      <4>5. CASE i # Len(queue) + 1
        <5>1. i \in 1 .. Len(queue) /\ i <= Len(queue)
          BY <1>1, <4>1, <4>5
        <5>2. longer[i] = queue[i]
          BY <2>3, <5>1
        <5>3. rateOf[e] = SegmentRate(rail, i)
          BY <2>4, <4>1, <4>2, <5>1, <5>2 DEF RateRecorded
        <5>4. QED BY <4>3, <5>1, <5>2, <5>3 DEF SegmentRate
      <4>6. QED BY <4>4, <4>5
    <3>3. QED BY <3>1, <3>2
  <2>5. Len(longer) + 1 = Len(queue) + 2
    BY <1>1, <2>3
  <2>6. RateRecorded(new, rateOf, now)
    <3> HIDE DEF queue
    <3>1. Len(queue) + 1 = Len(longer)
      BY <2>3
    <3>2. QED BY <2>2, <2>4, <2>5, <3>1 DEF RateRecorded
  <2>7. QED BY <2>6 DEF new
<1>6. QED BY <1>3, <1>4, <1>5

\* settleRail leaves the segments that are not settled yet.
LEMMA SettledRecorded ==
  ASSUME NEW rail \in Rail, NEW target \in Nat, NEW outcomes, NEW now \in Nat,
         CanSettle(rail, target, outcomes), InOrder(rail, now),
         Settled(rail, target, outcomes).status = "active",
         NEW rateOf, RateRecorded(rail, rateOf, now)
  PROVE  RateRecorded(Settled(rail, target, outcomes), rateOf, now)
<1> DEFINE upTo  == outcomes[LastSegment(rail, target, outcomes)].settleUpTo
           queue == rail.rateChangeQueue
           new   == Settled(rail, target, outcomes)
           left  == new.rateChangeQueue
<1>1. /\ Len(queue) \in Nat
      /\ \A i \in 1 .. Len(queue) : queue[i].untilEpoch \in Nat
  BY QueueType
<1>2. /\ upTo \in Nat
      /\ new.settledUpTo = upTo /\ new.rate = rail.rate /\ new.endEpoch = rail.endEpoch
      /\ \E m \in 1 .. Len(queue) + 1 :
           /\ QueueFrom(left, queue, m)
           /\ SegmentStart(rail, m) <= upTo
  BY SettledQueue
<1> HIDE DEF upTo, new
<1>3. PICK m \in 1 .. Len(queue) + 1 :
        QueueFrom(left, queue, m) /\ SegmentStart(rail, m) <= upTo
  BY <1>2
<1>4. /\ Len(left) = Len(queue) - m + 1
      /\ \A i \in 1 .. Len(left) : i + m - 1 \in m .. Len(queue) /\ left[i] = queue[i + m - 1]
  BY <1>3 DEF QueueFrom
<1> HIDE DEF left
<1>5. ASSUME NEW i \in 1 .. Len(left) + 1, NEW e \in Nat,
             SegmentStart(new, i) < e, e <= now,
             i <= Len(left) => e <= left[i].untilEpoch,
             rail.endEpoch # NotEnded => e <= rail.endEpoch
      PROVE  rateOf[e] = SegmentRate(new, i)
  <2> DEFINE j == i + m - 1
  <2>1. j \in 1 .. Len(queue) + 1 /\ (i <= Len(left) <=> j <= Len(queue)) /\ (i = 1 => j = m)
    BY <1>1, <1>3, <1>4
  <2>2. i <= Len(left) => left[i] = queue[j]
    BY <1>4
  <2>3. SegmentRate(new, i) = SegmentRate(rail, j)
    <3> HIDE DEF j
    <3> QED BY <1>2, <2>1, <2>2 DEF SegmentRate, left
  <2>4. SegmentStart(rail, j) < e
    <3>1. SegmentStart(rail, j) \in Nat
      <4> HIDE DEF j
      <4> QED BY <1>1, <2>1, SegmentType
    <3>2. CASE i = 1
      <4>1. SegmentStart(new, i) = upTo
        BY <1>2, <3>2 DEF SegmentStart
      <4>2. SegmentStart(rail, j) <= upTo
        BY <1>3, <2>1, <3>2
      <4> HIDE DEF j
      <4>3. QED BY <1>2, <1>5, <3>1, <4>1, <4>2
    <3>3. CASE i # 1
      <4>1. i - 1 \in 1 .. Len(left) /\ j # 1 /\ (i - 1) + m - 1 = j - 1
        BY <1>1, <1>3, <1>4, <3>3
      <4>2. left[i - 1] = queue[j - 1]
        BY <1>4, <4>1
      <4> HIDE DEF j
      <4>3. SegmentStart(new, i) = SegmentStart(rail, j)
        BY <3>3, <4>1, <4>2 DEF SegmentStart, left
      <4>4. QED BY <1>5, <4>3
    <3>4. QED BY <3>2, <3>3
  <2> HIDE DEF j
  <2>5. rateOf[e] = SegmentRate(rail, j)
    BY <1>5, <2>1, <2>2, <2>4 DEF RateRecorded
  <2>6. QED BY <2>3, <2>5
<1>6. RateRecorded(new, rateOf, now)
  BY <1>2, <1>5 DEF RateRecorded, left
<1>7. QED BY <1>6 DEF new

-----------------------------------------------------------------------------
(* What one settlement pays.                                               *)

\* The sum of the amounts, written as a sum over a function.
LEMMA AmountIsSum ==
  ASSUME NEW S, IsFiniteSet(S), NEW outcomes
  PROVE  MapThenSumSet(LAMBDA i : outcomes[i].modifiedAmount, S)
           = SumOver([i \in S |-> outcomes[i].modifiedAmount], S)
<1> DEFINE amounts == [i \in S |-> outcomes[i].modifiedAmount]
           IsTable(h) == h = [s \in SUBSET S |-> IF s = {} THEN 0
                                ELSE outcomes[Picked(s)].modifiedAmount + h[s \ {Picked(s)}]]
           T == CHOOSE h : IsTable(h)
<1>1. MapThenSumSet(LAMBDA i : outcomes[i].modifiedAmount, S) = T[S]
  BY DEF MapThenSumSet, MapThenFoldSet, Picked
<1>2. ASSUME NEW h PROVE IsSumTable(h, amounts, S) <=> IsTable(h)
  <2>1. ASSUME NEW s \in SUBSET S, s # {}
        PROVE  amounts[Picked(s)] = outcomes[Picked(s)].modifiedAmount
    BY <2>1, PickedIsMember
  <2> HIDE DEF amounts
  <2>2. [s \in SUBSET S |-> IF s = {} THEN 0
                                ELSE outcomes[Picked(s)].modifiedAmount + h[s \ {Picked(s)}]]
        = [s \in SUBSET S |-> IF s = {} THEN 0 ELSE amounts[Picked(s)] + h[s \ {Picked(s)}]]
    BY <2>1
  <2>3. QED BY <2>2, Zenon DEF IsSumTable
<1>3. \E h : IsSumTable(h, amounts, S)
  BY TableExists
<1>4. IsSumTable(T, amounts, S)
  <2>1. \E h : IsTable(h)
    <3> HIDE DEF amounts, IsTable
    <3> QED BY <1>2, <1>3
  <2> HIDE DEF amounts
  <2>2. IsTable(T)
    <3> HIDE DEF IsTable
    <3> QED BY <2>1, Zenon
  <2> HIDE DEF IsTable, T
  <2>3. QED BY <1>2, <2>2
<1> DEFINE U == CHOOSE h : IsSumTable(h, amounts, S)
<1> HIDE DEF amounts
<1>5. SumOver(amounts, S) = U[S]
  BY DEF SumOver, MapThenSumSet, MapThenFoldSet, IsSumTable, Picked
<1> HIDE DEF T
<1>6. IsSumTable(U, amounts, S)
  BY <1>3, Zenon
<1> HIDE DEF U
<1>7. T[S] = U[S]
  BY <1>4, <1>6, TablesAgree
<1>8. QED BY <1>1, <1>5, <1>7 DEF amounts

\* A segment that is settled starts where the one before it ends, with no gap.
LEMMA SegmentsInOrder ==
  ASSUME NEW rail \in Rail, NEW now \in Nat, InOrder(rail, now), NEW target \in Nat,
         NEW i \in Segments(rail, target), NEW j \in 1 .. i - 1
  PROVE  j \in Segments(rail, target) /\ SegmentEnd(rail, target, j) = SegmentStart(rail, j + 1)
<1> DEFINE queue == rail.rateChangeQueue
           until == queue[j].untilEpoch
<1>1. /\ Len(queue) \in Nat /\ rail.settledUpTo \in Nat
      /\ \A k \in 1 .. Len(queue) : queue[k].untilEpoch \in Nat
  BY QueueType DEF Rail
<1>2. i \in 1 .. Len(queue) + 1 /\ SegmentStart(rail, i) < target
  BY DEF Segments
<1>3. /\ j \in 1 .. Len(queue) /\ i - 1 \in 1 .. Len(queue) /\ i # 1
      /\ j < i - 1 \/ j = i - 1
  BY <1>1, <1>2
<1>4. until \in Nat /\ until < target
  <2>1. SegmentStart(rail, i) = queue[i - 1].untilEpoch
    BY <1>3 DEF SegmentStart
  <2>2. j < i - 1 => queue[j].untilEpoch < queue[i - 1].untilEpoch
    BY <1>3 DEF InOrder
  <2>3. QED BY SMTT(30), <1>1, <1>2, <1>3, <2>1, <2>2
<1>5. SegmentStart(rail, j) \in Nat /\ SegmentStart(rail, j) < until
  <2>1. CASE j = 1
    BY <1>1, <1>3, <2>1 DEF SegmentStart, InOrder
  <2>2. CASE j # 1
    <3>1. j - 1 \in 1 .. Len(queue) /\ j - 1 < j
      BY <1>1, <1>3, <2>2
    <3>2. queue[j - 1].untilEpoch < queue[j].untilEpoch
      BY <1>3, <3>1 DEF InOrder
    <3>3. QED BY <1>1, <2>2, <3>1, <3>2 DEF SegmentStart
  <2>3. QED BY <2>1, <2>2
<1>6. SegmentEnd(rail, target, j) = until
  <2>1. SegmentEnd(rail, target, j) = Min({target, until})
    BY <1>3 DEF SegmentEnd
  <2> HIDE DEF until
  <2>2. QED BY <1>4, <2>1, MinOfTwo
<1>7. SegmentStart(rail, j + 1) = until
  BY <1>3 DEF SegmentStart
<1>8. j \in Segments(rail, target)
  <2>1. j \in 1 .. Len(queue) + 1
    BY <1>1, <1>3
  <2> HIDE DEF until
  <2>2. QED BY <1>4, <1>5, <2>1 DEF Segments
<1>9. QED BY <1>6, <1>7, <1>8

\* The epochs of a segment were charged at its rate.
LEMMA SegmentRateRecorded ==
  ASSUME NEW rail \in Rail, NEW now \in Nat, NEW target \in Nat, target <= now,
         rail.endEpoch # NotEnded => target <= rail.endEpoch,
         NEW rateOf, RateRecorded(rail, rateOf, now),
         NEW i \in Segments(rail, target), NEW e \in Nat,
         SegmentStart(rail, i) < e, e <= SegmentEnd(rail, target, i)
  PROVE  rateOf[e] = SegmentRate(rail, i)
<1> DEFINE queue == rail.rateChangeQueue
<1>1. i \in 1 .. Len(queue) + 1 /\ Len(queue) \in Nat
  BY QueueType DEF Segments
<1>2. SegmentEnd(rail, target, i) \in Nat /\ SegmentEnd(rail, target, i) <= target
  BY <1>1, SegmentType
<1>3. ASSUME i <= Len(queue) PROVE e <= queue[i].untilEpoch
  <2> DEFINE until == queue[i].untilEpoch
  <2>1. until \in Nat
    BY <1>1, <1>3, QueueType
  <2>2. SegmentEnd(rail, target, i) = Min({target, until})
    BY <1>3 DEF SegmentEnd
  <2> HIDE DEF until
  <2>3. Min({target, until}) <= until
    BY <2>1, MinOfTwo
  <2>4. e <= until
    BY <1>2, <2>1, <2>2, <2>3
  <2>5. QED BY <2>4 DEF until
<1>4. e <= now /\ (rail.endEpoch # NotEnded => e <= rail.endEpoch)
  BY <1>2 DEF Rail
<1>5. QED BY <1>1, <1>3, <1>4 DEF RateRecorded

\* Every segment of the settlement is put before validatePayment.
AnsweredByWarmStorage(rail, target, outcomes, proven, A, M, now) ==
  \A i \in Segments(rail, target) :
    outcomes[i] = ValidatePayment(proven, SegmentStart(rail, i), SegmentEnd(rail, target, i),
                                  SegmentRate(rail, i), A, M, now)

\* However many rates it passes, a settlement pays each proven epoch of the range it
\* settles at the rate that epoch was charged at, and nothing else.
LEMMA SettlementPaysProvenEpochs ==
  ASSUME NEW rail \in Rail, NEW now \in Nat, InOrder(rail, now),
         NEW target \in Nat, target <= now, rail.endEpoch # NotEnded => target <= rail.endEpoch,
         NEW proven \in SUBSET Nat, NEW A \in Nat, NEW M \in Nat \ {0}, NEW outcomes,
         AnsweredByWarmStorage(rail, target, outcomes, proven, A, M, now),
         CanSettle(rail, target, outcomes),
         NEW rateOf, RateRecorded(rail, rateOf, now),
         \A e \in Nat : rail.settledUpTo < e /\ e <= now => rateOf[e] \in Nat
  PROVE  LET upTo == outcomes[LastSegment(rail, target, outcomes)].settleUpTo
         IN  /\ upTo \in Nat /\ rail.settledUpTo <= upTo /\ upTo <= target
             /\ SettledAmount(rail, target, outcomes)
                  = SumOver(rateOf, ProvenWithin(proven, rail.settledUpTo, upTo, A, M))
<1> DEFINE last       == LastSegment(rail, target, outcomes)
           reached(n) == IF n = 0 THEN rail.settledUpTo ELSE outcomes[n].settleUpTo
           paid(n)    == ProvenWithin(proven, rail.settledUpTo, reached(n), A, M)
           part(n)    == ProvenWithin(proven, reached(n), reached(n + 1), A, M)
           amounts    == [i \in 1 .. last |-> outcomes[i].modifiedAmount]
<1>1. rail.settledUpTo \in Nat /\ rail.settledUpTo < target
  BY DEF Rail, CanSettle
<1>2. /\ last \in Segments(rail, target)
      /\ AcceptsOutcome(rail, target, last, outcomes[last])
      /\ \A i \in Segments(rail, target) : i < last =>
           /\ AcceptsOutcome(rail, target, i, outcomes[i])
           /\ ~(outcomes[i].settleUpTo < SegmentEnd(rail, target, i))
  BY <1>1, LastSegmentExists DEF CanSettle
<1>3. ASSUME NEW i \in Segments(rail, target), AcceptsOutcome(rail, target, i, outcomes[i])
      PROVE  /\ SegmentStart(rail, i) \in Nat /\ SegmentEnd(rail, target, i) \in Nat
             /\ SegmentEnd(rail, target, i) <= target
             /\ outcomes[i].settleUpTo \in SegmentStart(rail, i) .. SegmentEnd(rail, target, i)
             /\ outcomes[i].modifiedAmount
                  = SumOver(rateOf, ProvenWithin(proven, SegmentStart(rail, i),
                                                 outcomes[i].settleUpTo, A, M))
  <2> DEFINE start == SegmentStart(rail, i)
             end   == SegmentEnd(rail, target, i)
             rate  == SegmentRate(rail, i)
  <2>1. i \in 1 .. Len(rail.rateChangeQueue) + 1
    BY DEF Segments
  <2>2. start \in Nat /\ end \in Nat /\ end <= target /\ rate \in Nat /\ start < end
    BY <2>1, SegmentType, SegmentNotEmpty
  <2>3. \A e \in ProvenWithin(proven, start, end, A, M) : rateOf[e] = rate
    <3> HIDE DEF start, end, rate
    <3>1. \A e \in ProvenWithin(proven, start, end, A, M) : e \in Nat /\ start < e /\ e <= end
      BY <2>2, ProvenWithinType
    <3>2. QED BY <3>1, SegmentRateRecorded DEF start, end, rate
  <2>4. outcomes[i] = ValidatePayment(proven, start, end, rate, A, M, now)
    BY DEF AnsweredByWarmStorage
  <2>5. ValidatePayment(proven, start, end, rate, A, M, now).ok
    BY <1>3, <2>4 DEF AcceptsOutcome
  <2> HIDE DEF start, end, rate
  <2>6. QED BY <2>2, <2>3, <2>4, <2>5, AnswerPaysProvenEpochs DEF start, end
<1>4. last \in Nat \ {0}
  BY <1>2, QueueType DEF Segments
<1> HIDE DEF last
<1>5. ASSUME NEW n \in Nat, n < last
      PROVE  /\ n + 1 \in Segments(rail, target)
             /\ AcceptsOutcome(rail, target, n + 1, outcomes[n + 1])
             /\ reached(n) = SegmentStart(rail, n + 1)
  <2>1. n + 1 \in Segments(rail, target) /\ AcceptsOutcome(rail, target, n + 1, outcomes[n + 1])
    <3>1. CASE n + 1 = last
      BY <1>2, <3>1
    <3>2. CASE n + 1 # last
      <4>1. n + 1 \in 1 .. last - 1 /\ n + 1 < last
        BY <1>4, <1>5, <3>2
      <4>2. n + 1 \in Segments(rail, target)
        BY <1>2, <4>1, SegmentsInOrder
      <4>3. QED BY <1>2, <4>1, <4>2
    <3>3. QED BY <3>1, <3>2
  <2>2. reached(n) = SegmentStart(rail, n + 1)
    <3>1. CASE n = 0
      BY <3>1 DEF SegmentStart
    <3>2. CASE n # 0
      <4>1. n \in 1 .. last - 1
        BY <1>4, <1>5, <3>2
      <4>2. n \in Segments(rail, target) /\ SegmentEnd(rail, target, n) = SegmentStart(rail, n + 1)
        BY <1>2, <4>1, SegmentsInOrder
      <4>3. /\ AcceptsOutcome(rail, target, n, outcomes[n])
            /\ ~(outcomes[n].settleUpTo < SegmentEnd(rail, target, n))
        BY <1>2, <1>5, <4>2
      <4>4. /\ outcomes[n].settleUpTo \in SegmentStart(rail, n) .. SegmentEnd(rail, target, n)
            /\ SegmentStart(rail, n) \in Nat /\ SegmentEnd(rail, target, n) \in Nat
        BY <1>3, <4>2, <4>3
      <4>5. outcomes[n].settleUpTo = SegmentEnd(rail, target, n)
        BY <4>3, <4>4
      <4>6. QED BY <3>2, <4>2, <4>5
    <3>3. QED BY <3>1, <3>2
  <2>3. QED BY <2>1, <2>2
<1>6. ASSUME NEW n \in Nat, n < last
      PROVE  /\ reached(n) \in Nat /\ reached(n + 1) \in Nat /\ reached(n) <= reached(n + 1)
             /\ reached(n + 1) <= target
             /\ amounts[n + 1] = SumOver(rateOf, part(n))
  <2>1. n + 1 # 0 /\ n + 1 \in 1 .. last
    BY <1>4, <1>6
  <2>2. reached(n + 1) = outcomes[n + 1].settleUpTo /\ amounts[n + 1] = outcomes[n + 1].modifiedAmount
    BY <2>1
  <2>3. reached(n) = SegmentStart(rail, n + 1)
    BY <1>5, <1>6
  <2>4. /\ SegmentStart(rail, n + 1) \in Nat /\ SegmentEnd(rail, target, n + 1) \in Nat
        /\ SegmentEnd(rail, target, n + 1) <= target
        /\ outcomes[n + 1].settleUpTo
             \in SegmentStart(rail, n + 1) .. SegmentEnd(rail, target, n + 1)
        /\ outcomes[n + 1].modifiedAmount
             = SumOver(rateOf, ProvenWithin(proven, SegmentStart(rail, n + 1),
                                            outcomes[n + 1].settleUpTo, A, M))
    BY <1>3, <1>5, <1>6
  <2>5. amounts[n + 1] = SumOver(rateOf, part(n))
    <3> HIDE DEF reached, amounts
    <3> QED BY <2>2, <2>3, <2>4
  <2> HIDE DEF reached, amounts, part
  <2>6. QED BY <2>2, <2>3, <2>4, <2>5
<1> DEFINE good == {n \in Nat : /\ reached(n) \in Nat /\ rail.settledUpTo <= reached(n)
                                /\ reached(n) <= target
                                /\ SumOver(rateOf, paid(n)) = SumOver(amounts, 1 .. n)
                                /\ SumOver(rateOf, paid(n)) \in Nat
                                /\ \A i \in 1 .. n : amounts[i] \in Nat}
<1>7. 0 \in good
  <2>1. paid(0) = {} /\ 1 .. 0 = {}
    BY <1>1, ProvenWithinNothing
  <2>2. reached(0) = rail.settledUpTo
    OBVIOUS
  <2> HIDE DEF paid, reached, amounts
  <2>3. QED BY <1>1, <2>1, <2>2, SumOfNothing
<1>8. ASSUME NEW n \in Nat, n < last, n \in good
      PROVE  n + 1 \in good
  <2>1. /\ reached(n) \in Nat /\ rail.settledUpTo <= reached(n)
        /\ SumOver(rateOf, paid(n)) = SumOver(amounts, 1 .. n)
        /\ SumOver(rateOf, paid(n)) \in Nat
        /\ \A i \in 1 .. n : amounts[i] \in Nat
    <3> HIDE DEF reached, paid, amounts
    <3> QED BY <1>8
  <2>2. /\ reached(n + 1) \in Nat /\ reached(n) <= reached(n + 1) /\ reached(n + 1) <= target
        /\ amounts[n + 1] = SumOver(rateOf, part(n))
    BY <1>6, <1>8
  <2> HIDE DEF reached, amounts
  <2>3. /\ paid(n + 1) = paid(n) \cup part(n) /\ paid(n) \cap part(n) = {}
        /\ IsFiniteSet(paid(n)) /\ IsFiniteSet(part(n))
        /\ \A e \in paid(n) \cup part(n) : e \in Nat /\ rail.settledUpTo < e /\ e <= now
    <3> DEFINE a == reached(n)
               b == reached(n + 1)
    <3>1. a \in Nat /\ b \in Nat /\ rail.settledUpTo <= a /\ a <= b /\ b <= target
      BY <2>1, <2>2
    <3> HIDE DEF a, b
    <3>2. /\ ProvenWithin(proven, rail.settledUpTo, b, A, M)
               = ProvenWithin(proven, rail.settledUpTo, a, A, M) \cup ProvenWithin(proven, a, b, A, M)
          /\ ProvenWithin(proven, rail.settledUpTo, a, A, M) \cap ProvenWithin(proven, a, b, A, M) = {}
      BY <1>1, <3>1, ProvenWithinSplit
    <3>3. /\ IsFiniteSet(ProvenWithin(proven, rail.settledUpTo, a, A, M))
          /\ \A e \in ProvenWithin(proven, rail.settledUpTo, a, A, M) :
               e \in Nat /\ rail.settledUpTo < e /\ e <= a
      BY <1>1, <3>1, ProvenWithinType
    <3>4. /\ IsFiniteSet(ProvenWithin(proven, a, b, A, M))
          /\ \A e \in ProvenWithin(proven, a, b, A, M) : e \in Nat /\ a < e /\ e <= b
      BY <3>1, ProvenWithinType
    <3>5. \A e \in ProvenWithin(proven, rail.settledUpTo, a, A, M)
                     \cup ProvenWithin(proven, a, b, A, M) :
            e \in Nat /\ rail.settledUpTo < e /\ e <= now
      BY <1>1, <3>1, <3>3, <3>4
    <3>6. QED BY <3>2, <3>3, <3>4, <3>5 DEF a, b
  <2> HIDE DEF paid, part
  <2>4. \A e \in paid(n) \cup part(n) : rateOf[e] \in Nat
    BY <2>3
  <2>5. SumOver(rateOf, paid(n + 1)) = SumOver(rateOf, paid(n)) + SumOver(rateOf, part(n))
    BY <2>3, <2>4, SumOfUnion
  <2>6. SumOver(rateOf, part(n)) \in Nat
    BY <2>3, <2>4, SumIsNatural
  <2>7. amounts[n + 1] \in Nat
    BY <2>2, <2>6
  <2>8. 1 .. n + 1 = (1 .. n) \cup {n + 1} /\ n + 1 \notin 1 .. n
    OBVIOUS
  <2>9. \A i \in (1 .. n) \cup {n + 1} : amounts[i] \in Nat
    BY <2>1, <2>7
  <2>10. SumOver(amounts, 1 .. n + 1) = amounts[n + 1] + SumOver(amounts, 1 .. n)
    <3>1. IsFiniteSet(1 .. n)
      BY FS_Interval
    <3>2. QED BY <2>8, <2>9, <3>1, SumOfAdded
  <2>11. /\ SumOver(rateOf, paid(n + 1)) = SumOver(amounts, 1 .. n + 1)
         /\ SumOver(rateOf, paid(n + 1)) \in Nat
    BY <2>1, <2>2, <2>5, <2>6, <2>10
  <2>12. rail.settledUpTo <= reached(n + 1)
    BY <1>1, <2>1, <2>2
  <2>13. QED BY <2>2, <2>8, <2>9, <2>11, <2>12
<1>9. last \in good
  <2> HIDE DEF good
  <2>1. \A n \in 0 .. last : n \in good
    BY <1>4, <1>7, <1>8, InductionUpTo
  <2>2. QED BY <1>4, <2>1
<1>10. reached(last) = outcomes[last].settleUpTo
  BY <1>4
<1>11. SettledAmount(rail, target, outcomes) = SumOver(amounts, 1 .. last)
  <2>1. IsFiniteSet(1 .. last)
    BY <1>4, FS_Interval
  <2>2. SettledAmount(rail, target, outcomes)
          = MapThenSumSet(LAMBDA i : outcomes[i].modifiedAmount, 1 .. last)
    BY DEF SettledAmount, last
  <2>3. QED BY <2>1, <2>2, AmountIsSum
<1> HIDE DEF reached, amounts
<1>12. QED BY <1>9, <1>10, <1>11 DEF last

-----------------------------------------------------------------------------
(* The invariant.                                                          *)

AuditRecord ==
  [covered : SUBSET Epochs, rateOf : [Epochs -> Nat], paid : Nat, settledUpTo : Nat,
   activations : Nat, waived : BOOLEAN]

\* The epochs of the periods that the bitmap marks.
MarkedEpochs(d) ==
  {e \in Epochs : ProvingPeriodForEpoch(provingActivationEpoch[d], e, proving.maxProvingPeriod)
                    \in provenPeriods[d]}

\* The epochs that a proof covers and that are settled.
SettledProofs(d) == {e \in audit[d].covered : e <= audit[d].settledUpTo}

\* A period whose proof may still arrive begins after the last settlement.
ProofsComeBeforePayment(d) ==
  \A p \in Nat :
    LET deadline == CalcPeriodDeadline(provingActivationEpoch[d], p, proving.maxProvingPeriod)
    IN  p \notin provenPeriods[d] /\ blockNumber <= deadline
          => audit[d].settledUpTo <= deadline - proving.maxProvingPeriod

\* The history and the rail agree on what is settled: the rail may be ahead of the last
\* settlement, by epochs without proof before its first rate.
SettlementRecorded(d, rail) ==
  /\ audit[d].settledUpTo <= rail.settledUpTo
  /\ \A e \in audit[d].covered : e <= rail.settledUpTo => e <= audit[d].settledUpTo

PaidRail(d) == Live(d) /\ PdpRail(d).status = "active"

DataSetPaid(d) ==
  /\ audit[d].settledUpTo <= blockNumber
  /\ audit[d].activations = 0 => provingActivationEpoch[d] = NeverActivated
  /\ PaidRail(d) => /\ RateRecorded(PdpRail(d), audit[d].rateOf, blockNumber)
                    /\ FirstEpoch <= PdpRail(d).settledUpTo
  /\ Arbitrated(d) =>
       /\ audit[d].paid = SumOver(audit[d].rateOf, SettledProofs(d))
       /\ pdp[d].status # "deleted" => audit[d].covered = MarkedEpochs(d)
       /\ PaidRail(d) => SettlementRecorded(d, PdpRail(d))
       /\ Live(d) /\ provingActivationEpoch[d] # NeverActivated => ProofsComeBeforePayment(d)

PaymentInv ==
  /\ WaitInv
  /\ audit \in [DataSetIds -> AuditRecord]
  /\ \A d \in DataSetIds : DataSetPaid(d)

\* Before proving starts no epoch is marked.
LEMMA NothingMarked ==
  ASSUME IInv, NEW d \in DataSetIds,
         provingActivationEpoch[d] = NeverActivated \/ provenPeriods[d] = {}
  PROVE  MarkedEpochs(d) = {}
<1>1. NoPeriod \notin provenPeriods[d]
  BY DEF IInv, TypeOK, NoPeriod
<1>2. QED BY <1>1 DEF MarkedEpochs, ProvingPeriodForEpoch

LEMMA InitPayment == Init => PaymentInv
<1> SUFFICES ASSUME Init PROVE PaymentInv
  OBVIOUS
<1>1. WaitInv /\ IInv
  BY InitWait DEF WaitInv, OrderInv
<1>2. ASSUME NEW d \in DataSetIds
      PROVE  audit[d] = NoAudit /\ provingActivationEpoch[d] = NeverActivated /\ ~Live(d)
  BY DEF Init, Live
<1>3. NoAudit \in AuditRecord
  BY DEF NoAudit, AuditRecord
<1>4. audit \in [DataSetIds -> AuditRecord]
  BY <1>3 DEF Init
<1>5. ASSUME NEW d \in DataSetIds PROVE DataSetPaid(d)
  <2>1. /\ audit[d].covered = {} /\ audit[d].paid = 0 /\ audit[d].settledUpTo = 0
    BY <1>2 DEF NoAudit
  <2>2. 0 <= blockNumber
    BY <1>1, BlockNumberType
  <2>3. MarkedEpochs(d) = {}
    BY <1>1, <1>2, NothingMarked
  <2>4. SettledProofs(d) = {}
    BY <2>1 DEF SettledProofs
  <2>5. SumOver(audit[d].rateOf, {}) = 0
    BY SumOfNothing
  <2>6. QED BY <1>2, <2>1, <2>2, <2>3, <2>4, <2>5 DEF DataSetPaid, PaidRail
<1>6. QED BY <1>1, <1>4, <1>5 DEF PaymentInv

-----------------------------------------------------------------------------
(* A step that neither proves nor settles, seen from one data set.         *)

\* What becomes of the rail of a data set other than by settlement.
RailCarriedOver(d) ==
  PaidRail(d)' =>
    \/ /\ PaidRail(d)
       /\ PdpRail(d) \in Rail /\ InOrder(PdpRail(d), blockNumber) /\ RatesCharged(PdpRail(d))
       /\ \/ /\ PdpRail(d)'.rate = PdpRail(d).rate
             /\ PdpRail(d)'.settledUpTo = PdpRail(d).settledUpTo
             /\ PdpRail(d)'.rateChangeQueue = PdpRail(d).rateChangeQueue
             /\ PdpRail(d).endEpoch \in {NotEnded, PdpRail(d)'.endEpoch}
          \/ \E rate \in Nat \ {0} : PdpRail(d)' = SetRate(PdpRail(d), rate, blockNumber)
    \/ /\ ~Live(d)
       /\ PdpRail(d)'.settledUpTo = blockNumber /\ PdpRail(d)'.rateChangeQueue = << >>

LEMMA RailsCarriedOver ==
  ASSUME WaitInv, WaitInv', [Next]_vars, NEW d \in DataSetIds,
         \A e \in Epochs : ~(Live(d) /\ SettleRail(dataSetInfo[d].pdpRailId, e))
  PROVE  RailCarriedOver(d)
<1> SUFFICES ASSUME PaidRail(d)' PROVE RailCarriedOver(d)
  BY DEF RailCarriedOver
<1> DEFINE r == dataSetInfo'[d].pdpRailId
<1>1. IInv /\ DataSetInv /\ RateInv /\ RailsCharged /\ pricing.minimumRate > 0 /\ OrderInv
  BY DEF WaitInv, OrderInv, RateInv, RailsCharged
<1>2. DataSetStep(d)
  BY <1>1, PDPVerifierDataSetStep, OtherDataSetStep DEF Next
<1>3. r \in RailIds /\ PdpRail(d)' = rails'[r] /\ rails'[r].status = "active" /\ Live(d)'
  BY DEF WaitInv, DataSetInv, LinkInv, DataSetsHaveRails, PaidRail, PdpRail
<1>4. RailStaysCharged(r)
  BY <1>1, <1>3, NextRailsCharged DEF RailsStayCharged
<1>5. CASE SameRail(d)
  <2>1. PdpRail(d) = rails[r] /\ r = dataSetInfo[d].pdpRailId /\ Live(d) /\ r < nextIds.rail
    BY <1>5 DEF SameRail, PdpRail, WaitInv, DataSetInv, LinkInv, DataSetsHaveRails
  <2>2. rails[r].status = "active"
    BY <1>1, <1>3, <2>1, ChargesKept, NextRailsCharged
  <2>3. PaidRail(d) /\ PdpRail(d) \in Rail /\ InOrder(PdpRail(d), blockNumber)
        /\ RatesCharged(PdpRail(d))
    BY <1>1, <1>3, <2>1, <2>2 DEF PaidRail, OrderInv, RailsInOrder, IInv, TypeOK, RailsCharged
  <2>4. ~(r >= nextIds.rail)
    BY <1>1, <1>3, <2>1 DEF IInv, TypeOK, RailIds
  <2>5. \/ ChargedAsBefore(r)
        \/ \E rate \in Nat \ {0} : rails'[r] = SetRate(rails[r], rate, blockNumber)
    BY <1>3, <1>4, <2>1, <2>4 DEF RailStaysCharged, CreatedNow
  <2>6. QED BY <1>3, <2>1, <2>3, <2>5 DEF RailCarriedOver, ChargedAsBefore
<1>6. CASE ~SameRail(d)
  <2>1. Created(d) /\ r = nextIds.rail /\ ~Live(d)
    BY <1>2, <1>3, <1>6 DEF DataSetStep, DataSetKept, PiecesCharged, ProvingStarted, Created, Deleted
  <2>2. rails[r].status = "none"
    BY <1>1, <1>3, <2>1 DEF DataSetInv, LinkInv, FreshIds, IInv, TypeOK
  <2>3. CreatedNow(r)
    BY <1>3, <1>4, <2>2 DEF RailStaysCharged, ChargedAsBefore, SettleRail
  <2>4. QED BY <1>3, <2>1, <2>3 DEF RailCarriedOver, CreatedNow
<1>7. QED BY <1>5, <1>6

\* The history of a data set and its bitmap stay what they are, and it keeps its
\* activation unless it is deleted, which is for good.
RecordKept(d) ==
  /\ audit'[d] = audit[d] /\ provenPeriods'[d] = provenPeriods[d]
  /\ pdp[d].status = "deleted" => pdp'[d].status = "deleted"
  /\ \/ provingActivationEpoch'[d] = provingActivationEpoch[d]
     \/ pdp'[d].status = "deleted" /\ provingActivationEpoch'[d] = NeverActivated

\* The rail that is carried over fits the history as it was.
LEMMA CarriedRailRecorded ==
  ASSUME PaymentInv, NEW d \in DataSetIds, RailCarriedOver(d), PaidRail(d)', UNCHANGED blockNumber
  PROVE  /\ RateRecorded(PdpRail(d)', audit[d].rateOf, blockNumber)
         /\ FirstEpoch <= PdpRail(d)'.settledUpTo
         /\ Arbitrated(d) /\ pdp[d].status # "deleted" => SettlementRecorded(d, PdpRail(d)')
<1> DEFINE rail == PdpRail(d)
           new  == PdpRail(d)'
<1>1. /\ WaitInv /\ IInv /\ DataSetPaid(d) /\ blockNumber \in Nat
      /\ FirstEpoch \in Nat /\ FirstEpoch <= blockNumber
  BY SMTT(30), BlockNumberType, Constants
     DEF PaymentInv, WaitInv, OrderInv, IInv, TypeOK, Epochs, ConstantsAssumption
<1>2. audit[d].covered \subseteq Nat /\ audit[d].settledUpTo <= blockNumber
  BY <1>1, Constants DEF PaymentInv, AuditRecord, DataSetPaid, Epochs, ConstantsAssumption
<1>3. Arbitrated(d) /\ pdp[d].status # "deleted" /\ provingActivationEpoch[d] = NeverActivated
        => audit[d].covered = {}
  BY <1>1, NothingMarked DEF DataSetPaid
<1>4. ASSUME new.settledUpTo = blockNumber, new.rateChangeQueue = << >>,
             provingActivationEpoch[d] = NeverActivated
      PROVE  /\ RateRecorded(new, audit[d].rateOf, blockNumber)
             /\ FirstEpoch <= new.settledUpTo
             /\ Arbitrated(d) /\ pdp[d].status # "deleted" => SettlementRecorded(d, new)
  <2> HIDE DEF new
  <2> QED BY <1>1, <1>2, <1>3, <1>4, NothingToRecord DEF SettlementRecorded
<1>5. CASE ~Live(d)
  <2>1. provingActivationEpoch[d] = NeverActivated
    BY <1>1, <1>5 DEF WaitInv, RateInv, DataSetsCharged
  <2>2. new.settledUpTo = blockNumber /\ new.rateChangeQueue = << >>
    BY <1>5 DEF RailCarriedOver, PaidRail
  <2>3. QED BY <1>4, <2>1, <2>2
<1>6. CASE Live(d)
  <2>1. /\ PaidRail(d) /\ rail \in Rail /\ InOrder(rail, blockNumber) /\ RatesCharged(rail)
        /\ \/ /\ new.rate = rail.rate
              /\ new.settledUpTo = rail.settledUpTo
              /\ new.rateChangeQueue = rail.rateChangeQueue
              /\ rail.endEpoch \in {NotEnded, new.endEpoch}
           \/ \E rate \in Nat \ {0} : new = SetRate(rail, rate, blockNumber)
    BY <1>6 DEF RailCarriedOver
  <2>2. /\ RateRecorded(rail, audit[d].rateOf, blockNumber) /\ FirstEpoch <= rail.settledUpTo
        /\ Arbitrated(d) => SettlementRecorded(d, rail)
    BY <1>1, <2>1 DEF DataSetPaid
  <2>3. rail.rate = 0 => provingActivationEpoch[d] = NeverActivated
    BY <1>1, <2>1 DEF PaidRail, WaitInv, RateInv, DataSetsCharged
  <2> HIDE DEF rail, new
  <2>4. ASSUME new.settledUpTo = rail.settledUpTo, RateRecorded(new, audit[d].rateOf, blockNumber)
        PROVE  /\ RateRecorded(new, audit[d].rateOf, blockNumber)
               /\ FirstEpoch <= new.settledUpTo
               /\ Arbitrated(d) /\ pdp[d].status # "deleted" => SettlementRecorded(d, new)
    BY <2>2, <2>4 DEF SettlementRecorded
  <2>5. CASE /\ new.rate = rail.rate
             /\ new.settledUpTo = rail.settledUpTo
             /\ new.rateChangeQueue = rail.rateChangeQueue
             /\ rail.endEpoch \in {NotEnded, new.endEpoch}
    <3>1. RateRecorded(new, audit[d].rateOf, blockNumber)
      BY <2>2, <2>5, ChargesStayRecorded
    <3>2. QED BY <2>4, <2>5, <3>1 DEF new
  <2>6. ASSUME NEW rate \in Nat \ {0}, new = SetRate(rail, rate, blockNumber)
        PROVE  /\ RateRecorded(new, audit[d].rateOf, blockNumber)
               /\ FirstEpoch <= new.settledUpTo
               /\ Arbitrated(d) /\ pdp[d].status # "deleted" => SettlementRecorded(d, new)
    <3>1. RateRecorded(new, audit[d].rateOf, blockNumber)
      BY <1>1, <2>1, <2>2, <2>6, SetRateRecorded
    <3>2. rail.rate > 0 => new.settledUpTo = rail.settledUpTo
      BY <1>1, <2>1, <2>6, SetRateKeepsCharged
    <3>3. new.settledUpTo = rail.settledUpTo \/ new.settledUpTo = blockNumber
      BY <1>1, <2>1, <2>6, SetRateEffect
    <3>4. CASE new.settledUpTo = rail.settledUpTo
      BY <2>4, <3>1, <3>4
    <3>5. CASE new.settledUpTo # rail.settledUpTo
      <4>1. rail.rate = 0
        <5>1. rail.rate \in Nat
          BY <2>1 DEF Rail
        <5>2. QED BY <3>2, <3>5, <5>1
      <4>2. new.settledUpTo = blockNumber
        BY <3>3, <3>5
      <4>3. Arbitrated(d) /\ pdp[d].status # "deleted" => SettlementRecorded(d, new)
        BY <1>1, <1>2, <1>3, <2>3, <4>1, <4>2 DEF SettlementRecorded
      <4>4. QED BY <1>1, <3>1, <4>2, <4>3
    <3>6. QED BY <3>4, <3>5
  <2>7. QED BY <2>1, <2>5, <2>6 DEF new
<1>7. QED BY <1>5, <1>6

\* So what is paid stays exact.
LEMMA RecordKeptPaid ==
  ASSUME PaymentInv, NEW d \in DataSetIds, RecordKept(d), RailCarriedOver(d),
         UNCHANGED <<blockNumber, proving.maxProvingPeriod>>
  PROVE  DataSetPaid(d)'
<1>1. DataSetPaid(d) /\ audit'[d] = audit[d] /\ provenPeriods'[d] = provenPeriods[d]
  BY DEF PaymentInv, RecordKept
<1>2. Arbitrated(d)' = Arbitrated(d) /\ SettledProofs(d)' = SettledProofs(d)
  BY <1>1 DEF Arbitrated, SettledProofs
<1>3. audit'[d].activations = 0 => provingActivationEpoch'[d] = NeverActivated
  BY <1>1 DEF DataSetPaid, RecordKept
<1>4. pdp'[d].status # "deleted" => /\ provingActivationEpoch'[d] = provingActivationEpoch[d]
                                    /\ MarkedEpochs(d)' = MarkedEpochs(d)
                                    /\ pdp[d].status # "deleted"
  BY <1>1 DEF RecordKept, MarkedEpochs
<1>5. PaidRail(d)' => /\ RateRecorded(PdpRail(d), audit[d].rateOf, blockNumber)'
                      /\ (FirstEpoch <= PdpRail(d).settledUpTo)'
                      /\ Arbitrated(d) => SettlementRecorded(d, PdpRail(d))'
  <2> SUFFICES ASSUME PaidRail(d)'
               PROVE  /\ RateRecorded(PdpRail(d), audit[d].rateOf, blockNumber)'
                      /\ (FirstEpoch <= PdpRail(d).settledUpTo)'
                      /\ Arbitrated(d) => SettlementRecorded(d, PdpRail(d))'
    OBVIOUS
  <2>1. pdp[d].status # "deleted"
    BY <1>4 DEF PaidRail, Live
  <2>2. /\ RateRecorded(PdpRail(d)', audit[d].rateOf, blockNumber)
        /\ FirstEpoch <= PdpRail(d)'.settledUpTo
        /\ Arbitrated(d) => SettlementRecorded(d, PdpRail(d)')
    BY <2>1, CarriedRailRecorded
  <2>3. QED BY <1>1, <2>2 DEF RateRecorded, SettlementRecorded
<1>6. Arbitrated(d) /\ Live(d)' /\ provingActivationEpoch'[d] # NeverActivated
        => ProofsComeBeforePayment(d)'
  <2> SUFFICES ASSUME Arbitrated(d), Live(d)', provingActivationEpoch'[d] # NeverActivated
               PROVE  ProofsComeBeforePayment(d)'
    OBVIOUS
  <2>1. provingActivationEpoch'[d] = provingActivationEpoch[d]
    BY <1>4 DEF Live
  <2>2. Live(d)
    BY <2>1 DEF PaymentInv, WaitInv, RateInv, DataSetsCharged
  <2>3. ProofsComeBeforePayment(d)
    BY <1>1, <2>1, <2>2 DEF DataSetPaid
  <2>4. QED BY <1>1, <2>1, <2>3 DEF ProofsComeBeforePayment
<1>7. QED BY <1>1, <1>2, <1>3, <1>4, <1>5, <1>6 DEF DataSetPaid

-----------------------------------------------------------------------------
(* A settlement.                                                           *)

\* The data set that a settlement with a validator is about, and what it records.
LEMMA SettlementEffect ==
  ASSUME WaitInv, audit \in [DataSetIds -> AuditRecord],
         NEW r \in RailIds, NEW e \in Nat, SettleRail(r, e),
         NEW d \in DataSetIds, railToDataSet[r] = d
  PROVE  LET target   == TargetOf(r, e)
             outcomes == Outcomes(r, target)
             amount   == SettledAmount(rails[r], target, outcomes)
         IN  /\ Live(d) /\ dataSetInfo[d].pdpRailId = r /\ PdpRail(d) = rails[r]
             /\ rails[r].status = "active" /\ rails[r] \in Rail
             /\ InOrder(rails[r], blockNumber) /\ RatesCharged(rails[r])
             /\ target \in Nat /\ target <= blockNumber
             /\ rails[r].endEpoch # NotEnded => target <= rails[r].endEpoch
             /\ CanSettle(rails[r], target, outcomes)
             /\ PdpRail(d)' = Settled(rails[r], target, outcomes)
             /\ UNCHANGED <<blockNumber, proving, provenPeriods, provingActivationEpoch, pdp>>
             /\ audit' = [audit EXCEPT ![d].paid = audit[d].paid + amount,
                                       ![d].settledUpTo = SettlementReached(r, e)]
<1> DEFINE target   == TargetOf(r, e)
           outcomes == Outcomes(r, target)
<1>1. IInv /\ OrderInv /\ DataSetInv
  BY DEF WaitInv, OrderInv
<1>2. d # NoDataSet
  BY DEF DataSetIds, NoDataSet
<1>3. Live(d) /\ dataSetInfo[d].pdpRailId = r /\ PdpRail(d) = rails[r]
  BY <1>1, <1>2 DEF DataSetInv, LinkInv, RailsHaveDataSets, PdpRail
<1>4. rails[r].status = "active" /\ e <= blockNumber
  BY DEF SettleRail
<1>5. /\ rails[r] \in Rail /\ rails[r].payer \in Payers /\ blockNumber \in Nat
      /\ InOrder(rails[r], blockNumber) /\ RatesCharged(rails[r])
  BY <1>1, <1>4, BlockNumberType
     DEF OrderInv, RailsInOrder, IInv, TypeOK, PayersKnown, WaitInv, RateInv, RailsCharged
<1>6. target \in Nat /\ target <= e
  BY <1>1, <1>5, LockupLastSettledAtType, SettlementTargetType DEF TargetOf
<1>7. rails[r].endEpoch # NotEnded => target <= rails[r].endEpoch
  <2> DEFINE end == rails[r].endEpoch
  <2> SUFFICES ASSUME end # NotEnded PROVE target <= end
    OBVIOUS
  <2>1. target = Min({e, end})
    BY DEF TargetOf, SettlementTarget
  <2>2. end \in Int
    BY <1>5 DEF Rail
  <2> HIDE DEF end, target
  <2>3. Min({e, end}) <= end
    BY <2>2, MinOfTwo
  <2>4. QED BY <2>1, <2>3
<1>8. /\ CanSettle(rails[r], target, outcomes)
      /\ rails' = [rails EXCEPT ![r] = Settled(rails[r], target, outcomes)]
      /\ audit' = [audit EXCEPT ![d].paid = audit[d].paid + SettledAmount(rails[r], target, outcomes),
                                ![d].settledUpTo = SettlementReached(r, e)]
      /\ UNCHANGED <<blockNumber, service, schedule, registers, pdp>>
  BY <1>2 DEF SettleRail, SettlementReached
<1>9. PdpRail(d)' = Settled(rails[r], target, outcomes)
  <2>1. PdpRail(d)' = rails'[r]
    BY <1>3, <1>8 DEF PdpRail, registers
  <2>2. rails \in [RailIds -> Rail]
    BY <1>1 DEF IInv, TypeOK
  <2> HIDE DEF target, outcomes
  <2>3. QED BY <1>8, <2>1, <2>2
<1>10. target <= blockNumber
  <2> HIDE DEF target
  <2> QED BY <1>4, <1>5, <1>6
<1> HIDE DEF target, outcomes
<1>11. QED BY <1>3, <1>4, <1>5, <1>6, <1>7, <1>8, <1>9, <1>10 DEF target, outcomes, service, schedule

\* What a settlement pays is what it adds to the settled proofs.
LEMMA SettlementPays ==
  ASSUME PaymentInv, NEW r \in RailIds, NEW e \in Nat, SettleRail(r, e),
         NEW d \in DataSetIds, railToDataSet[r] = d
  PROVE  LET target == TargetOf(r, e)
             upTo   == SettlementReached(r, e)
             rateOf == audit[d].rateOf
         IN  /\ upTo \in Nat /\ rails[r].settledUpTo <= upTo /\ upTo <= blockNumber
             /\ SettledAmount(rails[r], target, Outcomes(r, target))
                  = SumOver(rateOf, ProvenWithin(provenPeriods[d], rails[r].settledUpTo, upTo,
                                                 provingActivationEpoch[d],
                                                 proving.maxProvingPeriod))
             /\ ProvenWithin(provenPeriods[d], rails[r].settledUpTo, upTo,
                             provingActivationEpoch[d], proving.maxProvingPeriod) \subseteq Epochs
<1> DEFINE rail     == rails[r]
           target   == TargetOf(r, e)
           outcomes == Outcomes(r, target)
           upTo     == SettlementReached(r, e)
           rateOf   == audit[d].rateOf
           proven   == provenPeriods[d]
           A        == provingActivationEpoch[d]
           M        == proving.maxProvingPeriod
           added    == ProvenWithin(proven, rail.settledUpTo, upTo, A, M)
<1>1. /\ Live(d) /\ PdpRail(d) = rail /\ rail.status = "active" /\ rail \in Rail
      /\ InOrder(rail, blockNumber) /\ RatesCharged(rail)
      /\ target \in Nat /\ target <= blockNumber
      /\ rail.endEpoch # NotEnded => target <= rail.endEpoch
      /\ CanSettle(rail, target, outcomes)
  BY SettlementEffect DEF PaymentInv
<1>2. /\ blockNumber \in Nat /\ proven \in SUBSET Nat /\ A \in Nat /\ M \in Nat \ {0}
      /\ blockNumber <= MaxEpoch /\ FirstEpoch \in Nat /\ MaxEpoch \in Nat
  BY BlockNumberType, Constants
     DEF PaymentInv, WaitInv, OrderInv, IInv, TypeOK, Epochs, ConstantsAssumption
<1>3. /\ RateRecorded(rail, rateOf, blockNumber) /\ FirstEpoch <= rail.settledUpTo
      /\ rail.settledUpTo \in Nat
      /\ rateOf \in [Epochs -> Nat]
  BY <1>1 DEF PaymentInv, DataSetPaid, PaidRail, AuditRecord, Rail
<1>4. \A x \in Nat : rail.settledUpTo < x /\ x <= blockNumber => x \in Epochs /\ rateOf[x] \in Nat
  BY <1>2, <1>3 DEF Epochs
<1>5. rail.rate = 0 => A = NeverActivated
  BY <1>1 DEF PaymentInv, WaitInv, RateInv, DataSetsCharged
<1>6. upTo = outcomes[LastSegment(rail, target, outcomes)].settleUpTo
  BY DEF SettlementReached
<1> SUFFICES /\ upTo \in Nat /\ rail.settledUpTo <= upTo /\ upTo <= target
             /\ SettledAmount(rail, target, outcomes) = SumOver(rateOf, added)
  <2>1. ASSUME upTo \in Nat, rail.settledUpTo <= upTo, upTo <= target
        PROVE  added \subseteq Epochs /\ upTo <= blockNumber
    <3> HIDE DEF upTo, target
    <3>1. upTo <= blockNumber
      BY <1>1, <1>2, <2>1
    <3>2. \A x \in added : x \in Nat /\ rail.settledUpTo < x /\ x <= upTo
      BY <1>3, <2>1, ProvenWithinType
    <3>3. \A x \in added : x <= blockNumber
      BY <1>2, <2>1, <3>1, <3>2
    <3>4. QED BY <1>4, <3>1, <3>2, <3>3
  <2>2. QED BY <2>1
<1>7. CASE rail.rate # 0
  <2>1. ASSUME NEW i \in Segments(rail, target)
        PROVE  outcomes[i] = ValidatePayment(proven, SegmentStart(rail, i),
                                             SegmentEnd(rail, target, i), SegmentRate(rail, i),
                                             A, M, blockNumber)
    <3>1. Len(rail.rateChangeQueue) \in Nat /\ rail.rate \in Nat
      BY <1>1, QueueType DEF Rail
    <3>2. i \in 1 .. Len(rail.rateChangeQueue) + 1
      BY DEF Segments
    <3>3. SegmentRate(rail, i) # 0
      <4> HIDE DEF rail
      <4> QED BY <1>1, <1>7, <3>1, <3>2 DEF SegmentRate, RatesCharged
    <3>4. d # NoDataSet
      BY DEF DataSetIds, NoDataSet
    <3>5. QED BY <3>3, <3>4 DEF Outcomes
  <2>2. \A x \in Nat : rail.settledUpTo < x /\ x <= blockNumber => rateOf[x] \in Nat
    BY <1>4
  <2> DEFINE reached == outcomes[LastSegment(rail, target, outcomes)].settleUpTo
  <2> HIDE DEF outcomes, target, rail, proven, A, M, rateOf
  <2>3. AnsweredByWarmStorage(rail, target, outcomes, proven, A, M, blockNumber)
    BY <2>1 DEF AnsweredByWarmStorage
  <2>4. /\ reached \in Nat /\ rail.settledUpTo <= reached /\ reached <= target
        /\ SettledAmount(rail, target, outcomes)
             = SumOver(rateOf, ProvenWithin(proven, rail.settledUpTo, reached, A, M))
    BY <1>1, <1>2, <1>3, <2>2, <2>3, SettlementPaysProvenEpochs
  <2> HIDE DEF upTo
  <2>5. QED BY <1>6, <2>4
<1>8. CASE rail.rate = 0
  <2>1. rail.rateChangeQueue = << >> /\ rail.settledUpTo < target /\ Len(rail.rateChangeQueue) = 0
    BY <1>1, <1>8 DEF RatesCharged, CanSettle
  <2>2. /\ SegmentStart(rail, 1) = rail.settledUpTo /\ SegmentEnd(rail, target, 1) = target
        /\ SegmentRate(rail, 1) = 0 /\ Segments(rail, target) = {1}
    <3> HIDE DEF rail, target
    <3>1. /\ SegmentStart(rail, 1) = rail.settledUpTo /\ SegmentEnd(rail, target, 1) = target
          /\ SegmentRate(rail, 1) = 0
      BY <1>8, <2>1 DEF SegmentStart, SegmentEnd, SegmentRate
    <3>2. \A i \in 1 .. Len(rail.rateChangeQueue) + 1 : i = 1
      BY <2>1
    <3>3. 1 \in 1 .. Len(rail.rateChangeQueue) + 1
      BY <2>1
    <3>4. QED BY <2>1, <3>1, <3>2, <3>3 DEF Segments
  <2>3. outcomes[1] = UnvalidatedOutcome(rail, target, 1)
    BY <2>2 DEF Outcomes
  <2>4. outcomes[1].modifiedAmount = 0 /\ outcomes[1].settleUpTo = target
    <3> HIDE DEF outcomes
    <3>1. outcomes[1].modifiedAmount = 0 * (target - rail.settledUpTo) /\ outcomes[1].settleUpTo = target
      BY <2>2, <2>3 DEF UnvalidatedOutcome
    <3>2. target - rail.settledUpTo \in Int
      BY <1>1, <1>3
    <3>3. QED BY <3>1, <3>2
  <2>5. LastSegment(rail, target, outcomes) = 1
    <3> HIDE DEF rail, target, outcomes
    <3>1. LastSegment(rail, target, outcomes) \in Segments(rail, target)
      BY <1>1, <2>1, LastSegmentExists
    <3>2. QED BY <2>2, <3>1
  <2>6. upTo = target
    BY <1>6, <2>4, <2>5
  <2>7. SettledAmount(rail, target, outcomes) = 0
    <3> DEFINE amounts == [i \in {1} |-> outcomes[i].modifiedAmount]
    <3>1. 1 .. 1 = {1} /\ IsFiniteSet({1})
      <4>1. IsFiniteSet({1})
        BY FS_Singleton
      <4>2. QED BY <4>1
    <3>2. SettledAmount(rail, target, outcomes)
            = MapThenSumSet(LAMBDA i : outcomes[i].modifiedAmount, {1})
      BY <2>5, <3>1 DEF SettledAmount
    <3>3. SettledAmount(rail, target, outcomes) = SumOver(amounts, {1})
      BY <3>1, <3>2, AmountIsSum
    <3>4. amounts[1] = 0
      BY <2>4
    <3> HIDE DEF amounts
    <3>5. Cardinality({1}) = 1 /\ SumOver(amounts, {1}) = 0 * Cardinality({1})
      BY <3>1, <3>4, SumOfConstant, FS_Singleton
    <3>6. QED BY <3>3, <3>5
  <2>8. added = {}
    <3>1. \A x : ProvingPeriodForEpoch(A, x, M) \notin proven
      BY <1>2, <1>5, <1>8 DEF ProvingPeriodForEpoch, NoPeriod
    <3> HIDE DEF proven, A, M
    <3>2. QED BY <3>1 DEF ProvenWithin
  <2>9. SumOver(rateOf, {}) = 0
    BY SumOfNothing
  <2> HIDE DEF upTo, target, added, outcomes
  <2>10. rail.settledUpTo <= target
    BY <1>1, <1>3, <2>1
  <2>11. QED BY <1>1, <2>6, <2>7, <2>8, <2>9, <2>10
<1>9. QED BY <1>7, <1>8

\* A settlement keeps what is paid exact.
LEMMA SettlementPaid ==
  ASSUME PaymentInv, NEW r \in RailIds, NEW e \in Nat, SettleRail(r, e),
         NEW d \in DataSetIds, railToDataSet[r] = d
  PROVE  audit' \in [DataSetIds -> AuditRecord] /\ DataSetPaid(d)'
<1> DEFINE rail     == rails[r]
           target   == TargetOf(r, e)
           outcomes == Outcomes(r, target)
           amount   == SettledAmount(rail, target, outcomes)
           upTo     == SettlementReached(r, e)
           rateOf   == audit[d].rateOf
           proven   == provenPeriods[d]
           A        == provingActivationEpoch[d]
           M        == proving.maxProvingPeriod
           added    == ProvenWithin(proven, rail.settledUpTo, upTo, A, M)
<1>1. /\ Live(d) /\ dataSetInfo[d].pdpRailId = r /\ PdpRail(d) = rail
      /\ rail.status = "active" /\ rail \in Rail
      /\ InOrder(rail, blockNumber)
      /\ target \in Nat /\ CanSettle(rail, target, outcomes)
      /\ PdpRail(d)' = Settled(rail, target, outcomes)
      /\ UNCHANGED <<blockNumber, proving, provenPeriods, provingActivationEpoch, pdp>>
      /\ audit' = [audit EXCEPT ![d].paid = audit[d].paid + amount, ![d].settledUpTo = upTo]
  BY SettlementEffect DEF PaymentInv
<1>2. /\ upTo \in Nat /\ rail.settledUpTo <= upTo /\ upTo <= blockNumber
      /\ amount = SumOver(rateOf, added) /\ added \subseteq Epochs
  BY SettlementPays
<1>3. /\ WaitInv /\ OrderInv /\ IInv /\ DataSetPaid(d) /\ audit[d] \in AuditRecord
      /\ audit \in [DataSetIds -> AuditRecord]
      /\ blockNumber \in Nat /\ rail.settledUpTo \in Nat /\ Epochs \subseteq Nat
  <2>1. /\ WaitInv /\ OrderInv /\ IInv /\ DataSetPaid(d)
        /\ audit \in [DataSetIds -> AuditRecord]
    BY DEF PaymentInv, WaitInv, OrderInv
  <2>2. rail.settledUpTo \in Nat
    BY <1>1 DEF Rail
  <2>3. Epochs \subseteq Nat
    BY Constants DEF Epochs, ConstantsAssumption
  <2>4. QED BY <2>1, <2>2, <2>3, BlockNumberType
<1> HIDE DEF target, outcomes, amount, upTo, rail
<1>4. /\ audit'[d] = [audit[d] EXCEPT !.paid = audit[d].paid + amount, !.settledUpTo = upTo]
      /\ \A i \in DataSetIds : i # d => audit'[i] = audit[i]
  BY <1>1, <1>3
<1>5. /\ audit'[d].covered = audit[d].covered /\ audit'[d].rateOf = rateOf
      /\ audit'[d].paid = audit[d].paid + amount /\ audit'[d].settledUpTo = upTo
      /\ audit'[d].activations = audit[d].activations /\ audit'[d].waived = audit[d].waived
  BY <1>3, <1>4 DEF AuditRecord
<1>6. IsFiniteSet(added) /\ \A x \in added : x \in Nat /\ rail.settledUpTo < x /\ x <= upTo
  BY <1>2, <1>3, ProvenWithinType
<1>7. \A x \in added : rateOf[x] \in Nat
  BY <1>2, <1>3 DEF AuditRecord
<1>8. amount \in Nat
  <2> HIDE DEF added, rateOf
  <2> QED BY <1>2, <1>6, <1>7, SumIsNatural
<1>9. audit' \in [DataSetIds -> AuditRecord]
  <2>1. audit'[d] \in AuditRecord
    <3>1. audit[d].paid + amount \in Nat
      BY <1>3, <1>8 DEF AuditRecord
    <3>2. QED BY <1>2, <1>3, <1>4, <3>1 DEF AuditRecord
  <2>2. DOMAIN audit' = DataSetIds /\ audit' = [i \in DataSetIds |-> audit'[i]]
    BY <1>1, <1>3
  <2>3. \A i \in DataSetIds : audit'[i] \in AuditRecord
    BY <1>3, <1>4, <2>1
  <2>4. QED BY <2>2, <2>3, Zenon
<1>10. PaidRail(d)' => /\ RateRecorded(PdpRail(d), audit[d].rateOf, blockNumber)'
                       /\ (FirstEpoch <= PdpRail(d).settledUpTo)'
                       /\ PdpRail(d)'.settledUpTo = upTo
  <2> SUFFICES ASSUME PaidRail(d)'
               PROVE  /\ RateRecorded(PdpRail(d), audit[d].rateOf, blockNumber)'
                      /\ (FirstEpoch <= PdpRail(d).settledUpTo)'
                      /\ PdpRail(d)'.settledUpTo = upTo
    OBVIOUS
  <2>1. Settled(rail, target, outcomes).status = "active"
    BY <1>1 DEF PaidRail
  <2>2. RateRecorded(rail, rateOf, blockNumber) /\ FirstEpoch <= rail.settledUpTo
    BY <1>1, <1>3 DEF DataSetPaid, PaidRail
  <2>3. RateRecorded(PdpRail(d)', rateOf, blockNumber)
    BY <1>1, <1>3, <2>1, <2>2, SettledRecorded
  <2>4. PdpRail(d)'.settledUpTo = upTo
    BY <1>1, <1>3, <2>1, SettledQueue DEF SettlementReached, upTo, rail, target, outcomes
  <2>5. FirstEpoch <= upTo
    BY <1>2, <1>3, <2>2, Constants DEF ConstantsAssumption
  <2> HIDE DEF rateOf
  <2>6. QED BY <1>1, <1>5, <2>3, <2>4, <2>5 DEF RateRecorded
<1>11. ASSUME Arbitrated(d)
       PROVE  /\ audit'[d].paid = SumOver(rateOf, SettledProofs(d)')
              /\ audit'[d].covered = MarkedEpochs(d)'
              /\ PaidRail(d)' => SettlementRecorded(d, PdpRail(d))'
              /\ A # NeverActivated => ProofsComeBeforePayment(d)'
  <2>1. /\ audit[d].paid = SumOver(rateOf, SettledProofs(d))
        /\ audit[d].covered = MarkedEpochs(d)
        /\ SettlementRecorded(d, rail)
        /\ A # NeverActivated => ProofsComeBeforePayment(d)
    BY <1>1, <1>3, <1>11 DEF DataSetPaid, PaidRail, Live
  <2>2. MarkedEpochs(d)' = MarkedEpochs(d)
    BY <1>1 DEF MarkedEpochs
  <2>3. PaidRail(d)' => SettlementRecorded(d, PdpRail(d))'
    <3> SUFFICES ASSUME PaidRail(d)' PROVE SettlementRecorded(d, PdpRail(d))'
      OBVIOUS
    <3>1. PdpRail(d)'.settledUpTo = audit'[d].settledUpTo
      BY <1>5, <1>10
    <3>2. audit'[d].settledUpTo \in Nat
      BY <1>2, <1>5
    <3>3. QED BY <3>1, <3>2 DEF SettlementRecorded
  <2>4. /\ SettledProofs(d)' = SettledProofs(d) \cup added /\ SettledProofs(d) \cap added = {}
        /\ SettledProofs(d) \subseteq Epochs
    <3> DEFINE covered == audit[d].covered
               before  == audit[d].settledUpTo
    <3>1. /\ SettledProofs(d) = {x \in covered : x <= before}
          /\ SettledProofs(d)' = {x \in covered : x <= upTo}
      BY <1>5 DEF SettledProofs
    <3>2. covered = MarkedEpochs(d) /\ covered \subseteq Nat /\ before \in Nat
      BY <1>3, <2>1 DEF AuditRecord
    <3>3. before <= rail.settledUpTo /\ \A x \in covered : x <= rail.settledUpTo => x <= before
      BY <2>1 DEF SettlementRecorded
    <3>4. added \subseteq covered
      <4> HIDE DEF covered
      <4> QED BY <1>2, <3>2 DEF MarkedEpochs, ProvenWithin
    <3>5. \A x \in covered : rail.settledUpTo < x /\ x <= upTo => x \in added
      <4> HIDE DEF covered
      <4>1. \A x \in covered : /\ x \in Nat
                               /\ ProvingPeriodForEpoch(A, x, M) \in proven
        BY <3>2 DEF MarkedEpochs
      <4>2. \A x \in Nat : rail.settledUpTo < x /\ x <= upTo => x \in rail.settledUpTo + 1 .. upTo
        BY <1>2, <1>3
      <4>3. QED BY <4>1, <4>2 DEF ProvenWithin
    <3> HIDE DEF covered, before, added
    <3>6. /\ {x \in covered : x <= upTo} = {x \in covered : x <= before} \cup added
          /\ {x \in covered : x <= before} \cap added = {}
      <4>1. ASSUME NEW x \in covered
            PROVE  /\ x <= upTo <=> x <= before \/ x \in added
                   /\ ~(x <= before /\ x \in added)
        <5>1. x \in Nat
          BY <3>2
        <5>2. x \in added => rail.settledUpTo < x /\ x <= upTo
          BY <1>6
        <5>3. x <= rail.settledUpTo => x <= before
          BY <3>3
        <5>4. rail.settledUpTo < x /\ x <= upTo => x \in added
          BY <3>5
        <5>5. QED BY <1>2, <1>3, <3>2, <3>3, <5>1, <5>2, <5>3, <5>4
      <4>2. QED BY <3>4, <4>1
    <3>7. SettledProofs(d) \subseteq Epochs
      BY <3>1, <3>2 DEF MarkedEpochs
    <3>8. QED BY <3>1, <3>6, <3>7
  <2>5. SumOver(rateOf, SettledProofs(d)') = SumOver(rateOf, SettledProofs(d)) + SumOver(rateOf, added)
    <3> DEFINE old == SettledProofs(d)
    <3>1. \A x \in old \cup added : rateOf[x] \in Nat
      BY <1>3, <1>7, <2>4 DEF AuditRecord
    <3>2. IsFiniteSet(old)
      <4>1. IsFiniteSet(Epochs)
        BY FS_Interval, Constants DEF Epochs, ConstantsAssumption
      <4>2. QED BY <2>4, <4>1, FS_Subset
    <3> HIDE DEF old, added, rateOf
    <3>3. SumOver(rateOf, old \cup added) = SumOver(rateOf, old) + SumOver(rateOf, added)
      BY <1>6, <2>4, <3>1, <3>2, SumOfUnion DEF old
    <3>4. QED BY <2>4, <3>3 DEF old
  <2>6. audit'[d].paid = SumOver(rateOf, SettledProofs(d)')
    <3> HIDE DEF rateOf, added
    <3> QED BY <1>2, <1>5, <2>1, <2>5
  <2>7. A # NeverActivated => ProofsComeBeforePayment(d)'
    <3> SUFFICES ASSUME A # NeverActivated, NEW p \in Nat, p \notin proven,
                        blockNumber <= CalcPeriodDeadline(A, p, M)
                 PROVE  upTo <= CalcPeriodDeadline(A, p, M) - M
      BY <1>1, <1>5 DEF ProofsComeBeforePayment
    <3>1. rail.rate > 0
      BY <1>1, <1>3 DEF WaitInv, RateInv, DataSetsCharged
    <3>2. RatesCharged(rail) /\ rail.settledUpTo <= CalcPeriodDeadline(A, p, M) - M
      BY <1>1, <1>3 DEF WaitInv, RateInv, RailsCharged, OpenPeriodsWait, OpenPeriodWaits, rail
    <3>3. QED BY <1>3, <3>1, <3>2, SettlementStopsBefore DEF rail, upTo
  <2>8. QED BY <1>5, <2>1, <2>2, <2>3, <2>6, <2>7
<1>12. DataSetPaid(d)'
  <2>1. audit'[d].activations = 0 => provingActivationEpoch'[d] = NeverActivated
    BY <1>1, <1>3, <1>5 DEF DataSetPaid
  <2>2. Arbitrated(d)' = Arbitrated(d) /\ (audit[d].settledUpTo <= blockNumber)'
    BY <1>1, <1>2, <1>5 DEF Arbitrated
  <2>3. audit'[d].paid = SumOver(audit'[d].rateOf, SettledProofs(d)')
          <=> audit'[d].paid = SumOver(rateOf, SettledProofs(d)')
    BY <1>5
  <2> HIDE DEF rateOf
  <2>4. QED BY <1>1, <1>10, <1>11, <2>1, <2>2, <2>3 DEF DataSetPaid
<1>13. QED BY <1>9, <1>12

-----------------------------------------------------------------------------
(* The steps that keep a record.                                           *)

\* A rail that a step leaves alone.
LEMMA UntouchedRailCarriedOver ==
  ASSUME WaitInv, NEW d \in DataSetIds, Live(d)' => Live(d),
         PaidRail(d)' => PdpRail(d)' = PdpRail(d)
  PROVE  RailCarriedOver(d)
<1> SUFFICES ASSUME PaidRail(d)' PROVE RailCarriedOver(d)
  BY DEF RailCarriedOver
<1>1. Live(d) /\ PdpRail(d)' = PdpRail(d) /\ PdpRail(d).status = "active"
  BY DEF PaidRail
<1>2. PdpRail(d) = rails[dataSetInfo[d].pdpRailId] /\ dataSetInfo[d].pdpRailId \in RailIds
  BY <1>1 DEF PdpRail, WaitInv, DataSetInv, LinkInv, DataSetsHaveRails
<1>3. PdpRail(d) \in Rail /\ InOrder(PdpRail(d), blockNumber) /\ RatesCharged(PdpRail(d))
  BY <1>1, <1>2 DEF WaitInv, OrderInv, RailsInOrder, IInv, TypeOK, RateInv, RailsCharged
<1>4. QED BY <1>1, <1>3 DEF RailCarriedOver, PaidRail

\* The record of a data set whose status and whose schedule a step leaves alone.
LEMMA UntouchedRecord ==
  ASSUME NEW d \in DataSetIds, audit'[d] = audit[d], pdp'[d].status = pdp[d].status,
         provenPeriods'[d] = provenPeriods[d],
         provingActivationEpoch'[d] = provingActivationEpoch[d]
  PROVE  RecordKept(d)
BY DEF RecordKept

\* Neither a proof, a start of proving, a settlement, nor the passing of an epoch.
Quiet ==
  /\ \A i \in DataSetIds : /\ ~PossessionProven(i)
                           /\ ~SettleTerminatedRailWithoutValidation(i)
                           /\ \A c \in ChallengeEpochs : ~StartProving(i, c)
  /\ \A r \in RailIds, e \in Epochs : ~SettleRail(r, e)
  /\ ~NewEpoch

\* The history and the time stand still.
LEMMA QuietLeavesHistory ==
  ASSUME [Next]_vars, Quiet
  PROVE  UNCHANGED <<blockNumber, audit>>
<1>1. CASE PDPVerifierStep
  <2>1. \A p \in Payers, n \in Nonces, cdn \in CdnOptions :
            DataSetCreated(p, n, cdn) => UNCHANGED <<blockNumber, audit>>
    BY DEF DataSetCreated
  <2>2. \A i \in DataSetIds : DataSetDeleted(i) => UNCHANGED <<blockNumber, audit>>
    BY DEF DataSetDeleted
  <2>3. \A i \in DataSetIds, count \in 1..MaxPieces, n \in Nonces :
            PiecesAdded(i, count, n) => UNCHANGED <<blockNumber, audit>>
    BY DEF PiecesAdded
  <2>4. \A i \in DataSetIds, chosen \in (SUBSET RemovablePieces) \ {{}} :
            PiecesScheduledRemove(i, chosen) => UNCHANGED <<blockNumber, audit>>
    BY DEF PiecesScheduledRemove
  <2>5. \A i \in DataSetIds, c \in ChallengeEpochs :
            AdvanceProvingPeriod(i, c) => UNCHANGED <<blockNumber, audit>>
    BY DEF AdvanceProvingPeriod
  <2>6. \A i \in DataSetIds : NextProvingPeriod(i) => UNCHANGED <<blockNumber, audit>>
    BY <2>5 DEF NextProvingPeriod, Quiet
  <2>7. \A i \in DataSetIds : ~PossessionProven(i)
    BY DEF Quiet
  <2>8. QED BY <1>1, <2>1, <2>2, <2>3, <2>4, <2>6, <2>7 DEF PDPVerifierStep
<1>2. CASE ServiceStep
  BY ZenonT(60), <1>2 DEF ServiceStep, TerminateService, TerminateCDNService, SettleFilBeamPaymentRails,
              TopUpCDNPaymentRails, UpdatePricing, ConfigureProvingPeriod
<1>3. CASE FilecoinPayStep
  BY <1>3 DEF FilecoinPayStep, PayerTerminatesRail, RunDry, Deposit, Quiet
<1>4. CASE UNCHANGED vars
  BY <1>4 DEF vars
<1>5. QED BY <1>1, <1>2, <1>3, <1>4 DEF Next, Quiet

LEMMA PDPVerifierKeepsRecords ==
  ASSUME IInv, DataSetInv, NEW d \in DataSetIds, PDPVerifierStep, Quiet
  PROVE  RecordKept(d)
<1>0. /\ pdp \in [DataSetIds -> VerifierDataSet]
      /\ provingActivationEpoch \in [DataSetIds -> Nat]
  BY DEF IInv, TypeOK
<1>1. ASSUME NEW p \in Payers, NEW n \in Nonces, NEW cdn \in CdnOptions, DataSetCreated(p, n, cdn)
      PROVE  RecordKept(d)
  <2>1. UNCHANGED <<audit, provingActivationEpoch, provenPeriods>>
    BY <1>1 DEF DataSetCreated, schedule
  <2>2. pdp' = [pdp EXCEPT ![nextIds.dataSet].status = "live"]
    BY <1>1 DEF DataSetCreated
  <2>3. pdp[d].status = "deleted" => pdp'[d].status = "deleted"
    <3>1. CASE d = nextIds.dataSet
      <4>1. FreshIds /\ nextIds.dataSet \in Nat
        BY DEF DataSetInv, LinkInv, IInv, TypeOK
      <4>2. QED BY <3>1, <4>1 DEF FreshIds
    <3>2. CASE d # nextIds.dataSet
      BY <1>0, <2>2, <3>2
    <3>3. QED BY <3>1, <3>2
  <2>4. QED BY <2>1, <2>3 DEF RecordKept
<1>2. ASSUME NEW i \in DataSetIds, DataSetDeleted(i)
      PROVE  RecordKept(d)
  <2>1. /\ UNCHANGED <<audit, provenPeriods>>
        /\ provingActivationEpoch' = [provingActivationEpoch EXCEPT ![i] = NeverActivated]
        /\ pdp' = [pdp EXCEPT ![i].status = "deleted", ![i].pieces = {},
                              ![i].challengeEpoch = NoChallengeScheduled]
    BY <1>2 DEF DataSetDeleted
  <2>2. CASE d = i
    BY <1>0, <2>1, <2>2 DEF RecordKept, VerifierDataSet
  <2>3. CASE d # i
    BY <1>0, <2>1, <2>3, UntouchedRecord
  <2>4. QED BY <2>1, <2>2, <2>3
<1>3. ASSUME NEW i \in DataSetIds, NEW count \in 1 .. MaxPieces, NEW n \in Nonces,
             PiecesAdded(i, count, n)
      PROVE  RecordKept(d)
  <2>1. UNCHANGED <<audit, provingActivationEpoch, provenPeriods>>
    BY <1>3 DEF PiecesAdded, schedule
  <2>2. pdp'[d].status = pdp[d].status
    BY <1>0, <1>3 DEF PiecesAdded, VerifierDataSet
  <2>3. QED BY <2>1, <2>2, UntouchedRecord
<1>4. ASSUME NEW i \in DataSetIds, NEW s \in SUBSET RemovablePieces, PiecesScheduledRemove(i, s)
      PROVE  RecordKept(d)
  <2>1. UNCHANGED <<audit, provingActivationEpoch, provenPeriods>>
    BY <1>4 DEF PiecesScheduledRemove, schedule
  <2>2. pdp'[d].status = pdp[d].status
    BY <1>0, <1>4 DEF PiecesScheduledRemove, VerifierDataSet
  <2>3. QED BY <2>1, <2>2, UntouchedRecord
<1>5. ASSUME NEW i \in DataSetIds, NEW c \in ChallengeEpochs, AdvanceProvingPeriod(i, c)
      PROVE  RecordKept(d)
  <2>1. UNCHANGED <<audit, provingActivationEpoch, provenPeriods>>
    BY <1>5 DEF AdvanceProvingPeriod
  <2>2. pdp'[d].status = pdp[d].status
    BY <1>0, <1>5 DEF AdvanceProvingPeriod, ProvingSetUpdated, VerifierDataSet
  <2>3. QED BY <2>1, <2>2, UntouchedRecord
<1>6. QED BY <1>1, <1>2, <1>3, <1>4, <1>5 DEF PDPVerifierStep, Quiet, NextProvingPeriod

LEMMA OtherStepsKeepRecords ==
  ASSUME IInv, DataSetInv, NEW d \in DataSetIds, [Next]_vars, Quiet
  PROVE  RecordKept(d)
<1>1. CASE PDPVerifierStep
  BY <1>1, PDPVerifierKeepsRecords
<1> SUFFICES ASSUME ~PDPVerifierStep
             PROVE  UNCHANGED <<pdp, schedule, audit>>
  BY <1>1, UntouchedRecord DEF schedule
<1>2. CASE ServiceStep
  <2>1. ASSUME NEW i, NEW a, NEW b,
               \/ TerminateService(i) \/ TerminateCDNService(i)
               \/ SettleFilBeamPaymentRails(i, a, b) \/ TopUpCDNPaymentRails(i, a, b)
        PROVE  UNCHANGED <<pdp, schedule, audit>>
    BY <2>1 DEF TerminateService, TerminateCDNService, SettleFilBeamPaymentRails,
                TopUpCDNPaymentRails
  <2>2. ASSUME NEW x, NEW y, UpdatePricing(x, y) \/ ConfigureProvingPeriod(x)
        PROVE  UNCHANGED <<pdp, schedule, audit>>
    BY <2>2 DEF UpdatePricing, ConfigureProvingPeriod, external
  <2>3. QED BY <1>2, <2>1, <2>2 DEF ServiceStep
<1>3. CASE FilecoinPayStep
  BY <1>3 DEF FilecoinPayStep, PayerTerminatesRail, RunDry, Deposit, Quiet
<1>4. CASE UNCHANGED vars
  BY <1>4 DEF vars, external
<1>5. QED BY <1>2, <1>3, <1>4 DEF Next, Quiet

\* Such a step keeps what is paid exact.
LEMMA QuietStepPaid ==
  ASSUME OnePeriodLength, PaymentInv, WaitInv', [Next]_vars, Quiet
  PROVE  audit' \in [DataSetIds -> AuditRecord] /\ \A d \in DataSetIds : DataSetPaid(d)'
<1>1. IInv /\ DataSetInv /\ WaitInv
  BY DEF PaymentInv, WaitInv, OrderInv
<1>2. UNCHANGED proving.maxProvingPeriod
  BY <1>1 DEF WaitInv, GridInv
<1>3. ASSUME NEW d \in DataSetIds PROVE DataSetPaid(d)'
  <2>1. RecordKept(d) /\ UNCHANGED blockNumber
    BY <1>1, OtherStepsKeepRecords, QuietLeavesHistory
  <2>2. \A e \in Epochs : ~(Live(d) /\ SettleRail(dataSetInfo[d].pdpRailId, e))
    BY <1>1 DEF Quiet, DataSetInv, LinkInv, DataSetsHaveRails
  <2>3. RailCarriedOver(d)
    BY <1>1, <2>2, RailsCarriedOver
  <2>4. QED BY <1>2, <2>1, <2>3, RecordKeptPaid
<1>4. QED BY <1>3, QuietLeavesHistory DEF PaymentInv

-----------------------------------------------------------------------------
(* A proof.                                                                *)

\* possessionProven covers the epochs of the period that it marks, and no settlement has
\* passed them if the mark is new.
LEMMA ProofCovers ==
  ASSUME PaymentInv, NEW d \in DataSetIds, PossessionProven(d), Arbitrated(d)
  PROVE  LET new == EpochsOfCurrentPeriod(d) \cap Epochs
         IN  /\ MarkedEpochs(d)' = MarkedEpochs(d) \cup new
             /\ \A e \in new \ MarkedEpochs(d) :
                  /\ ~(e <= audit[d].settledUpTo)
                  /\ PdpRail(d).status = "active" => ~(e <= PdpRail(d).settledUpTo)
<1> DEFINE A == provingActivationEpoch[d]
           M == proving.maxProvingPeriod
           D == provingDeadlines[d]
           new == EpochsOfCurrentPeriod(d) \cap Epochs
<1>1. GridInv /\ IInv /\ DataSetPaid(d) /\ WaitInv /\ audit[d] \in AuditRecord
  BY DEF PaymentInv, WaitInv, OrderInv
<1>2. /\ Live(d) /\ D # NoProvingDeadline /\ blockNumber <= D
      /\ UNCHANGED <<proving, provingActivationEpoch>>
  BY DEF PossessionProven, service
<1>3. A \in Nat \ {0} /\ M \in Nat \ {0} /\ D \in Nat
  BY <1>1, <1>2 DEF IInv, TypeOK, ActivationComesFirst, NeverActivated
<1>4. PICK n \in Nat : DeadlineOfPeriod(d, n)
                       /\ ProvingPeriodForEpoch(A, blockNumber, M) = n
  BY <1>1, ProofInPeriod
<1>5. D = CalcPeriodDeadline(A, n, M)
  BY <1>4 DEF DeadlineOfPeriod
<1>6. provenPeriods'[d] = provenPeriods[d] \cup {n}
  BY <1>1, <1>4 DEF PossessionProven, IInv, TypeOK
<1>7. NoPeriod # n
  BY DEF NoPeriod
<1>8. ASSUME NEW e \in Epochs
      PROVE  ProvingPeriodForEpoch(A, e, M) = n <=> e \in D - M + 1 .. D
  <2>1. e \in Nat
    BY EpochsAreNaturals
  <2>2. CASE e <= A
    <3>1. ProvingPeriodForEpoch(A, e, M) # n
      BY <1>7, <2>2 DEF ProvingPeriodForEpoch
    <3>2. D - M >= A /\ D - M \in Nat
      BY <1>3, <1>5, DeadlineType
    <3> HIDE DEF A, D, M
    <3>3. QED BY <1>3, <2>1, <2>2, <3>1, <3>2
  <2>3. CASE ~(e <= A)
    <3>1. A < e
      BY <1>3, <2>1, <2>3
    <3>2. ProvingPeriodForEpoch(A, e, M) = n => D - M < e /\ e <= D
      BY <1>3, <1>5, <2>1, <3>1, EpochInPeriod
    <3>3. D - M < e /\ e <= D => ProvingPeriodForEpoch(A, e, M) = n
      BY <1>3, <1>5, <2>1, EpochBelongsToPeriod DEF NeverActivated
    <3> HIDE DEF A, D, M
    <3>4. QED BY <1>3, <2>1, <3>2, <3>3
  <2>4. QED BY <2>2, <2>3
<1>9. new = {e \in Epochs : ProvingPeriodForEpoch(A, e, M) = n}
  <2> HIDE DEF A
  <2> QED BY <1>8 DEF EpochsOfCurrentPeriod
<1>10. MarkedEpochs(d)' = MarkedEpochs(d) \cup new
  <2>1. MarkedEpochs(d)' = {e \in Epochs : ProvingPeriodForEpoch(A, e, M) \in provenPeriods[d] \cup {n}}
    BY <1>2, <1>6 DEF MarkedEpochs
  <2>2. MarkedEpochs(d) = {e \in Epochs : ProvingPeriodForEpoch(A, e, M) \in provenPeriods[d]}
    BY DEF MarkedEpochs
  <2> HIDE DEF A, M, new
  <2>3. QED BY <1>9, <2>1, <2>2
<1>11. ASSUME NEW e \in new \ MarkedEpochs(d)
       PROVE  /\ ~(e <= audit[d].settledUpTo)
              /\ PdpRail(d).status = "active" => ~(e <= PdpRail(d).settledUpTo)
  <2>1. e \in Nat /\ D - M < e /\ n \notin provenPeriods[d]
    <3>1. e \in Epochs /\ ProvingPeriodForEpoch(A, e, M) = n /\ e \in D - M + 1 .. D
      <4> HIDE DEF A, M, D, new
      <4> QED BY <1>8, <1>9, <1>11
    <3>2. n \notin provenPeriods[d]
      BY <1>11, <3>1 DEF MarkedEpochs
    <3>3. e \in Nat
      BY <3>1, EpochsAreNaturals
    <3> HIDE DEF A, M, D, new
    <3>4. QED BY <1>3, <3>1, <3>2, <3>3
  <2>2. audit[d].settledUpTo <= D - M /\ audit[d].settledUpTo \in Nat
    <3>1. ProofsComeBeforePayment(d)
      BY <1>1, <1>2, <1>3 DEF DataSetPaid, NeverActivated
    <3>2. QED BY <1>1, <1>2, <1>5, <2>1, <3>1 DEF ProofsComeBeforePayment, AuditRecord
  <2>3. PdpRail(d).status = "active" => PdpRail(d).settledUpTo <= D - M
    BY <1>1, <1>2, <1>3, <1>5, <2>1 DEF WaitInv, OpenPeriodsWait, OpenPeriodWaits, NeverActivated
  <2>4. PdpRail(d).settledUpTo \in Nat
    BY <1>1, <1>2 DEF PdpRail, WaitInv, DataSetInv, LinkInv, DataSetsHaveRails, IInv, TypeOK, Rail
  <2> HIDE DEF D, M
  <2>5. QED BY <1>3, <2>1, <2>2, <2>3, <2>4
<1>12. QED BY <1>10, <1>11

\* The data set that is proven.
LEMMA ProofPaid ==
  ASSUME PaymentInv, NEW d \in DataSetIds, PossessionProven(d)
  PROVE  audit'[d] \in AuditRecord /\ DataSetPaid(d)'
<1> DEFINE new == EpochsOfCurrentPeriod(d) \cap Epochs
           old == MarkedEpochs(d)
<1>1. /\ audit' = [audit EXCEPT ![d].covered = audit[d].covered \cup new]
      /\ UNCHANGED <<blockNumber, proving, provingActivationEpoch, pdp, dataSetInfo, rails>>
      /\ Live(d)
  BY DEF PossessionProven, service, registers, external
<1>2. audit \in [DataSetIds -> AuditRecord] /\ audit[d] \in AuditRecord /\ DataSetPaid(d) /\ IInv
  BY DEF PaymentInv, WaitInv, OrderInv
<1>3. provenPeriods[d] \subseteq provenPeriods'[d]
  BY <1>2 DEF PossessionProven, IInv, TypeOK
<1> HIDE DEF new
<1>4. audit'[d] = [audit[d] EXCEPT !.covered = audit[d].covered \cup new]
  BY <1>1, <1>2
<1>5. /\ audit'[d].covered = audit[d].covered \cup new
      /\ audit'[d].rateOf = audit[d].rateOf
      /\ audit'[d].paid = audit[d].paid /\ audit'[d].settledUpTo = audit[d].settledUpTo
      /\ audit'[d].activations = audit[d].activations /\ audit'[d].waived = audit[d].waived
  BY <1>2, <1>4 DEF AuditRecord
<1>6. audit'[d] \in AuditRecord
  <2>1. audit[d].covered \cup new \in SUBSET Epochs
    BY <1>2 DEF AuditRecord, new
  <2>2. QED BY <1>2, <1>4, <2>1 DEF AuditRecord
<1>7. PdpRail(d)' = PdpRail(d) /\ PaidRail(d)' = PaidRail(d) /\ Live(d)' = Live(d)
      /\ Arbitrated(d)' = Arbitrated(d)
  BY <1>1, <1>5 DEF PdpRail, PaidRail, Live, Arbitrated
<1>8. ASSUME Arbitrated(d)
      PROVE  /\ SettledProofs(d)' = SettledProofs(d)
             /\ audit'[d].covered = MarkedEpochs(d)'
             /\ PaidRail(d) => SettlementRecorded(d, PdpRail(d))'
             /\ provingActivationEpoch[d] # NeverActivated => ProofsComeBeforePayment(d)'
  <2>1. /\ MarkedEpochs(d)' = old \cup new
        /\ \A e \in new \ old : /\ ~(e <= audit[d].settledUpTo)
                                /\ PdpRail(d).status = "active" => ~(e <= PdpRail(d).settledUpTo)
    BY <1>8, ProofCovers DEF new
  <2>2. audit[d].covered = old /\ (PaidRail(d) => SettlementRecorded(d, PdpRail(d)))
    BY <1>1, <1>2, <1>8 DEF DataSetPaid, Live
  <2>3. provingActivationEpoch[d] # NeverActivated => ProofsComeBeforePayment(d)
    BY <1>1, <1>2, <1>8 DEF DataSetPaid
  <2> HIDE DEF old
  <2>4. SettledProofs(d)' = SettledProofs(d)
    BY <1>5, <2>1, <2>2 DEF SettledProofs
  <2>5. PaidRail(d) => SettlementRecorded(d, PdpRail(d))'
    BY <1>5, <1>7, <2>1, <2>2 DEF SettlementRecorded, PaidRail
  <2>6. provingActivationEpoch[d] # NeverActivated => ProofsComeBeforePayment(d)'
    BY <1>1, <1>3, <1>5, <2>3 DEF ProofsComeBeforePayment
  <2>7. QED BY <1>5, <2>1, <2>2, <2>4, <2>5, <2>6
<1>9. DataSetPaid(d)'
  BY <1>1, <1>2, <1>5, <1>7, <1>8 DEF DataSetPaid, RateRecorded
<1>10. QED BY <1>6, <1>9

\* Every data set.
LEMMA PossessionProvenPaid ==
  ASSUME PaymentInv, NEW d \in DataSetIds, PossessionProven(d)
  PROVE  audit' \in [DataSetIds -> AuditRecord] /\ \A i \in DataSetIds : DataSetPaid(i)'
<1>1. audit' = [audit EXCEPT ![d].covered = audit[d].covered \cup (EpochsOfCurrentPeriod(d) \cap Epochs)]
  BY DEF PossessionProven
<1>2. UNCHANGED <<blockNumber, proving, provingActivationEpoch, pdp, dataSetInfo, rails>>
  BY DEF PossessionProven, service, registers, external
<1>3. WaitInv /\ audit \in [DataSetIds -> AuditRecord]
  BY DEF PaymentInv
<1>4. ASSUME NEW i \in DataSetIds, i # d PROVE audit'[i] = audit[i] /\ DataSetPaid(i)'
  <2>1. audit'[i] = audit[i]
    BY <1>1, <1>3, <1>4
  <2>2. provenPeriods'[i] = provenPeriods[i]
    BY <1>4 DEF PossessionProven, PaymentInv, WaitInv, OrderInv, IInv, TypeOK
  <2>3. RecordKept(i)
    BY <1>2, <2>1, <2>2, UntouchedRecord
  <2>4. RailCarriedOver(i)
    BY <1>2, <1>3, UntouchedRailCarriedOver DEF Live, PdpRail
  <2>5. QED BY <1>2, <2>1, <2>3, <2>4, RecordKeptPaid
<1>5. audit'[d] \in AuditRecord /\ DataSetPaid(d)'
  BY ProofPaid
<1>6. audit' \in [DataSetIds -> AuditRecord]
  <2>1. \A i \in DataSetIds : audit'[i] \in AuditRecord
    BY <1>3, <1>4, <1>5
  <2>2. audit' = [i \in DataSetIds |-> audit'[i]]
    BY <1>1, <1>3
  <2>3. QED BY <2>1, <2>2, Zenon
<1>7. QED BY <1>4, <1>5, <1>6

-----------------------------------------------------------------------------
(* A start of proving.                                                     *)

\* A first start finds no marks; the epochs that proofs can cover are all to come.
LEMMA StartProvingPaid ==
  ASSUME PaymentInv, WaitInv', [Next]_vars, NEW d \in DataSetIds, NEW c \in Nat, StartProving(d, c)
  PROVE  audit' \in [DataSetIds -> AuditRecord] /\ \A i \in DataSetIds : DataSetPaid(i)'
<1> DEFINE M == proving.maxProvingPeriod
<1>1. /\ audit' = [audit EXCEPT ![d].activations = audit[d].activations + 1]
      /\ provingActivationEpoch' = [provingActivationEpoch EXCEPT ![d] = blockNumber]
      /\ provingDeadlines[d] = NoProvingDeadline
      /\ provingDeadlines' = [provingDeadlines EXCEPT ![d] = blockNumber + M]
      /\ UNCHANGED <<blockNumber, proving, provenPeriods, dataSetInfo>>
      /\ Live(d) /\ ProvingSetUpdated(d, c)
  BY DEF StartProving, service, registers
<1>2. WaitInv /\ IInv /\ DataSetInv /\ audit \in [DataSetIds -> AuditRecord]
  BY DEF PaymentInv, WaitInv, OrderInv
<1>3. blockNumber \in Nat \ {0} /\ M \in Nat \ {0} /\ provingDeadlines \in [DataSetIds -> Nat]
      /\ provingActivationEpoch \in [DataSetIds -> Nat] /\ pdp \in [DataSetIds -> VerifierDataSet]
  BY <1>2, BlockNumberType DEF IInv, TypeOK
<1>4. \A r, e : ~SettleRail(r, e)
  <2>1. provingDeadlines'[d] = blockNumber + M /\ blockNumber + M # 0
    <3> HIDE DEF M
    <3> QED BY <1>1, <1>3
  <2>2. provingDeadlines' # provingDeadlines
    BY <1>1, <2>1 DEF NoProvingDeadline
  <2>3. QED BY <2>2 DEF SettleRail, schedule
<1>5. ASSUME NEW i \in DataSetIds PROVE RailCarriedOver(i) /\ pdp'[i].status = pdp[i].status
  <2>1. pdp'[i].status = pdp[i].status
    BY <1>1, <1>3 DEF ProvingSetUpdated, VerifierDataSet
  <2>2. QED BY <1>2, <1>4, <2>1, RailsCarriedOver
<1>6. ASSUME NEW i \in DataSetIds, i # d PROVE audit'[i] = audit[i] /\ DataSetPaid(i)'
  <2>1. audit'[i] = audit[i] /\ provingActivationEpoch'[i] = provingActivationEpoch[i]
    BY <1>1, <1>2, <1>3, <1>6
  <2>2. RecordKept(i)
    BY <1>1, <1>5, <2>1, UntouchedRecord
  <2>3. QED BY <1>1, <1>5, <1>6, <2>1, <2>2, RecordKeptPaid
<1>7. audit[d] \in AuditRecord /\ DataSetPaid(d) /\ MarksNotAhead(d)
  BY <1>2 DEF PaymentInv, WaitInv, MarksInv
<1>8. audit'[d] = [audit[d] EXCEPT !.activations = audit[d].activations + 1]
  BY <1>1, <1>2
<1>9. /\ audit'[d].covered = audit[d].covered /\ audit'[d].rateOf = audit[d].rateOf
      /\ audit'[d].paid = audit[d].paid /\ audit'[d].settledUpTo = audit[d].settledUpTo
      /\ audit'[d].activations = audit[d].activations + 1 /\ audit'[d].waived = audit[d].waived
      /\ audit[d].activations \in Nat /\ audit[d].settledUpTo \in Nat
  BY <1>7, <1>8 DEF AuditRecord
<1>10. audit' \in [DataSetIds -> AuditRecord]
  <2>1. audit'[d] \in AuditRecord
    BY <1>7, <1>8, <1>9 DEF AuditRecord
  <2>2. \A i \in DataSetIds : audit'[i] \in AuditRecord
    BY <1>2, <1>6, <2>1
  <2>3. audit' = [i \in DataSetIds |-> audit'[i]]
    BY <1>1, <1>2
  <2>4. QED BY <2>2, <2>3, Zenon
<1>11. PaidRail(d)' => /\ RateRecorded(PdpRail(d), audit[d].rateOf, blockNumber)'
                       /\ (FirstEpoch <= PdpRail(d).settledUpTo)'
                       /\ Arbitrated(d) => SettlementRecorded(d, PdpRail(d))'
  <2> SUFFICES ASSUME PaidRail(d)'
               PROVE  /\ RateRecorded(PdpRail(d), audit[d].rateOf, blockNumber)'
                      /\ (FirstEpoch <= PdpRail(d).settledUpTo)'
                      /\ Arbitrated(d) => SettlementRecorded(d, PdpRail(d))'
    OBVIOUS
  <2>1. pdp[d].status # "deleted"
    BY <1>1 DEF Live
  <2>2. /\ RateRecorded(PdpRail(d)', audit[d].rateOf, blockNumber)
        /\ FirstEpoch <= PdpRail(d)'.settledUpTo
        /\ Arbitrated(d) => SettlementRecorded(d, PdpRail(d)')
    BY <1>1, <1>5, <2>1, CarriedRailRecorded
  <2>3. QED BY <1>1, <1>9, <2>2 DEF RateRecorded, SettlementRecorded
<1>12. ASSUME Arbitrated(d)'
       PROVE  /\ Arbitrated(d)
              /\ (audit[d].paid = SumOver(audit[d].rateOf, SettledProofs(d)))'
              /\ audit'[d].covered = MarkedEpochs(d)'
              /\ ProofsComeBeforePayment(d)'
  <2>1. audit[d].activations = 0 /\ ~audit[d].waived
    BY <1>9, <1>12 DEF Arbitrated
  <2>2. Arbitrated(d) /\ provenPeriods[d] = {}
    BY <1>7, <2>1 DEF Arbitrated, MarksNotAhead
  <2>3. MarkedEpochs(d) = {} /\ MarkedEpochs(d)' = {}
    BY <1>1, <2>2 DEF MarkedEpochs
  <2>4. audit[d].covered = {}
    BY <1>1, <1>7, <2>2, <2>3 DEF DataSetPaid, Live
  <2>5. (audit[d].paid = SumOver(audit[d].rateOf, SettledProofs(d)))'
    <3>1. SettledProofs(d)' = SettledProofs(d)
      BY <1>9 DEF SettledProofs
    <3>2. QED BY <1>7, <1>9, <2>2, <3>1 DEF DataSetPaid
  <2>6. ASSUME NEW p \in Nat
        PROVE  audit[d].settledUpTo <= CalcPeriodDeadline(blockNumber, p, M) - M
    <3>1. audit[d].settledUpTo <= blockNumber
      BY <1>7 DEF DataSetPaid
    <3> HIDE DEF M
    <3>2. /\ CalcPeriodDeadline(blockNumber, p, M) - M \in Nat
          /\ CalcPeriodDeadline(blockNumber, p, M) - M >= blockNumber
      BY <1>3, DeadlineType
    <3>3. QED BY <1>3, <1>9, <3>1, <3>2
  <2>7. ProofsComeBeforePayment(d)'
    <3>1. provingActivationEpoch'[d] = blockNumber
      BY <1>1, <1>3
    <3>2. QED BY <1>1, <1>9, <2>6, <3>1 DEF ProofsComeBeforePayment
  <2>8. QED BY <1>9, <2>2, <2>3, <2>4, <2>5, <2>7
<1>13. DataSetPaid(d)'
  <2>1. audit'[d].activations # 0 /\ audit'[d].settledUpTo <= blockNumber'
    BY <1>1, <1>7, <1>9 DEF DataSetPaid
  <2>2. QED BY <1>11, <1>12, <2>1 DEF DataSetPaid
<1>14. QED BY <1>6, <1>10, <1>13

-----------------------------------------------------------------------------
(* A settlement, with and without the validator.                           *)

\* The rail of one data set is not that of another.
LEMMA RailsOfDataSetsDiffer ==
  ASSUME DataSetInv, NEW d \in DataSetIds, Live(d), NEW r \in RailIds, railToDataSet[r] # d
  PROVE  dataSetInfo[d].pdpRailId # r
BY DEF DataSetInv, LinkInv, DataSetsHaveRails

\* settleRail: the data set that is paid, and all others.
LEMMA SettleRailPaid ==
  ASSUME PaymentInv, NEW r \in RailIds, NEW e \in Epochs, SettleRail(r, e)
  PROVE  audit' \in [DataSetIds -> AuditRecord] /\ \A i \in DataSetIds : DataSetPaid(i)'
<1>1. /\ UNCHANGED <<blockNumber, proving, provenPeriods, provingActivationEpoch, pdp, dataSetInfo>>
      /\ e \in Nat
  BY EpochsAreNaturals DEF SettleRail, service, schedule, registers
<1>2. WaitInv /\ IInv /\ DataSetInv /\ audit \in [DataSetIds -> AuditRecord]
  BY DEF PaymentInv, WaitInv, OrderInv
<1>3. railToDataSet[r] \in DataSetIds \cup {NoDataSet}
  BY <1>2 DEF IInv, TypeOK
<1>4. \A i \in RailIds : i # r => rails'[i] = rails[i]
  <2>1. \E new : rails' = [rails EXCEPT ![r] = new]
    BY DEF SettleRail
  <2>2. QED BY <1>2, <2>1 DEF IInv, TypeOK
<1>5. ASSUME NEW i \in DataSetIds, railToDataSet[r] # i, audit'[i] = audit[i]
      PROVE  DataSetPaid(i)'
  <2>1. RecordKept(i)
    BY <1>1, <1>5, UntouchedRecord
  <2>2. Live(i) => PdpRail(i)' = PdpRail(i)
    BY <1>1, <1>2, <1>4, <1>5, RailsOfDataSetsDiffer
       DEF PdpRail, DataSetInv, LinkInv, DataSetsHaveRails
  <2>3. RailCarriedOver(i)
    BY <1>1, <1>2, <2>2, UntouchedRailCarriedOver DEF Live, PaidRail
  <2>4. QED BY <1>1, <2>1, <2>3, RecordKeptPaid
<1>6. CASE railToDataSet[r] = NoDataSet
  <2>1. UNCHANGED audit
    BY <1>6 DEF SettleRail
  <2>2. \A i \in DataSetIds : railToDataSet[r] # i
    BY <1>6 DEF DataSetIds, NoDataSet
  <2>3. QED BY <1>2, <1>5, <2>1, <2>2
<1>7. CASE railToDataSet[r] \in DataSetIds
  <2>1. PICK d \in DataSetIds : railToDataSet[r] = d
    BY <1>7
  <2>2. audit' \in [DataSetIds -> AuditRecord] /\ DataSetPaid(d)'
    BY <1>1, <2>1, SettlementPaid
  <2>3. ASSUME NEW i \in DataSetIds, i # d PROVE audit'[i] = audit[i]
    <3>1. d # NoDataSet
      BY DEF DataSetIds, NoDataSet
    <3> DEFINE target   == TargetOf(r, e)
               outcomes == Outcomes(r, target)
               amount   == SettledAmount(rails[r], target, outcomes)
               upTo     == outcomes[LastSegment(rails[r], target, outcomes)].settleUpTo
    <3>2. audit' = [audit EXCEPT ![d].paid = audit[d].paid + amount, ![d].settledUpTo = upTo]
      BY <2>1, <3>1 DEF SettleRail
    <3> HIDE DEF amount, upTo
    <3>3. QED BY <1>2, <2>3, <3>2
  <2>4. QED BY <1>5, <2>1, <2>2, <2>3
<1>8. QED BY <1>3, <1>6, <1>7

\* settleTerminatedRailWithoutValidation: the payer gives up the arbitration.
LEMMA UnvalidatedSettlementPaid ==
  ASSUME PaymentInv, NEW d \in DataSetIds, SettleTerminatedRailWithoutValidation(d)
  PROVE  audit' \in [DataSetIds -> AuditRecord] /\ \A i \in DataSetIds : DataSetPaid(i)'
<1> DEFINE r == dataSetInfo[d].pdpRailId
<1>1. /\ UNCHANGED <<blockNumber, proving, provenPeriods, provingActivationEpoch, pdp, dataSetInfo>>
      /\ audit' = [audit EXCEPT ![d].waived = TRUE]
      /\ rails' = [rails EXCEPT ![r] = FinalizedRail]
      /\ r # NoRailId
  BY DEF SettleTerminatedRailWithoutValidation, service, schedule, registers
<1>2. WaitInv /\ IInv /\ DataSetInv /\ audit \in [DataSetIds -> AuditRecord]
  BY DEF PaymentInv, WaitInv, OrderInv
<1>3. r \in RailIds /\ railToDataSet[r] = d /\ Live(d)
  BY <1>1, <1>2 DEF DataSetInv, LinkInv, DataSetsHaveRails, NoInfo
<1>4. rails \in [RailIds -> Rail]
  BY <1>2 DEF IInv, TypeOK
<1>5. ASSUME NEW i \in DataSetIds, i # d PROVE audit'[i] = audit[i] /\ DataSetPaid(i)'
  <2>1. audit'[i] = audit[i]
    BY <1>1, <1>2, <1>5
  <2>2. RecordKept(i)
    BY <1>1, <2>1, UntouchedRecord
  <2>3. Live(i) => dataSetInfo[i].pdpRailId \in RailIds /\ dataSetInfo[i].pdpRailId # r
    BY <1>2, <1>3, <1>5, RailsOfDataSetsDiffer DEF DataSetInv, LinkInv, DataSetsHaveRails
  <2>4. Live(i) => PdpRail(i)' = PdpRail(i)
    <3> HIDE DEF r
    <3> QED BY <1>1, <1>4, <2>3 DEF PdpRail
  <2>5. RailCarriedOver(i)
    BY <1>1, <1>2, <2>4, UntouchedRailCarriedOver DEF Live, PaidRail
  <2>6. QED BY <1>1, <2>1, <2>2, <2>5, RecordKeptPaid
<1>6. audit[d] \in AuditRecord /\ DataSetPaid(d) /\ audit'[d] = [audit[d] EXCEPT !.waived = TRUE]
  BY <1>1, <1>2 DEF PaymentInv
<1>7. /\ audit'[d].settledUpTo = audit[d].settledUpTo
      /\ audit'[d].activations = audit[d].activations
      /\ audit'[d].waived = TRUE
  BY <1>6 DEF AuditRecord
<1>8. ~PaidRail(d)'
  <2>1. PdpRail(d)' = FinalizedRail
    BY <1>1, <1>3, <1>4 DEF PdpRail
  <2>2. QED BY <2>1 DEF PaidRail, FinalizedRail, NoRail
<1>9. DataSetPaid(d)'
  BY <1>1, <1>6, <1>7, <1>8 DEF DataSetPaid, Arbitrated
<1>10. audit' \in [DataSetIds -> AuditRecord]
  <2>1. audit'[d] \in AuditRecord
    BY <1>6 DEF AuditRecord
  <2>2. \A i \in DataSetIds : audit'[i] \in AuditRecord
    BY <1>2, <1>5, <2>1
  <2>3. audit' = [i \in DataSetIds |-> audit'[i]]
    BY <1>1, <1>2
  <2>4. QED BY <2>2, <2>3, Zenon
<1>11. QED BY <1>5, <1>9, <1>10

-----------------------------------------------------------------------------
(* The passing of an epoch.                                                *)

\* The epoch to come is charged at the rate of the data set's rail.
LEMMA EpochPaid ==
  ASSUME PaymentInv, NewEpoch, NEW d \in DataSetIds
  PROVE  audit'[d] \in AuditRecord /\ DataSetPaid(d)'
<1> DEFINE now    == blockNumber
           charge == RateCharged(d, now + 1)
           before == audit[d].rateOf
           after  == [before EXCEPT ![now + 1] = charge]
<1>1. /\ WaitInv /\ IInv /\ OrderInv /\ DataSetInv /\ DataSetPaid(d)
      /\ audit \in [DataSetIds -> AuditRecord] /\ audit[d] \in AuditRecord
  BY DEF PaymentInv, WaitInv, OrderInv
<1>2. /\ now < MaxEpoch /\ blockNumber' = now + 1
      /\ audit' = [i \in DataSetIds |->
                     [audit[i] EXCEPT !.rateOf[now + 1] = RateCharged(i, now + 1)]]
      /\ UNCHANGED <<proving, provenPeriods, provingActivationEpoch, dataSetInfo, pdp, rails>>
  BY DEF NewEpoch, service, schedule, registers, external
<1>3. now \in Nat /\ now \in Epochs /\ now + 1 \in Epochs
  <2>1. now \in Nat /\ now \in Epochs /\ now < MaxEpoch
    BY <1>1, <1>2, BlockNumberType DEF IInv, TypeOK
  <2>2. FirstEpoch \in Nat /\ MaxEpoch \in Nat
    BY Constants DEF ConstantsAssumption
  <2> HIDE DEF now
  <2>3. QED BY <2>1, <2>2 DEF Epochs
<1>4. charge \in Nat
  <2>1. CASE dataSetInfo[d].pdpRailId # NoRailId
    <3>1. dataSetInfo[d].pdpRailId \in RailIds
      BY <1>1, <2>1 DEF IInv, TypeOK, DataSetInfo
    <3>2. QED BY <1>1, <3>1 DEF RateCharged, IInv, TypeOK, Rail
  <2>2. CASE dataSetInfo[d].pdpRailId = NoRailId
    BY <2>2 DEF RateCharged
  <2>3. QED BY <2>1, <2>2
<1>5. PdpRail(d)' = PdpRail(d) /\ PaidRail(d)' = PaidRail(d) /\ Live(d)' = Live(d)
      /\ MarkedEpochs(d)' = MarkedEpochs(d)
  BY <1>2 DEF PdpRail, PaidRail, Live, MarkedEpochs
<1>6. PaidRail(d) => /\ PdpRail(d) \in Rail /\ InOrder(PdpRail(d), now)
                     /\ (PdpRail(d).endEpoch # NotEnded => now + 1 <= PdpRail(d).endEpoch)
                          => charge = PdpRail(d).rate
  <2> SUFFICES ASSUME PaidRail(d)
               PROVE  /\ PdpRail(d) \in Rail /\ InOrder(PdpRail(d), now)
                      /\ (PdpRail(d).endEpoch # NotEnded => now + 1 <= PdpRail(d).endEpoch)
                           => charge = PdpRail(d).rate
    OBVIOUS
  <2>1. dataSetInfo[d].pdpRailId \in RailIds /\ dataSetInfo[d].pdpRailId # NoRailId
    BY <1>1 DEF PaidRail, DataSetInv, LinkInv, DataSetsHaveRails, RailIds, NoRailId
  <2>2. PdpRail(d) \in Rail /\ InOrder(PdpRail(d), now)
    BY <1>1, <2>1 DEF PaidRail, PdpRail, OrderInv, RailsInOrder, IInv, TypeOK
  <2>3. QED BY <2>1, <2>2 DEF RateCharged, PaidRail, PdpRail
<1> HIDE DEF charge
<1>7. audit'[d] = [audit[d] EXCEPT !.rateOf = after]
  BY <1>2 DEF charge
<1>8. before \in [Epochs -> Nat]
  BY <1>1 DEF AuditRecord
<1>9. after \in [Epochs -> Nat] /\ after[now + 1] = charge
      /\ \A e \in Nat : e <= now => after[e] = before[e]
  <2>1. after \in [Epochs -> Nat] /\ after[now + 1] = charge
    BY <1>3, <1>4, <1>8
  <2>2. ASSUME NEW e \in Nat, e <= now PROVE after[e] = before[e]
    <3>1. e # now + 1
      BY <1>3, <2>2
    <3>2. CASE e \in Epochs
      BY <1>8, <3>1, <3>2
    <3>3. CASE e \notin Epochs
      BY <3>1, <3>3
    <3>4. QED BY <3>2, <3>3
  <2>3. QED BY <2>1, <2>2
<1> HIDE DEF before, after
<1>10. /\ audit'[d].rateOf = after /\ audit'[d].covered = audit[d].covered
       /\ audit'[d].paid = audit[d].paid /\ audit'[d].settledUpTo = audit[d].settledUpTo
       /\ audit'[d].activations = audit[d].activations /\ audit'[d].waived = audit[d].waived
       /\ audit'[d] \in AuditRecord
  BY <1>1, <1>7, <1>9 DEF AuditRecord
<1>11. /\ audit[d].settledUpTo \in Nat /\ audit[d].settledUpTo <= now
       /\ audit[d].covered \subseteq Epochs
  BY <1>1 DEF DataSetPaid, AuditRecord
<1>12. PaidRail(d) => RateRecorded(PdpRail(d), after, now + 1)
  <2> SUFFICES ASSUME PaidRail(d) PROVE RateRecorded(PdpRail(d), after, now + 1)
    OBVIOUS
  <2>1. RateRecorded(PdpRail(d), before, now)
    BY <1>1 DEF DataSetPaid, before
  <2> HIDE DEF now
  <2>2. QED BY <1>3, <1>6, <1>9, <2>1, EpochRecorded
<1>13. SettledProofs(d)' = SettledProofs(d) /\ SumOver(after, SettledProofs(d)) = SumOver(before, SettledProofs(d))
  <2>1. SettledProofs(d)' = SettledProofs(d)
    BY <1>10 DEF SettledProofs
  <2>2. SettledProofs(d) \subseteq Epochs /\ \A e \in SettledProofs(d) : e <= now
    <3>1. ASSUME NEW e \in SettledProofs(d) PROVE e \in Epochs /\ e <= now
      <4>1. e \in Epochs /\ e <= audit[d].settledUpTo /\ e \in Nat
        BY <1>11, EpochsAreNaturals DEF SettledProofs
      <4> HIDE DEF now
      <4>2. QED BY <1>3, <1>11, <4>1
    <3>2. QED BY <3>1
  <2>3. IsFiniteSet(SettledProofs(d))
    <3>1. IsFiniteSet(Epochs)
      BY FS_Interval, Constants DEF Epochs, ConstantsAssumption
    <3>2. QED BY <2>2, <3>1, FS_Subset
  <2>4. \A e \in SettledProofs(d) : before[e] \in Nat /\ after[e] = before[e]
    BY <1>8, <1>9, <2>2, EpochsAreNaturals
  <2>5. QED BY <2>1, <2>3, <2>4, SumsAgree
<1>14. ProofsComeBeforePayment(d) /\ provingActivationEpoch[d] # NeverActivated
         => ProofsComeBeforePayment(d)'
  <2> SUFFICES ASSUME ProofsComeBeforePayment(d), NEW p \in Nat, p \notin provenPeriods[d],
                      now + 1 <= CalcPeriodDeadline(provingActivationEpoch[d], p,
                                                    proving.maxProvingPeriod)
               PROVE  audit[d].settledUpTo
                        <= CalcPeriodDeadline(provingActivationEpoch[d], p, proving.maxProvingPeriod)
                             - proving.maxProvingPeriod
    BY <1>2, <1>10 DEF ProofsComeBeforePayment
  <2>1. CalcPeriodDeadline(provingActivationEpoch[d], p, proving.maxProvingPeriod) \in Nat
    BY <1>1, DeadlineType DEF IInv, TypeOK
  <2>2. now <= CalcPeriodDeadline(provingActivationEpoch[d], p, proving.maxProvingPeriod)
    BY <1>3, <2>1
  <2>3. QED BY <2>2 DEF ProofsComeBeforePayment
<1>15. Arbitrated(d)' = Arbitrated(d)
  BY <1>10 DEF Arbitrated
<1>16. Arbitrated(d) => (audit[d].paid = SumOver(audit[d].rateOf, SettledProofs(d)))'
  BY <1>1, <1>10, <1>13 DEF DataSetPaid, before
<1>17. PaidRail(d) /\ Arbitrated(d) => SettlementRecorded(d, PdpRail(d))'
  BY <1>1, <1>5, <1>10 DEF DataSetPaid, SettlementRecorded
<1>18. audit'[d].settledUpTo <= blockNumber'
  BY <1>2, <1>3, <1>10, <1>11
<1>19. DataSetPaid(d)'
  BY <1>1, <1>2, <1>5, <1>10, <1>12, <1>14, <1>15, <1>16, <1>17, <1>18 DEF DataSetPaid
<1>20. QED BY <1>10, <1>19

-----------------------------------------------------------------------------

\* The invariant is inductive.
LEMMA NextPayment ==
  ASSUME OnePeriodLength, PaymentInv, [Next]_vars
  PROVE  PaymentInv'
<1>1. WaitInv' /\ WaitInv /\ IInv
  BY NextWait DEF PaymentInv, WaitInv, OrderInv
<1> SUFFICES audit' \in [DataSetIds -> AuditRecord] /\ \A d \in DataSetIds : DataSetPaid(d)'
  BY <1>1 DEF PaymentInv
<1>2. CASE Quiet
  BY <1>1, <1>2, QuietStepPaid
<1>3. CASE \E d \in DataSetIds : PossessionProven(d)
  BY <1>3, PossessionProvenPaid
<1>4. CASE \E d \in DataSetIds : \E c \in ChallengeEpochs : StartProving(d, c)
  <2>1. ChallengeEpochs \subseteq Nat
    BY <1>1, BlockNumberType DEF ChallengeEpochs, NoChallengeScheduled
  <2>2. QED BY <1>1, <1>4, <2>1, StartProvingPaid
<1>5. CASE \E r \in RailIds : \E e \in Epochs : SettleRail(r, e)
  BY <1>5, SettleRailPaid
<1>6. CASE \E d \in DataSetIds : SettleTerminatedRailWithoutValidation(d)
  BY <1>6, UnvalidatedSettlementPaid
<1>7. CASE NewEpoch
  <2>1. \A d \in DataSetIds : audit'[d] \in AuditRecord /\ DataSetPaid(d)'
    BY <1>7, EpochPaid
  <2>2. audit' = [d \in DataSetIds |-> audit'[d]]
    BY <1>7 DEF NewEpoch
  <2>3. QED BY <2>1, <2>2, Zenon
<1>8. QED BY <1>2, <1>3, <1>4, <1>5, <1>6, <1>7 DEF Quiet

\* However settlement is cut into calls, whatever rates are set in between and whatever
\* the provider proves or misses: what is paid with arbitration is the sum, over the
\* settled epochs that a proof covers, of the rate each of them was charged at.
THEOREM PaymentIsForProofs ==
  ASSUME OnePeriodLength
  PROVE  Spec => []PaidExactlyForProvenEpochs
<1>1. Init => PaymentInv
  BY InitPayment
<1>2. PaymentInv /\ [Next]_vars => PaymentInv'
  BY NextPayment
<1>3. PaymentInv => PaidExactlyForProvenEpochs
  <2> SUFFICES ASSUME PaymentInv, NEW d \in DataSetIds, Arbitrated(d)
               PROVE  audit[d].paid = EarnedBySettledProofs(d)
    BY DEF PaidExactlyForProvenEpochs, Arbitrated
  <2>1. audit[d].paid = SumOver(audit[d].rateOf, SettledProofs(d))
    BY DEF PaymentInv, DataSetPaid
  <2>2. QED BY <2>1 DEF EarnedBySettledProofs, SumOver, SettledProofs
<1>4. QED BY <1>1, <1>2, <1>3, PTL DEF Spec

-----------------------------------------------------------------------------
(***************************************************************************)
(* Part 4.  The refinement: a step of the contract is a step of            *)
(* ArbitratedPayment, or leaves prices, accounts and time as they are.     *)
(* Each step is looked at from the one data set whose history it changes.  *)
(***************************************************************************)

Prices == [d \in DataSetIds |-> audit[d].rateOf]

Accounts == [d \in {i \in DataSetIds : Arbitrated(i)} |-> AccountOf(d)]

\* A step that changes the history of one data set at most, and no price.
OneHistoryChanges(d) ==
  /\ audit \in [DataSetIds -> AuditRecord]
  /\ \A i \in DataSetIds : i # d => audit'[i] = audit[i]
  /\ audit'[d].rateOf = audit[d].rateOf
  /\ blockNumber' = blockNumber

LEMMA OtherAccountsStay ==
  ASSUME NEW d \in DataSetIds, OneHistoryChanges(d)
  PROVE  /\ Prices' = Prices
         /\ \A i \in DataSetIds : i # d => Arbitrated(i)' = Arbitrated(i) /\ AccountOf(i)' = AccountOf(i)
<1>1. \A i \in DataSetIds : audit'[i].rateOf = audit[i].rateOf
  BY DEF OneHistoryChanges
<1>2. Prices' = Prices
  BY <1>1 DEF Prices
<1>3. QED BY <1>2 DEF OneHistoryChanges, Arbitrated, AccountOf

\* The account stays, whoever it belongs to.
LEMMA AccountStays ==
  ASSUME NEW d \in DataSetIds, OneHistoryChanges(d), Arbitrated(d)' = Arbitrated(d),
         Arbitrated(d) => AccountOf(d)' = AccountOf(d)
  PROVE  UNCHANGED <<blockNumber, Prices, Accounts>>
<1>1. \A i \in DataSetIds : Arbitrated(i)' = Arbitrated(i) /\ (Arbitrated(i) => AccountOf(i)' = AccountOf(i))
  BY OtherAccountsStay
<1>2. {i \in DataSetIds : Arbitrated(i)'} = {i \in DataSetIds : Arbitrated(i)}
  BY <1>1
<1>3. Accounts' = Accounts
  BY <1>1, <1>2 DEF Accounts
<1>4. QED BY <1>3, OtherAccountsStay DEF OneHistoryChanges

\* It is left behind.
LEMMA AccountIsLeft ==
  ASSUME NEW d \in DataSetIds, OneHistoryChanges(d), Arbitrated(d), ~Arbitrated(d)'
  PROVE  d \in DOMAIN Accounts /\ Payment!Leave(d)
<1>1. \A i \in DataSetIds : i # d => Arbitrated(i)' = Arbitrated(i) /\ AccountOf(i)' = AccountOf(i)
  BY OtherAccountsStay
<1>2. {i \in DataSetIds : Arbitrated(i)'} = {i \in DataSetIds : Arbitrated(i)} \ {d}
  BY <1>1
<1>3. DOMAIN Accounts = {i \in DataSetIds : Arbitrated(i)}
  BY DEF Accounts
<1>4. \A i \in DOMAIN Accounts : Accounts[i] = AccountOf(i)
  BY DEF Accounts
<1>5. Accounts' = [i \in {j \in DataSetIds : Arbitrated(j)'} |-> AccountOf(i)']
  BY DEF Accounts
<1>6. Accounts' = [i \in (DOMAIN Accounts) \ {d} |-> Accounts[i]]
  BY <1>1, <1>2, <1>3, <1>4, <1>5
<1>7. QED BY <1>3, <1>6, OtherAccountsStay DEF Payment!Leave, Accounts, Prices, OneHistoryChanges

\* It changes and stays under arbitration.
LEMMA AccountChanges ==
  ASSUME NEW d \in DataSetIds, OneHistoryChanges(d), Arbitrated(d), Arbitrated(d)'
  PROVE  /\ d \in DOMAIN Accounts /\ Accounts[d] = AccountOf(d)
         /\ Accounts' = [Accounts EXCEPT ![d] = AccountOf(d)']
<1>1. \A i \in DataSetIds : i # d => Arbitrated(i)' = Arbitrated(i) /\ AccountOf(i)' = AccountOf(i)
  BY OtherAccountsStay
<1>2. {i \in DataSetIds : Arbitrated(i)'} = {i \in DataSetIds : Arbitrated(i)}
  BY <1>1
<1>3. DOMAIN Accounts = {i \in DataSetIds : Arbitrated(i)}
  BY DEF Accounts
<1>4. \A i \in DOMAIN Accounts : Accounts[i] = AccountOf(i)
  BY DEF Accounts
<1>5. Accounts' = [i \in {j \in DataSetIds : Arbitrated(j)'} |-> AccountOf(i)']
  BY DEF Accounts
<1>6. Accounts' = [i \in DOMAIN Accounts |-> IF i = d THEN AccountOf(d)' ELSE Accounts[i]]
  BY <1>1, <1>2, <1>3, <1>4, <1>5
<1>7. QED BY <1>3, <1>4, <1>6

\* possessionProven earns the epochs of the current period, and none that is settled.
LEMMA ProofImplements ==
  ASSUME PaymentInv, NEW d \in DataSetIds, PossessionProven(d)
  PROVE  \/ UNCHANGED <<blockNumber, Prices, Accounts>>
         \/ /\ d \in DOMAIN Accounts
            /\ \E first \in FirstEpoch .. blockNumber, last \in blockNumber .. MaxEpoch :
                 Payment!Prove(d, first, last)
<1> DEFINE M == proving.maxProvingPeriod
           D == provingDeadlines[d]
           new == EpochsOfCurrentPeriod(d) \cap Epochs
<1>1. /\ audit' = [audit EXCEPT ![d].covered = audit[d].covered \cup new]
      /\ blockNumber' = blockNumber /\ Live(d)
  BY DEF PossessionProven
<1>2. audit \in [DataSetIds -> AuditRecord] /\ audit[d] \in AuditRecord /\ DataSetPaid(d)
      /\ IInv /\ GridInv
  BY DEF PaymentInv, WaitInv, OrderInv
<1> HIDE DEF new
<1>3. /\ audit'[d] = [audit[d] EXCEPT !.covered = audit[d].covered \cup new]
      /\ \A i \in DataSetIds : i # d => audit'[i] = audit[i]
  BY <1>1, <1>2
<1>4. /\ audit'[d].covered = audit[d].covered \cup new
      /\ audit'[d].rateOf = audit[d].rateOf
      /\ audit'[d].paid = audit[d].paid /\ audit'[d].settledUpTo = audit[d].settledUpTo
      /\ audit'[d].activations = audit[d].activations /\ audit'[d].waived = audit[d].waived
  BY <1>2, <1>3 DEF AuditRecord
<1>5. OneHistoryChanges(d) /\ Arbitrated(d)' = Arbitrated(d)
  BY <1>1, <1>2, <1>3, <1>4 DEF OneHistoryChanges, Arbitrated
<1>6. CASE ~Arbitrated(d)
  BY <1>5, <1>6, AccountStays
<1>7. CASE Arbitrated(d)
  <2>1. \A e \in new \ MarkedEpochs(d) : ~(e <= audit[d].settledUpTo)
    BY <1>7, ProofCovers DEF new
  <2>2. audit[d].covered = MarkedEpochs(d)
    BY <1>1, <1>2, <1>7 DEF DataSetPaid, Live
  <2>3. PICK first \in FirstEpoch .. blockNumber, last \in blockNumber .. MaxEpoch : new = first .. last
    <3>1. blockNumber \in D - M + 1 .. D /\ D \in Nat /\ M \in Nat
      BY <1>2, ProofInPeriod DEF IInv, TypeOK
    <3>2. blockNumber \in FirstEpoch .. MaxEpoch /\ FirstEpoch \in Nat /\ MaxEpoch \in Nat
      BY <1>2, Constants DEF IInv, TypeOK, Epochs, ConstantsAssumption
    <3>3. new = (D - M + 1 .. D) \cap (FirstEpoch .. MaxEpoch)
      BY DEF new, EpochsOfCurrentPeriod, Epochs
    <3> DEFINE from == IF D - M + 1 <= FirstEpoch THEN FirstEpoch ELSE D - M + 1
               upTo == IF D <= MaxEpoch THEN D ELSE MaxEpoch
    <3> HIDE DEF D, M
    <3>4. from \in FirstEpoch .. blockNumber /\ upTo \in blockNumber .. MaxEpoch
      BY <3>1, <3>2
    <3>5. new = from .. upTo
      BY <3>1, <3>2, <3>3
    <3> HIDE DEF from, upTo
    <3>6. QED BY <3>4, <3>5
  <2>4. audit[d].settledUpTo \in Nat /\ \A e \in first .. last : e \in Nat
    <3>1. audit[d].settledUpTo \in Nat /\ FirstEpoch \in Nat
      BY <1>2, Constants DEF AuditRecord, ConstantsAssumption
    <3>2. \A e \in first .. last : e \in new
      BY <2>3
    <3>3. QED BY <3>1, <3>2, EpochsAreNaturals DEF new
  <2>5. \A e \in (first .. last) \ AccountOf(d).earned : e > AccountOf(d).settledUpTo
    BY <2>1, <2>2, <2>3, <2>4 DEF AccountOf
  <2>6. AccountOf(d)' = [AccountOf(d) EXCEPT !.earned = AccountOf(d).earned
                                                          \cup ((first .. last) \ AccountOf(d).earned)]
    <3>1. AccountOf(d).earned \cup ((first .. last) \ AccountOf(d).earned) = audit'[d].covered
      BY <1>4, <2>3 DEF AccountOf
    <3>2. QED BY <1>4, <3>1 DEF AccountOf
  <2>7. /\ d \in DOMAIN Accounts /\ Accounts[d] = AccountOf(d)
        /\ Accounts' = [Accounts EXCEPT ![d] = AccountOf(d)']
    BY <1>5, <1>7, AccountChanges
  <2>8. Prices' = Prices
    BY <1>5, OtherAccountsStay
  <2>9. Payment!Prove(d, first, last)
    <3>1. Accounts' = [Accounts EXCEPT ![d].earned = Accounts[d].earned
                                                       \cup ((first .. last) \ Accounts[d].earned)]
      <4> HIDE DEF Accounts
      <4> QED BY <2>6, <2>7
    <3>2. \A e \in (first .. last) \ Accounts[d].earned : e > Accounts[d].settledUpTo
      BY <2>5, <2>7
    <3>3. QED BY <1>1, <2>8, <3>1, <3>2 DEF Payment!Prove, Accounts, Prices
  <2>10. QED BY <2>7, <2>9
<1>8. QED BY <1>6, <1>7

\* A settlement of a data set under arbitration pays for the earned epochs it passes.
LEMMA SettlementImplements ==
  ASSUME PaymentInv, PaymentInv', NEW r \in RailIds, NEW e \in Epochs, SettleRail(r, e),
         NEW d \in DataSetIds, railToDataSet[r] = d
  PROVE  \/ UNCHANGED <<blockNumber, Prices, Accounts>>
         \/ /\ d \in DOMAIN Accounts
            /\ \E upTo \in FirstEpoch .. blockNumber : Payment!Settle(d, upTo)
<1> DEFINE target   == TargetOf(r, e)
           outcomes == Outcomes(r, target)
           amount   == SettledAmount(rails[r], target, outcomes)
           upTo     == SettlementReached(r, e)
<1>1. /\ audit \in [DataSetIds -> AuditRecord] /\ audit[d] \in AuditRecord /\ audit'[d] \in AuditRecord
      /\ DataSetPaid(d) /\ DataSetPaid(d)' /\ WaitInv /\ e \in Nat /\ blockNumber \in Nat
      /\ FirstEpoch \in Nat
  BY EpochsAreNaturals, BlockNumberType, Constants
     DEF PaymentInv, WaitInv, OrderInv, ConstantsAssumption
<1>2. /\ Live(d) /\ PdpRail(d) = rails[r] /\ rails[r].status = "active" /\ rails[r] \in Rail
      /\ blockNumber' = blockNumber
      /\ audit' = [audit EXCEPT ![d].paid = audit[d].paid + amount, ![d].settledUpTo = upTo]
  BY <1>1, SettlementEffect
<1>3. upTo \in Nat /\ rails[r].settledUpTo <= upTo /\ upTo <= blockNumber
  BY <1>1, SettlementPays
<1> HIDE DEF amount, upTo
<1>4. /\ audit'[d] = [audit[d] EXCEPT !.paid = audit[d].paid + amount, !.settledUpTo = upTo]
      /\ \A i \in DataSetIds : i # d => audit'[i] = audit[i]
  BY <1>1, <1>2
<1>5. /\ audit'[d].covered = audit[d].covered /\ audit'[d].rateOf = audit[d].rateOf
      /\ audit'[d].settledUpTo = upTo
      /\ audit'[d].activations = audit[d].activations /\ audit'[d].waived = audit[d].waived
  BY <1>1, <1>4 DEF AuditRecord
<1>6. OneHistoryChanges(d) /\ Arbitrated(d)' = Arbitrated(d)
  BY <1>1, <1>2, <1>4, <1>5 DEF OneHistoryChanges, Arbitrated
<1>7. CASE ~Arbitrated(d)
  BY <1>6, <1>7, AccountStays
<1>8. CASE Arbitrated(d)
  <2> DEFINE price == audit[d].rateOf
             next  == {x \in audit[d].covered : audit[d].settledUpTo < x /\ x <= upTo}
  <2>1. /\ audit[d].settledUpTo \in Nat /\ audit[d].covered \subseteq Epochs
        /\ price \in [Epochs -> Nat]
    BY <1>1 DEF AuditRecord
  <2>2. /\ FirstEpoch <= rails[r].settledUpTo /\ rails[r].settledUpTo \in Nat
        /\ audit[d].settledUpTo <= rails[r].settledUpTo
    BY <1>1, <1>2, <1>8 DEF DataSetPaid, PaidRail, SettlementRecorded, Rail
  <2>3. upTo \in FirstEpoch .. blockNumber /\ audit[d].settledUpTo <= upTo
    BY <1>1, <1>3, <2>1, <2>2
  <2>4. /\ audit[d].paid = SumOver(price, SettledProofs(d))
        /\ audit'[d].paid = SumOver(price, SettledProofs(d)')
    BY <1>1, <1>5, <1>6, <1>8 DEF DataSetPaid
  <2>5. SettledProofs(d)' = SettledProofs(d) \cup next /\ SettledProofs(d) \cap next = {}
    <3>1. \A x \in audit[d].covered : x \in Nat
      BY <2>1, EpochsAreNaturals
    <3>2. /\ SettledProofs(d) = {x \in audit[d].covered : x <= audit[d].settledUpTo}
          /\ SettledProofs(d)' = {x \in audit[d].covered : x <= upTo}
      BY <1>5 DEF SettledProofs
    <3>3. QED BY <1>3, <2>1, <2>3, <3>1, <3>2
  <2>6. SumOver(price, SettledProofs(d)') = SumOver(price, SettledProofs(d)) + SumOver(price, next)
    <3>1. IsFiniteSet(Epochs)
      BY FS_Interval, Constants DEF Epochs, ConstantsAssumption
    <3>2. SettledProofs(d) \subseteq Epochs /\ next \subseteq Epochs
      BY <2>1 DEF SettledProofs
    <3>3. IsFiniteSet(SettledProofs(d)) /\ IsFiniteSet(next)
      BY <3>1, <3>2, FS_Subset
    <3>4. \A x \in SettledProofs(d) \cup next : price[x] \in Nat
      BY <2>1, <3>2
    <3> HIDE DEF price, next
    <3>5. QED BY <2>5, <3>3, <3>4, SumOfUnion
  <2>7. audit'[d].paid = audit[d].paid + SumOver(price, next)
    BY <2>4, <2>6
  <2>8. /\ d \in DOMAIN Accounts /\ Accounts[d] = AccountOf(d)
        /\ Accounts' = [Accounts EXCEPT ![d] = AccountOf(d)']
    BY <1>6, <1>8, AccountChanges
  <2>9. Prices' = Prices /\ Prices[d] = price
    BY <1>6, OtherAccountsStay DEF Prices
  <2>10. Payment!EarnedUntil(d, upTo) = next
    BY <2>8 DEF Payment!EarnedUntil, Accounts, AccountOf
  <2>11. Payment!Settle(d, upTo)
    <3> DEFINE sum == SumOver(price, next)
    <3>1. audit'[d].paid = audit[d].paid + sum
      BY <2>7
    <3>2. Payment!Owed(d, upTo) = sum
      BY <2>9, <2>10 DEF Payment!Owed, SumOver, Prices, MapThenSumSet, Payment!MapThenSumSet,
                         MapThenFoldSet, Payment!MapThenFoldSet
    <3> HIDE DEF sum
    <3>3. AccountOf(d)' = [earned |-> AccountOf(d).earned, settledUpTo |-> upTo,
                           paid |-> AccountOf(d).paid + sum]
      BY <1>5, <3>1 DEF AccountOf
    <3>4. Accounts' = [Accounts EXCEPT ![d] = [earned |-> Accounts[d].earned, settledUpTo |-> upTo,
                                               paid |-> Accounts[d].paid + sum]]
      <4> HIDE DEF Accounts
      <4> QED BY <2>8, <3>3
    <3>5. Accounts[d].settledUpTo <= upTo
      BY <2>3, <2>8 DEF AccountOf
    <3>6. QED BY <1>2, <2>9, <3>2, <3>4, <3>5 DEF Payment!Settle, Accounts, Prices
  <2>12. QED BY <2>3, <2>8, <2>11
<1>9. QED BY <1>7, <1>8

\* The data set that a settlement is about, if it has a validator.
LEMMA SettleRailImplements ==
  ASSUME PaymentInv, PaymentInv', NEW r \in RailIds, NEW e \in Epochs, SettleRail(r, e)
  PROVE  [Payment!Next]_<<blockNumber, Prices, Accounts>>
<1>1. railToDataSet[r] \in DataSetIds \cup {NoDataSet}
  BY DEF PaymentInv, WaitInv, OrderInv, IInv, TypeOK
<1>2. CASE railToDataSet[r] = NoDataSet
  <2>1. UNCHANGED <<audit, blockNumber>>
    BY <1>2 DEF SettleRail
  <2>2. QED BY <2>1 DEF Prices, Accounts, AccountOf, Arbitrated
<1>3. CASE railToDataSet[r] \in DataSetIds
  <2>1. PICK d \in DataSetIds : railToDataSet[r] = d
    BY <1>3
  <2>2. \/ UNCHANGED <<blockNumber, Prices, Accounts>>
        \/ /\ d \in DOMAIN Accounts
           /\ \E upTo \in FirstEpoch .. blockNumber : Payment!Settle(d, upTo)
    BY <2>1, SettlementImplements
  <2>3. QED BY <2>2 DEF Payment!Next, Accounts
<1>4. QED BY <1>1, <1>2, <1>3

\* A first start of proving leaves the account alone, a second one ends arbitration.
LEMMA StartProvingImplements ==
  ASSUME PaymentInv, NEW d \in DataSetIds, NEW c, StartProving(d, c)
  PROVE  [Payment!Next]_<<blockNumber, Prices, Accounts>>
<1>1. /\ audit' = [audit EXCEPT ![d].activations = audit[d].activations + 1]
      /\ blockNumber' = blockNumber
  BY DEF StartProving
<1>2. audit \in [DataSetIds -> AuditRecord] /\ audit[d] \in AuditRecord
  BY DEF PaymentInv
<1>3. /\ audit'[d] = [audit[d] EXCEPT !.activations = audit[d].activations + 1]
      /\ \A i \in DataSetIds : i # d => audit'[i] = audit[i]
  BY <1>1, <1>2
<1>4. /\ audit'[d].covered = audit[d].covered /\ audit'[d].rateOf = audit[d].rateOf
      /\ audit'[d].paid = audit[d].paid /\ audit'[d].settledUpTo = audit[d].settledUpTo
      /\ audit'[d].activations = audit[d].activations + 1 /\ audit'[d].waived = audit[d].waived
      /\ audit[d].activations \in Nat
  BY <1>2, <1>3 DEF AuditRecord
<1>5. OneHistoryChanges(d) /\ AccountOf(d)' = AccountOf(d)
  BY <1>1, <1>2, <1>3, <1>4 DEF OneHistoryChanges, AccountOf
<1>6. Arbitrated(d)' => Arbitrated(d)
  BY <1>4 DEF Arbitrated
<1>7. CASE Arbitrated(d)' = Arbitrated(d)
  BY <1>5, <1>7, AccountStays
<1>8. CASE Arbitrated(d) /\ ~Arbitrated(d)'
  <2>1. d \in DOMAIN Accounts /\ Payment!Leave(d)
    BY <1>5, <1>8, AccountIsLeft
  <2>2. QED BY <2>1 DEF Payment!Next, Accounts
<1>9. QED
  <2>1. Arbitrated(d) \in BOOLEAN /\ Arbitrated(d)' \in BOOLEAN
    BY DEF Arbitrated
  <2>2. QED BY <1>6, <1>7, <1>8, <2>1

\* Settlement without arbitration ends it.
LEMMA WaiverImplements ==
  ASSUME PaymentInv, NEW d \in DataSetIds, SettleTerminatedRailWithoutValidation(d)
  PROVE  [Payment!Next]_<<blockNumber, Prices, Accounts>>
<1>1. audit' = [audit EXCEPT ![d].waived = TRUE] /\ blockNumber' = blockNumber
  BY DEF SettleTerminatedRailWithoutValidation
<1>2. audit \in [DataSetIds -> AuditRecord] /\ audit[d] \in AuditRecord
  BY DEF PaymentInv
<1>3. /\ audit'[d] = [audit[d] EXCEPT !.waived = TRUE]
      /\ \A i \in DataSetIds : i # d => audit'[i] = audit[i]
  BY <1>1, <1>2
<1>4. audit'[d].rateOf = audit[d].rateOf /\ audit'[d].waived = TRUE
  BY <1>2, <1>3 DEF AuditRecord
<1>5. OneHistoryChanges(d) /\ ~Arbitrated(d)'
  BY <1>1, <1>2, <1>3, <1>4 DEF OneHistoryChanges, Arbitrated
<1>6. CASE ~Arbitrated(d)
  <2>1. Arbitrated(d)' = Arbitrated(d)
    BY <1>5, <1>6 DEF Arbitrated
  <2>2. QED BY <1>5, <1>6, <2>1, AccountStays
<1>7. CASE Arbitrated(d)
  <2>1. d \in DOMAIN Accounts /\ Payment!Leave(d)
    BY <1>5, <1>7, AccountIsLeft
  <2>2. QED BY <2>1 DEF Payment!Next, Accounts
<1>8. QED BY <1>6, <1>7

\* Time passes, and the rate that is charged for the epoch to come is its price.
LEMMA NewEpochImplements ==
  ASSUME PaymentInv, PaymentInv', NewEpoch
  PROVE  [Payment!Next]_<<blockNumber, Prices, Accounts>>
<1>1. /\ blockNumber' = blockNumber + 1
      /\ audit' = [d \in DataSetIds |->
                     [audit[d] EXCEPT !.rateOf[blockNumber + 1] = RateCharged(d, blockNumber + 1)]]
  BY DEF NewEpoch
<1>2. audit \in [DataSetIds -> AuditRecord]
  BY DEF PaymentInv
<1>3. ASSUME NEW d \in DataSetIds
      PROVE  /\ audit'[d].covered = audit[d].covered /\ audit'[d].paid = audit[d].paid
             /\ audit'[d].settledUpTo = audit[d].settledUpTo
             /\ audit'[d].activations = audit[d].activations /\ audit'[d].waived = audit[d].waived
             /\ \A e \in FirstEpoch .. MaxEpoch :
                  e # blockNumber + 1 => audit'[d].rateOf[e] = audit[d].rateOf[e]
  <2> DEFINE charge == RateCharged(d, blockNumber + 1)
             now    == blockNumber + 1
  <2>1. audit'[d] = [audit[d] EXCEPT !.rateOf[now] = charge]
    BY <1>1
  <2>2. audit[d] \in AuditRecord /\ audit[d].rateOf \in [FirstEpoch .. MaxEpoch -> Nat]
    BY <1>2 DEF AuditRecord, Epochs
  <2> HIDE DEF charge, now
  <2>3. /\ audit'[d].rateOf = [audit[d].rateOf EXCEPT ![now] = charge]
        /\ audit'[d].covered = audit[d].covered /\ audit'[d].paid = audit[d].paid
        /\ audit'[d].settledUpTo = audit[d].settledUpTo
        /\ audit'[d].activations = audit[d].activations /\ audit'[d].waived = audit[d].waived
    BY <2>1, <2>2 DEF AuditRecord
  <2>4. \A e \in FirstEpoch .. MaxEpoch : e # now => audit'[d].rateOf[e] = audit[d].rateOf[e]
    BY <2>2, <2>3
  <2>5. QED BY <2>3, <2>4 DEF now
<1>4. Accounts' = Accounts
  <2>1. \A d \in DataSetIds : Arbitrated(d)' = Arbitrated(d) /\ AccountOf(d)' = AccountOf(d)
    BY <1>3 DEF Arbitrated, AccountOf
  <2>2. {i \in DataSetIds : Arbitrated(i)'} = {i \in DataSetIds : Arbitrated(i)}
    BY <2>1
  <2>3. QED BY <2>1, <2>2 DEF Accounts
<1>5. \A d \in DataSetIds : \A e \in FirstEpoch .. MaxEpoch :
        e # blockNumber' => Prices'[d][e] = Prices[d][e]
  BY <1>1, <1>3 DEF Prices
<1>6. Prices' \in [DataSetIds -> [FirstEpoch .. MaxEpoch -> Nat]]
  <2>1. audit' \in [DataSetIds -> AuditRecord]
    BY DEF PaymentInv
  <2>2. \A d \in DataSetIds : audit'[d].rateOf \in [FirstEpoch .. MaxEpoch -> Nat]
    BY <2>1 DEF AuditRecord, Epochs
  <2>3. QED BY <2>2 DEF Prices
<1>7. Payment!NewEpoch
  BY <1>1, <1>4, <1>5, <1>6 DEF Payment!NewEpoch, Accounts, Prices
<1>8. QED BY <1>7 DEF Payment!Next

\* Any step.
LEMMA NextImplements ==
  ASSUME PaymentInv, PaymentInv', [Next]_vars
  PROVE  [Payment!Next]_<<blockNumber, Prices, Accounts>>
<1>1. CASE Quiet
  <2>1. UNCHANGED <<blockNumber, audit>>
    BY <1>1, QuietLeavesHistory
  <2>2. QED BY <2>1 DEF Prices, Accounts, AccountOf, Arbitrated
<1>2. ASSUME NEW d \in DataSetIds, PossessionProven(d)
      PROVE  [Payment!Next]_<<blockNumber, Prices, Accounts>>
  <2>1. \/ UNCHANGED <<blockNumber, Prices, Accounts>>
        \/ /\ d \in DOMAIN Accounts
           /\ \E first \in FirstEpoch .. blockNumber, last \in blockNumber .. MaxEpoch :
                Payment!Prove(d, first, last)
    BY <1>2, ProofImplements
  <2>2. QED BY <2>1 DEF Payment!Next, Accounts
<1>3. CASE \E d \in DataSetIds : \E c \in ChallengeEpochs : StartProving(d, c)
  BY <1>3, StartProvingImplements
<1>4. CASE \E r \in RailIds : \E e \in Epochs : SettleRail(r, e)
  BY <1>4, SettleRailImplements
<1>5. CASE \E d \in DataSetIds : SettleTerminatedRailWithoutValidation(d)
  BY <1>5, WaiverImplements
<1>6. CASE NewEpoch
  BY <1>6, NewEpochImplements
<1>7. QED BY <1>1, <1>2, <1>3, <1>4, <1>5, <1>6 DEF Quiet

\* The contract, with its rails, rate changes, periods, deadlines and bitmaps, implements
\* payment with arbitration, for any number of clients, data sets, epochs and prices, as
\* long as the owner leaves the length of the proving periods alone.
THEOREM ServiceImplementsArbitratedPayment ==
  ASSUME OnePeriodLength
  PROVE  Spec => ImplementsArbitratedPayment
<1>1. Init => PaymentInv
  BY InitPayment
<1>2. PaymentInv /\ [Next]_vars => PaymentInv'
  BY NextPayment
<1>3. Init => Payment!Init
  <2> SUFFICES ASSUME Init PROVE Payment!Init
    OBVIOUS
  <2>1. blockNumber = FirstEpoch /\ audit = [d \in DataSetIds |-> NoAudit]
    BY DEF Init
  <2>2. \A d \in DataSetIds : /\ Arbitrated(d) /\ AccountOf(d) = Payment!NothingEarned
                              /\ audit[d].rateOf = [e \in FirstEpoch .. MaxEpoch |-> 0]
    <3>1. ASSUME NEW d \in DataSetIds
          PROVE  /\ audit[d].covered = {} /\ audit[d].settledUpTo = 0 /\ audit[d].paid = 0
                 /\ audit[d].activations = 0 /\ audit[d].waived = FALSE
                 /\ audit[d].rateOf = [e \in FirstEpoch .. MaxEpoch |-> 0]
      <4>1. audit[d] = NoAudit
        BY <2>1
      <4>2. QED BY <4>1 DEF NoAudit, Epochs
    <3>2. ASSUME NEW d \in DataSetIds PROVE AccountOf(d) = Payment!NothingEarned
      BY <3>1 DEF AccountOf, Payment!NothingEarned
    <3>3. ASSUME NEW d \in DataSetIds PROVE Arbitrated(d)
      <4>1. ~audit[d].waived
        BY <3>1, Zenon
      <4>2. audit[d].activations <= 1
        <5>1. audit[d].activations = 0
          BY <3>1, Zenon
        <5>2. QED BY <5>1
      <4>3. QED BY <4>1, <4>2 DEF Arbitrated
    <3>4. QED BY <3>1, <3>2, <3>3
  <2>3. Accounts = [d \in DataSetIds |-> Payment!NothingEarned]
    BY <2>2 DEF Accounts
  <2>4. Prices = [d \in DataSetIds |-> [e \in FirstEpoch .. MaxEpoch |-> 0]]
    BY <2>2 DEF Prices
  <2>5. QED BY <2>1, <2>3, <2>4 DEF Payment!Init, Accounts, Prices
<1>4. PaymentInv /\ PaymentInv' /\ [Next]_vars => [Payment!Next]_<<blockNumber, Prices, Accounts>>
  BY NextImplements
<1>5. QED
  BY <1>1, <1>2, <1>3, <1>4, PTL
     DEF Spec, ImplementsArbitratedPayment, Payment!Spec, Accounts, Prices

-----------------------------------------------------------------------------
(***************************************************************************)
(* Part 5.  What ArbitratedPayment promises, so what the contract keeps.   *)
(***************************************************************************)

\* The epochs of an account that are earned and settled.
PaidEpochs(acc) == {e \in acc.earned : e <= acc.settledUpTo}

\* An account at epoch n, if these are the prices.
AccountKept(acc, prices, n) ==
  /\ acc \in [earned : SUBSET Epochs, settledUpTo : Nat, paid : Nat]
  /\ acc.settledUpTo <= n
  /\ acc.paid = SumOver(prices, PaidEpochs(acc))

PromiseInv ==
  /\ blockNumber \in Nat
  /\ Prices \in [DataSetIds -> [Epochs -> Nat]]
  /\ \A d \in DOMAIN Accounts : d \in DataSetIds /\ AccountKept(Accounts[d], Prices[d], blockNumber)

\* An account moves from acc to next, and the prices of its data set with it.
SettledStays(acc, next, prices, nextPrices) ==
  /\ acc.settledUpTo <= next.settledUpTo
  /\ \A e \in Epochs : e <= acc.settledUpTo =>
       /\ nextPrices[e] = prices[e]
       /\ e \in next.earned <=> e \in acc.earned

\* A step keeps what was promised to account d.
PromiseKept(d) ==
  /\ AccountKept(Accounts'[d], Prices'[d], blockNumber')
  /\ SettledStays(Accounts[d], Accounts'[d], Prices[d], Prices'[d])

\* Nothing happens to the account, and settled epochs keep their prices.
LEMMA AccountUntouched ==
  ASSUME NEW n \in Nat, NEW m \in Nat, n <= m, NEW acc,
         NEW prices \in [Epochs -> Nat], NEW nextPrices \in [Epochs -> Nat],
         AccountKept(acc, prices, n),
         \A e \in Epochs : e <= acc.settledUpTo => nextPrices[e] = prices[e]
  PROVE  AccountKept(acc, nextPrices, m) /\ SettledStays(acc, acc, prices, nextPrices)
<1>1. /\ acc \in [earned : SUBSET Epochs, settledUpTo : Nat, paid : Nat]
      /\ acc.settledUpTo <= n /\ acc.settledUpTo \in Nat
      /\ acc.paid = SumOver(prices, PaidEpochs(acc))
  BY DEF AccountKept
<1>2. PaidEpochs(acc) \subseteq Epochs /\ IsFiniteSet(PaidEpochs(acc))
  <2>1. IsFiniteSet(Epochs)
    BY FS_Interval, Constants DEF Epochs, ConstantsAssumption
  <2>2. PaidEpochs(acc) \subseteq Epochs
    BY <1>1 DEF PaidEpochs
  <2>3. QED BY <2>1, <2>2, FS_Subset
<1>3. \A e \in PaidEpochs(acc) : prices[e] \in Nat /\ nextPrices[e] = prices[e]
  BY <1>2 DEF PaidEpochs
<1>4. SumOver(nextPrices, PaidEpochs(acc)) = SumOver(prices, PaidEpochs(acc))
  BY <1>2, <1>3, SumsAgree
<1>5. acc.settledUpTo <= m
  BY <1>1
<1>6. QED BY <1>1, <1>4, <1>5 DEF AccountKept, SettledStays

\* More epochs are earned, none of them settled.
LEMMA EarningKeepsPromise ==
  ASSUME NEW n \in Nat, NEW acc, NEW next, NEW prices, NEW added \in SUBSET Epochs,
         AccountKept(acc, prices, n), \A e \in added : e > acc.settledUpTo,
         next = [acc EXCEPT !.earned = acc.earned \cup added]
  PROVE  AccountKept(next, prices, n) /\ SettledStays(acc, next, prices, prices)
<1>1. /\ acc \in [earned : SUBSET Epochs, settledUpTo : Nat, paid : Nat]
      /\ acc.settledUpTo <= n /\ acc.settledUpTo \in Nat
      /\ acc.paid = SumOver(prices, PaidEpochs(acc))
  BY DEF AccountKept
<1>2. /\ next \in [earned : SUBSET Epochs, settledUpTo : Nat, paid : Nat]
      /\ next.earned = acc.earned \cup added
      /\ next.settledUpTo = acc.settledUpTo /\ next.paid = acc.paid
  BY <1>1
<1>3. \A e \in Epochs : e <= acc.settledUpTo => e \notin added
  BY <1>1, EpochsAreNaturals
<1>4. PaidEpochs(next) = PaidEpochs(acc)
  BY <1>1, <1>2, <1>3 DEF PaidEpochs
<1>5. AccountKept(next, prices, n)
  BY <1>1, <1>2, <1>4 DEF AccountKept
<1>6. SettledStays(acc, next, prices, prices)
  BY <1>1, <1>2, <1>3 DEF SettledStays
<1>7. QED BY <1>5, <1>6

\* Settlement moves on and pays for the earned epochs it passes.
LEMMA SettlingKeepsPromise ==
  ASSUME NEW n \in Nat, NEW acc, NEW next, NEW prices \in [Epochs -> Nat], NEW upTo \in Nat,
         acc.settledUpTo <= upTo, upTo <= n, AccountKept(acc, prices, n),
         next = [earned      |-> acc.earned,
                 settledUpTo |-> upTo,
                 paid        |-> acc.paid + SumOver(prices, {e \in acc.earned :
                                                   acc.settledUpTo < e /\ e <= upTo})]
  PROVE  AccountKept(next, prices, n) /\ SettledStays(acc, next, prices, prices)
<1> DEFINE passed == {e \in acc.earned : acc.settledUpTo < e /\ e <= upTo}
<1>1. /\ acc \in [earned : SUBSET Epochs, settledUpTo : Nat, paid : Nat]
      /\ acc.settledUpTo <= n /\ acc.settledUpTo \in Nat /\ acc.paid \in Nat
      /\ acc.earned \subseteq Epochs /\ acc.paid = SumOver(prices, PaidEpochs(acc))
  BY DEF AccountKept
<1>2. next.earned = acc.earned /\ next.settledUpTo = upTo /\ next.paid = acc.paid + SumOver(prices, passed)
  OBVIOUS
<1>3. PaidEpochs(next) = PaidEpochs(acc) \cup passed /\ PaidEpochs(acc) \cap passed = {}
  <2>1. \A e \in acc.earned : e \in Nat
    BY <1>1, EpochsAreNaturals
  <2>2. QED BY <1>1, <1>2, <2>1 DEF PaidEpochs
<1>4. /\ passed \subseteq Epochs /\ PaidEpochs(acc) \subseteq Epochs
      /\ IsFiniteSet(passed) /\ IsFiniteSet(PaidEpochs(acc))
  <2>1. IsFiniteSet(Epochs)
    BY FS_Interval, Constants DEF Epochs, ConstantsAssumption
  <2>2. passed \subseteq Epochs /\ PaidEpochs(acc) \subseteq Epochs
    BY <1>1 DEF PaidEpochs
  <2>3. QED BY <2>1, <2>2, FS_Subset
<1> HIDE DEF passed
<1>5. /\ SumOver(prices, PaidEpochs(next)) = SumOver(prices, PaidEpochs(acc)) + SumOver(prices, passed)
      /\ SumOver(prices, passed) \in Nat
  <2> DEFINE paid == PaidEpochs(acc)
  <2>1. \A e \in paid \cup passed : prices[e] \in Nat
    BY <1>4
  <2>2. IsFiniteSet(paid) /\ IsFiniteSet(passed) /\ paid \cap passed = {}
    BY <1>3, <1>4
  <2> HIDE DEF paid
  <2>3. SumOver(prices, paid \cup passed) = SumOver(prices, paid) + SumOver(prices, passed)
    BY <2>1, <2>2, SumOfUnion
  <2>4. SumOver(prices, passed) \in Nat
    BY <2>1, <2>2, SumIsNatural
  <2>5. QED BY <1>3, <2>3, <2>4 DEF paid
<1>6. next \in [earned : SUBSET Epochs, settledUpTo : Nat, paid : Nat]
  BY <1>1, <1>5 DEF passed
<1>7. next.paid = SumOver(prices, PaidEpochs(next))
  BY <1>1, <1>2, <1>5
<1>8. AccountKept(next, prices, n)
  BY <1>2, <1>6, <1>7 DEF AccountKept
<1>9. QED BY <1>2, <1>8 DEF SettledStays

\* One step of ArbitratedPayment: what it leaves of the accounts keeps the promise.
LEMMA AbstractStepKeepsPromise ==
  ASSUME PromiseInv, [Payment!Next]_<<blockNumber, Prices, Accounts>>
  PROVE  /\ blockNumber' \in Nat /\ Prices' \in [DataSetIds -> [Epochs -> Nat]]
         /\ DOMAIN Accounts' \subseteq DOMAIN Accounts
         /\ \A d \in DOMAIN Accounts' : PromiseKept(d)
<1>1. /\ blockNumber \in Nat /\ blockNumber + 1 \in Nat /\ blockNumber <= blockNumber + 1
      /\ Prices \in [DataSetIds -> [Epochs -> Nat]]
      /\ \A d \in DOMAIN Accounts : /\ d \in DataSetIds /\ Prices[d] \in [Epochs -> Nat]
                                    /\ AccountKept(Accounts[d], Prices[d], blockNumber)
  BY DEF PromiseInv
<1> DEFINE Stays(d) == Accounts'[d] = Accounts[d] /\ Prices'[d] = Prices[d] /\ blockNumber' = blockNumber
<1>2. ASSUME NEW d \in DOMAIN Accounts, Stays(d) PROVE PromiseKept(d)
  <2>1. /\ AccountKept(Accounts[d], Prices[d], blockNumber)
        /\ SettledStays(Accounts[d], Accounts[d], Prices[d], Prices[d])
    BY <1>1, AccountUntouched
  <2>2. QED BY <1>2, <2>1 DEF PromiseKept
<1> HIDE DEF Stays
<1>3. CASE UNCHANGED <<blockNumber, Prices, Accounts>>
  <2>1. blockNumber' = blockNumber /\ Prices' = Prices /\ Accounts' = Accounts
    BY <1>3
  <2>2. QED BY <1>1, <1>2, <2>1 DEF Stays
<1>4. CASE Payment!NewEpoch
  <2>1. /\ blockNumber' = blockNumber + 1 /\ Accounts' = Accounts
        /\ Prices' \in [DataSetIds -> [Epochs -> Nat]]
        /\ \A d \in DataSetIds : \A e \in Epochs : e # blockNumber' => Prices'[d][e] = Prices[d][e]
    BY <1>4 DEF Payment!NewEpoch, Accounts, Prices, Epochs
  <2>2. ASSUME NEW d \in DOMAIN Accounts PROVE PromiseKept(d)
    <3>1. \A e \in Epochs : e <= Accounts[d].settledUpTo => Prices'[d][e] = Prices[d][e]
      <4>1. Accounts[d].settledUpTo <= blockNumber /\ Accounts[d].settledUpTo \in Nat
        BY <1>1 DEF AccountKept
      <4>2. \A e \in Epochs : e \in Nat
        BY EpochsAreNaturals
      <4>3. QED BY <1>1, <2>1, <4>1, <4>2
    <3>2. Prices'[d] \in [Epochs -> Nat]
      BY <1>1, <2>1
    <3>3. /\ AccountKept(Accounts[d], Prices'[d], blockNumber + 1)
          /\ SettledStays(Accounts[d], Accounts[d], Prices[d], Prices'[d])
      BY <1>1, <3>1, <3>2, AccountUntouched
    <3>4. QED BY <2>1, <3>3 DEF PromiseKept
  <2>3. QED BY <1>1, <2>1, <2>2
<1>5. ASSUME NEW d \in DOMAIN Accounts,
             NEW first \in FirstEpoch .. blockNumber, NEW last \in blockNumber .. MaxEpoch,
             Payment!Prove(d, first, last)
      PROVE  /\ blockNumber' = blockNumber /\ Prices' = Prices /\ DOMAIN Accounts' = DOMAIN Accounts
             /\ \A i \in DOMAIN Accounts : PromiseKept(i)
  <2> DEFINE added == (first .. last) \ Accounts[d].earned
  <2>1. /\ \A e \in added : e > Accounts[d].settledUpTo
        /\ Accounts' = [Accounts EXCEPT ![d].earned = Accounts[d].earned \cup added]
        /\ blockNumber' = blockNumber /\ Prices' = Prices
    BY <1>5 DEF Payment!Prove, Accounts, Prices
  <2>2. added \in SUBSET Epochs
    BY <1>1, Constants DEF Epochs, ConstantsAssumption
  <2> HIDE DEF added
  <2>3. /\ DOMAIN Accounts' = DOMAIN Accounts
        /\ Accounts'[d] = [Accounts[d] EXCEPT !.earned = Accounts[d].earned \cup added]
        /\ \A i \in DOMAIN Accounts : i # d => Accounts'[i] = Accounts[i]
    BY <2>1
  <2>4. PromiseKept(d)
    <3>1. /\ AccountKept(Accounts'[d], Prices[d], blockNumber)
          /\ SettledStays(Accounts[d], Accounts'[d], Prices[d], Prices[d])
      BY <1>1, <2>1, <2>2, <2>3, EarningKeepsPromise
    <3>2. QED BY <2>1, <3>1 DEF PromiseKept
  <2>5. QED BY <1>2, <2>1, <2>3, <2>4 DEF Stays
<1>6. ASSUME NEW d \in DOMAIN Accounts, NEW upTo \in FirstEpoch .. blockNumber, Payment!Settle(d, upTo)
      PROVE  /\ blockNumber' = blockNumber /\ Prices' = Prices /\ DOMAIN Accounts' = DOMAIN Accounts
             /\ \A i \in DOMAIN Accounts : PromiseKept(i)
  <2> DEFINE passed == {e \in Accounts[d].earned : Accounts[d].settledUpTo < e /\ e <= upTo}
             next   == [earned |-> Accounts[d].earned, settledUpTo |-> upTo,
                        paid |-> Accounts[d].paid + SumOver(Prices[d], passed)]
  <2>1. Payment!EarnedUntil(d, upTo) = passed
    BY DEF Payment!EarnedUntil, Accounts
  <2>2. Payment!Owed(d, upTo) = SumOver(Prices[d], passed)
    BY <2>1 DEF Payment!Owed, SumOver, Prices, MapThenSumSet, Payment!MapThenSumSet,
                MapThenFoldSet, Payment!MapThenFoldSet
  <2>3. /\ Accounts[d].settledUpTo <= upTo
        /\ Accounts' = [Accounts EXCEPT ![d] = [earned |-> Accounts[d].earned, settledUpTo |-> upTo,
                                                paid |-> Accounts[d].paid + Payment!Owed(d, upTo)]]
        /\ blockNumber' = blockNumber /\ Prices' = Prices
    BY <1>6 DEF Payment!Settle, Accounts, Prices
  <2>4. /\ DOMAIN Accounts' = DOMAIN Accounts /\ Accounts'[d] = next
        /\ \A i \in DOMAIN Accounts : i # d => Accounts'[i] = Accounts[i]
    BY <2>2, <2>3
  <2>5. upTo \in Nat /\ upTo <= blockNumber
    BY <1>1, Constants DEF ConstantsAssumption
  <2>6. PromiseKept(d)
    <3>1. /\ AccountKept(next, Prices[d], blockNumber)
          /\ SettledStays(Accounts[d], next, Prices[d], Prices[d])
      BY <1>1, <2>3, <2>5, SettlingKeepsPromise
    <3> HIDE DEF next
    <3>2. QED BY <2>3, <2>4, <3>1 DEF PromiseKept
  <2>7. QED BY <1>2, <2>3, <2>4, <2>6 DEF Stays
<1>7. ASSUME NEW d \in DOMAIN Accounts, Payment!Leave(d)
      PROVE  /\ blockNumber' = blockNumber /\ Prices' = Prices
             /\ DOMAIN Accounts' \subseteq DOMAIN Accounts
             /\ \A i \in DOMAIN Accounts' : PromiseKept(i)
  <2>1. /\ Accounts' = [other \in (DOMAIN Accounts) \ {d} |-> Accounts[other]]
        /\ blockNumber' = blockNumber /\ Prices' = Prices
    BY <1>7 DEF Payment!Leave, Accounts, Prices
  <2>2. /\ DOMAIN Accounts' \subseteq DOMAIN Accounts
        /\ \A i \in DOMAIN Accounts' : Accounts'[i] = Accounts[i]
    BY <2>1
  <2>3. QED BY <1>2, <2>1, <2>2 DEF Stays
<1>8. CASE Payment!Next
  <2>1. \/ Payment!NewEpoch
        \/ \E d \in DOMAIN Accounts :
             \/ \E first \in FirstEpoch .. blockNumber, last \in blockNumber .. MaxEpoch :
                  Payment!Prove(d, first, last)
             \/ \E upTo \in FirstEpoch .. blockNumber : Payment!Settle(d, upTo)
             \/ Payment!Leave(d)
    BY <1>8 DEF Payment!Next, Accounts
  <2>2. QED BY <1>1, <1>4, <1>5, <1>6, <1>7, <2>1
<1>9. QED BY <1>3, <1>8

\* Payment with arbitration pays for the earned epochs, each at its own price and once,
\* and what it settled is final, for any number of data sets and epochs and any prices.
THEOREM ArbitratedPaymentKeepsItsPromise ==
  Payment!Spec => []Payment!PaidForTheEarned /\ Payment!SettledForGood
<1>1. Payment!Init => PromiseInv
  <2> SUFFICES ASSUME Payment!Init PROVE PromiseInv
    OBVIOUS
  <2>1. /\ blockNumber = FirstEpoch
        /\ Prices = [d \in DataSetIds |-> [e \in FirstEpoch .. MaxEpoch |-> 0]]
        /\ Accounts = [d \in DataSetIds |-> Payment!NothingEarned]
    BY DEF Payment!Init, Accounts, Prices
  <2>2. FirstEpoch \in Nat
    BY Constants DEF ConstantsAssumption
  <2>3. Prices \in [DataSetIds -> [Epochs -> Nat]]
    BY <2>1 DEF Epochs
  <2>4. \A prices : AccountKept(Payment!NothingEarned, prices, FirstEpoch)
    <3>1. PaidEpochs(Payment!NothingEarned) = {}
      BY DEF PaidEpochs, Payment!NothingEarned
    <3>2. QED BY <2>2, <3>1, SumOfNothing DEF AccountKept, Payment!NothingEarned
  <2>5. QED BY <2>1, <2>2, <2>3, <2>4 DEF PromiseInv
<1>2. PromiseInv /\ [Payment!Next]_<<blockNumber, Prices, Accounts>> => PromiseInv'
  <2> SUFFICES ASSUME PromiseInv, [Payment!Next]_<<blockNumber, Prices, Accounts>> PROVE PromiseInv'
    OBVIOUS
  <2>1. /\ blockNumber' \in Nat /\ Prices' \in [DataSetIds -> [Epochs -> Nat]]
        /\ DOMAIN Accounts' \subseteq DOMAIN Accounts
        /\ \A d \in DOMAIN Accounts' : PromiseKept(d)
    BY AbstractStepKeepsPromise
  <2>2. \A d \in DOMAIN Accounts : d \in DataSetIds
    BY DEF PromiseInv
  <2>3. \A d \in DOMAIN Accounts' : /\ d \in DataSetIds
                                    /\ AccountKept(Accounts'[d], Prices'[d], blockNumber')
    BY <2>1, <2>2 DEF PromiseKept
  <2>4. QED BY <2>1, <2>3 DEF PromiseInv
<1>3. PromiseInv => Payment!PaidForTheEarned
  <2> SUFFICES ASSUME PromiseInv, NEW d \in DOMAIN Accounts
               PROVE  /\ Accounts[d].settledUpTo <= blockNumber
                      /\ Accounts[d].paid = SumOver(Prices[d], PaidEpochs(Accounts[d]))
    BY DEF Payment!PaidForTheEarned, SumOver, PaidEpochs, Accounts, Prices, MapThenSumSet,
           Payment!MapThenSumSet, MapThenFoldSet, Payment!MapThenFoldSet
  <2>1. QED BY DEF PromiseInv, AccountKept
<1>4. PromiseInv /\ [Payment!Next]_<<blockNumber, Prices, Accounts>>
        => \A d \in (DOMAIN Accounts) \cap (DOMAIN Accounts') :
             SettledStays(Accounts[d], Accounts'[d], Prices[d], Prices'[d])
  BY AbstractStepKeepsPromise DEF PromiseKept
<1>5. (\A d \in (DOMAIN Accounts) \cap (DOMAIN Accounts') :
         SettledStays(Accounts[d], Accounts'[d], Prices[d], Prices'[d]))
        => \A d \in (DOMAIN Accounts) \cap (DOMAIN Accounts') :
             /\ Accounts[d].settledUpTo <= Accounts'[d].settledUpTo
             /\ \A e \in FirstEpoch .. MaxEpoch : e <= Accounts[d].settledUpTo =>
                  /\ Prices'[d][e] = Prices[d][e]
                  /\ e \in Accounts'[d].earned <=> e \in Accounts[d].earned
  BY DEF SettledStays, Epochs
<1>6. QED
  BY <1>1, <1>2, <1>3, <1>4, <1>5, PTL
     DEF Payment!Spec, Payment!SettledForGood, Accounts, Prices

\* The contract keeps that promise to client and provider: at any time a data set under
\* arbitration has been paid for the earned epochs up to its last settlement, each at the
\* price fixed when it began; settlement does not go back, no settled epoch changes its
\* price, and none is earned late.
THEOREM SettlementIsFinal ==
  ASSUME OnePeriodLength
  PROVE  Spec => []Payment!PaidForTheEarned /\ Payment!SettledForGood
BY ServiceImplementsArbitratedPayment, ArbitratedPaymentKeepsItsPromise, PTL
   DEF ImplementsArbitratedPayment
=============================================================================
