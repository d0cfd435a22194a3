--------------------------- MODULE ProvingPeriods ---------------------------
(***************************************************************************)
(* The arithmetic of proving periods and of payment arbitration: the pure  *)
(* functions of FilecoinWarmStorageService that map epochs to periods,     *)
(* periods to deadlines, and a settlement range to the epochs that are     *)
(* paid and the epoch up to which the rail may be settled.                 *)
(*                                                                         *)
(* With activation A and period length M, period n covers the epochs       *)
(* (A + n*M, A + (n+1)*M] and its deadline is its last epoch.              *)
(***************************************************************************)
EXTENDS Integers, FiniteSets, FiniteSetsExt

\* type(uint256).max, the answer for an epoch that belongs to no period.  No
\* period of a running contract comes near it, so it only has to differ from
\* every natural number.
NoPeriod == -1

\* provingActivationEpoch of a data set whose proving never started.
NeverActivated == 0

\* Defect: the deadline epoch counted to the next period.
InclusiveExclusivePeriods(activationEpoch, epoch, periodLength) ==
  IF activationEpoch = NeverActivated \/ epoch <= activationEpoch
  THEN NoPeriod
  ELSE (epoch - activationEpoch) \div periodLength

\* The period an epoch belongs to.
ProvingPeriodForEpoch(activationEpoch, epoch, periodLength) ==
  IF activationEpoch = NeverActivated \/ epoch <= activationEpoch
  THEN NoPeriod
  ELSE (epoch - activationEpoch - 1) \div periodLength

\* The last epoch of a period, which is the last at which its proof is taken.
CalcPeriodDeadline(activationEpoch, periodId, periodLength) ==
  activationEpoch + (periodId + 1) * periodLength

\* Defect: the first period of a range counted whole.
WholePeriodCounted(activationEpoch, periodId, periodLength, fromEpoch, toEpoch) ==
  LET deadline == CalcPeriodDeadline(activationEpoch, periodId, periodLength)
  IN  deadline - periodLength + 1 .. Min({toEpoch, deadline})

\* The epochs of a period that lie in the range (fromEpoch, toEpoch].
EpochsOfPeriodWithin(activationEpoch, periodId, periodLength, fromEpoch, toEpoch) ==
  LET deadline == CalcPeriodDeadline(activationEpoch, periodId, periodLength)
  IN  Max({deadline - periodLength, fromEpoch}) + 1 .. Min({toEpoch, deadline})

\* Defect: a period faulted while its proof can still be submitted.
FaultedAtDeadline(deadline, now) == deadline <= now

\* Defect: missed proofs never resolved.
NeverFaulted(deadline, now) == FALSE

\* The deadline of a period without a proof has passed.
DeadlinePassed(deadline, now) == deadline < now

\* What arbitration answers when the call reverts: the range ends before
\* activation or in the future (InvalidEpochRange), or it ends at the activation
\* epoch itself, where endingPeriod is type(uint256).max and the loop over the
\* periods runs out of gas.
Reverted(fromEpoch) == [ok |-> FALSE, count |-> 0, settleUpTo |-> fromEpoch]

\* The epochs of (fromEpoch, toEpoch] covered by a proof, and how far settlement
\* may advance.  Every period that meets the range is proven, faulted (its
\* deadline has passed without a proof) or open; the last proven or faulted one
\* decides settleUpTo, the proven ones are counted.
FindProvenEpochs(proven, fromEpoch, toEpoch, activationEpoch, periodLength, now) ==
  LET from     == Max({fromEpoch, activationEpoch})
      deadline(p) == CalcPeriodDeadline(activationEpoch, p, periodLength)
      periods  == ProvingPeriodForEpoch(activationEpoch, from + 1, periodLength)
                    .. ProvingPeriodForEpoch(activationEpoch, toEpoch, periodLength)
      resolved == {p \in periods : p \in proven \/ DeadlinePassed(deadline(p), now)}
      epochs   == UNION {EpochsOfPeriodWithin(activationEpoch, p, periodLength, from, toEpoch)
                           : p \in periods \cap proven}
  IN  IF toEpoch > activationEpoch /\ toEpoch <= now
      THEN [ok         |-> TRUE,
            count      |-> Cardinality(epochs),
            settleUpTo |-> Max({from} \cup {Min({toEpoch, deadline(p)}) : p \in resolved})]
      ELSE Reverted(fromEpoch)

\* Defect: the whole amount for a range with any proof in it.
PaidInFull(amount, count, epochs) == IF count > 0 THEN amount ELSE 0

\* The share of an amount that count of the epochs earn.
Prorated(amount, count, epochs) == (amount * count) \div epochs

\* The validator's answer to FilecoinPay for the range (fromEpoch, toEpoch] at a
\* rate: nothing while proving was never activated, else the share of the
\* proposed amount that the proven epochs earn.
ValidatePayment(proven, fromEpoch, toEpoch, rate, activationEpoch, periodLength, now) ==
  LET found    == FindProvenEpochs(proven, fromEpoch, toEpoch, activationEpoch, periodLength, now)
      epochs   == toEpoch - fromEpoch
  IN  IF activationEpoch = NeverActivated
      THEN [ok |-> TRUE, modifiedAmount |-> 0, settleUpTo |-> fromEpoch]
      ELSE [ok             |-> found.ok,
            modifiedAmount |-> Prorated(rate * epochs, found.count, epochs),
            settleUpTo     |-> found.settleUpTo]
=============================================================================
