-------------------------- MODULE ProvenEpochsLoop --------------------------
(***************************************************************************)
(* _findProvenEpochs as the contract computes it: a loop over the periods  *)
(* that meet (fromEpoch, toEpoch], one iteration per step, with its        *)
(* running deadline, count and settleUpTo.  ProvingPeriods!FindProvenEpochs*)
(* states the same result without a loop; the main module uses that form.  *)
(***************************************************************************)
EXTENDS ProvingPeriods

CONSTANTS MaxEpoch,        \* bound: last epoch of an input
          MaxPeriodLength  \* bound: maxProvingPeriod of an input

ASSUME LoopConstants == MaxEpoch \in Nat \ {0} /\ MaxPeriodLength \in Nat \ {0}

VARIABLES
  input,       \* the arguments, and the contract state the function reads
  fromEpoch,   \* the argument, clamped up to the activation epoch
  period, deadline, provenEpochCount, settleUpTo,
  pc           \* "loop" or "returned"

vars == <<input, fromEpoch, period, deadline, provenEpochCount, settleUpTo, pc>>

EndingPeriod == ProvingPeriodForEpoch(input.activationEpoch, input.toEpoch, input.periodLength)

\* Ranges FilecoinPay asks about after activation; proofs exist only for periods
\* that have begun.
Inputs ==
  {i \in [fromEpoch : 0 .. MaxEpoch, toEpoch : 1 .. MaxEpoch, activationEpoch : 1 .. MaxEpoch,
          periodLength : 1 .. MaxPeriodLength, now : 1 .. MaxEpoch,
          proven : SUBSET (0 .. MaxEpoch)] :
     /\ i.fromEpoch < i.toEpoch /\ i.activationEpoch < i.toEpoch /\ i.toEpoch <= i.now
     /\ \A p \in i.proven : i.activationEpoch + p * i.periodLength < i.now}

Init ==
  /\ input \in Inputs
  /\ fromEpoch = Max({input.fromEpoch, input.activationEpoch})
  /\ period = ProvingPeriodForEpoch(input.activationEpoch, fromEpoch + 1, input.periodLength)
  /\ deadline = CalcPeriodDeadline(input.activationEpoch, period, input.periodLength)
  /\ provenEpochCount = 0
  /\ settleUpTo = fromEpoch
  /\ pc = "loop"

\* Defects: a period faulted while its proof can still be submitted, or still open
\* after it cannot.
FaultedFromItsDeadline == period \notin input.proven /\ deadline <= input.now
FaultedAnEpochLate == period \notin input.proven /\ deadline + 1 < input.now

IsProven == period \in input.proven
IsFaulted == ~IsProven /\ deadline < input.now

CountPeriod ==
  /\ IsProven
  /\ settleUpTo' = Min({input.toEpoch, deadline})
  /\ provenEpochCount' =
       provenEpochCount + settleUpTo' - Max({deadline - input.periodLength, fromEpoch})

SkipFaultedPeriod ==
  /\ IsFaulted
  /\ settleUpTo' = Min({input.toEpoch, deadline})
  /\ UNCHANGED provenEpochCount

LeaveOpenPeriod ==
  /\ ~IsProven /\ ~IsFaulted
  /\ UNCHANGED <<settleUpTo, provenEpochCount>>

Iterate ==
  /\ pc = "loop" /\ period <= EndingPeriod
  /\ CountPeriod \/ SkipFaultedPeriod \/ LeaveOpenPeriod
  /\ period' = period + 1
  /\ deadline' = deadline + input.periodLength
  /\ UNCHANGED <<input, fromEpoch, pc>>

Return ==
  /\ pc = "loop" /\ period > EndingPeriod
  /\ pc' = "returned"
  /\ UNCHANGED <<input, fromEpoch, period, deadline, provenEpochCount, settleUpTo>>

Next == Iterate \/ Return

Spec == Init /\ [][Next]_vars

-----------------------------------------------------------------------------

\* What the loop returns is what the closed form says, for every range, activation,
\* period length and set of proofs.
LoopComputesFindProvenEpochs ==
  pc = "returned" =>
    FindProvenEpochs(input.proven, input.fromEpoch, input.toEpoch, input.activationEpoch,
                     input.periodLength, input.now)
      = [ok |-> TRUE, count |-> provenEpochCount, settleUpTo |-> settleUpTo]

\* The reference definition: an epoch is paid iff its period is proven, and
\* settlement stops before the first epoch whose period is open.
LoopMeetsTheSettlementRules ==
  LET epochs    == input.fromEpoch + 1 .. input.toEpoch
      periodOf(e) == ProvingPeriodForEpoch(input.activationEpoch, e, input.periodLength)
      billable  == {e \in epochs : e > input.activationEpoch}
      open      == {e \in billable :
                      /\ periodOf(e) \notin input.proven
                      /\ CalcPeriodDeadline(input.activationEpoch, periodOf(e), input.periodLength)
                           >= input.now}
  IN  pc = "returned" =>
        /\ provenEpochCount = Cardinality({e \in billable : periodOf(e) \in input.proven})
        /\ settleUpTo = IF open = {} THEN input.toEpoch ELSE Min(open) - 1

\* _findProvenEpochs: "only the last period in the range can be open".
OnlyTheLastPeriodCanBeOpen ==
  pc = "loop" /\ period < EndingPeriod => IsProven \/ IsFaulted
=============================================================================
