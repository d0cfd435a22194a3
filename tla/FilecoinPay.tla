----------------------------- MODULE FilecoinPay -----------------------------
(***************************************************************************)
(* The payment rails of FilecoinPayV1, a contract outside this repository, *)
(* as far as FilecoinWarmStorageService relies on it.  A rail pays a rate  *)
(* per epoch from a payer; rate changes are queued until they are settled; *)
(* a terminated rail runs until endEpoch and is finalized (zeroed, so that *)
(* getRail reverts) once settled up to it.                                 *)
(*                                                                         *)
(* The module is a collection of operators on one rail record: the calls   *)
(* are synchronous, so they are steps of the contract that makes them.     *)
(***************************************************************************)
EXTENDS Integers, Sequences, FiniteSets, FiniteSetsExt

CONSTANTS
  LockupPeriod,   \* epochs a terminated rail keeps running
  Payers          \* the clients rails are paid by

ASSUME LockupPeriodAssumption == LockupPeriod \in Nat \ {0}

NotEnded == 0           \* endEpoch of a rail that was not terminated

\* An old rate and the last epoch it applies to.
RateChange == [rate : Nat, untilEpoch : Nat]

NoPayer == "none"

Rail == [status : {"none", "active", "finalized"}, payer : Payers \cup {NoPayer},
         rate : Nat, settledUpTo : Nat, endEpoch : Nat,
         lockupFixed : Nat, rateChangeQueue : Seq(RateChange)]

NoRail == [status |-> "none", payer |-> NoPayer, rate |-> 0, settledUpTo |-> 0, endEpoch |-> NotEnded,
           lockupFixed |-> 0, rateChangeQueue |-> << >>]

FinalizedRail == [NoRail EXCEPT !.status = "finalized"]

\* createRail followed by modifyRailLockup.
NewRail(payer, now, lockupFixed) ==
  [NoRail EXCEPT !.status = "active", !.payer = payer, !.settledUpTo = now, !.lockupFixed = lockupFixed]

IsRunning(rail) == rail.status = "active" /\ rail.endEpoch = NotEnded

(***************************************************************************)
(* modifyRailPayment.                                                      *)
(***************************************************************************)

\* The rate of a running rail changes only while its payer is solvent; that of
\* a terminated one only downwards and before its end.
CanSetRate(rail, newRate, now, payerSolvent) ==
  /\ rail.status = "active"
  /\ IF rail.endEpoch = NotEnded
     THEN newRate = rail.rate \/ payerSolvent
     ELSE now < rail.endEpoch /\ newRate <= rail.rate

\* The old rate is queued up to the current epoch, unless nothing was due at it.
SetRate(rail, newRate, now) ==
  LET queue  == rail.rateChangeQueue
      queued == queue # << >> /\ queue[Len(queue)].untilEpoch = now
  IN  IF newRate = rail.rate \/ rail.settledUpTo = now \/ queued
      THEN [rail EXCEPT !.rate = newRate]
      ELSE IF rail.rate = 0 /\ queue = << >>
      THEN [rail EXCEPT !.rate = newRate, !.settledUpTo = now]
      ELSE [rail EXCEPT !.rate = newRate,
                        !.rateChangeQueue =
                           Append(queue, [rate |-> rail.rate, untilEpoch |-> now])]

\* Defect: one-time payments not held to the fixed lockup.
PayBeyondLockup(rail, amount, now) ==
  rail.status = "active" /\ (rail.endEpoch # NotEnded => now < rail.endEpoch)

\* A one-time payment at an unchanged rate of 0, out of the fixed lockup.
CanPayOnce(rail, amount, now) ==
  /\ rail.status = "active"
  /\ rail.endEpoch # NotEnded => now < rail.endEpoch
  /\ amount <= rail.lockupFixed

PayOnce(rail, amount) == [rail EXCEPT !.lockupFixed = @ - amount]

\* modifyRailLockup by a caller that adds to the fixed lockup.
RaiseLockup(rail, amount) == [rail EXCEPT !.lockupFixed = @ + amount]

(***************************************************************************)
(* terminateRail.                                                          *)
(***************************************************************************)

Terminate(rail, lockupLastSettledAt) ==
  [rail EXCEPT !.endEpoch = lockupLastSettledAt + LockupPeriod]

(***************************************************************************)
(* settleRail.  The range from settledUpTo to the target is cut into one   *)
(* segment per queued rate and one for the current rate.                   *)
(***************************************************************************)

SettlementTarget(rail, untilEpoch, lockupLastSettledAt) ==
  IF rail.endEpoch = NotEnded
  THEN Min({untilEpoch, lockupLastSettledAt})
  ELSE Min({untilEpoch, rail.endEpoch})

SegmentStart(rail, i) ==
  IF i = 1 THEN rail.settledUpTo ELSE rail.rateChangeQueue[i - 1].untilEpoch

SegmentEnd(rail, target, i) ==
  IF i <= Len(rail.rateChangeQueue)
  THEN Min({target, rail.rateChangeQueue[i].untilEpoch})
  ELSE target

SegmentRate(rail, i) ==
  IF i <= Len(rail.rateChangeQueue) THEN rail.rateChangeQueue[i].rate ELSE rail.rate

Segments(rail, target) ==
  {i \in 1 .. Len(rail.rateChangeQueue) + 1 : SegmentStart(rail, i) < target}

\* A segment at rate 0 is settled without asking the validator.
UnvalidatedOutcome(rail, target, i) ==
  [ok |-> TRUE,
   modifiedAmount |-> SegmentRate(rail, i) * (SegmentEnd(rail, target, i) - SegmentStart(rail, i)),
   settleUpTo |-> SegmentEnd(rail, target, i)]

\* What FilecoinPay demands of a validator's answer for a segment.
AcceptsOutcome(rail, target, i, outcome) ==
  /\ outcome.ok
  /\ outcome.settleUpTo \in SegmentStart(rail, i) .. SegmentEnd(rail, target, i)
  /\ outcome.modifiedAmount <= SegmentRate(rail, i) * (outcome.settleUpTo - SegmentStart(rail, i))

\* The segments are settled in order, up to the first one that is refused or
\* settled in part or that reaches the target.
LastSegment(rail, target, outcomes) ==
  Min({i \in Segments(rail, target) :
         \/ ~AcceptsOutcome(rail, target, i, outcomes[i])
         \/ outcomes[i].settleUpTo < SegmentEnd(rail, target, i)
         \/ SegmentEnd(rail, target, i) = target})

\* A refused segment reverts the call; so does a single segment that makes no
\* progress, while several that make none are simply left.
CanSettle(rail, target, outcomes) ==
  LET last == LastSegment(rail, target, outcomes)
  IN  /\ rail.status = "active"
      /\ rail.settledUpTo < target
      /\ AcceptsOutcome(rail, target, last, outcomes[last])
      /\ rail.rateChangeQueue = << >> => outcomes[1].settleUpTo > rail.settledUpTo

SettledAmount(rail, target, outcomes) ==
  MapThenSumSet(LAMBDA i : outcomes[i].modifiedAmount,
                1 .. LastSegment(rail, target, outcomes))

\* A terminated rail that is settled to its end is finalized.
Settled(rail, target, outcomes) ==
  LET last   == LastSegment(rail, target, outcomes)
      upTo   == outcomes[last].settleUpTo
      queue  == rail.rateChangeQueue
      passed == {i \in 1 .. last : i <= Len(queue) /\ upTo >= queue[i].untilEpoch}
  IN  IF rail.endEpoch # NotEnded /\ upTo >= rail.endEpoch
      THEN FinalizedRail
      ELSE [rail EXCEPT !.settledUpTo = upTo,
                        !.rateChangeQueue = SubSeq(queue, Cardinality(passed) + 1, Len(queue))]
=============================================================================
