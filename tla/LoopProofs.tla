----------------------------- MODULE LoopProofs -----------------------------
(***************************************************************************)
(* The loop of _findProvenEpochs counts and settles what the closed form   *)
(* and the settlement rules say, for every range and every set of proofs.  *)
(***************************************************************************)
EXTENDS ProvenEpochsLoop, ArithmeticLemmas

-----------------------------------------------------------------------------
(* One period of a range.                                                  *)

\* The part of the range (start, to] that lies in period p is (BeginningOf, EndOf].
BeginningOf(p, start, A, M) == Max({start, CalcPeriodDeadline(A, p, M) - M})
EndOf(p, to, A, M) == Min({to, CalcPeriodDeadline(A, p, M)})

\* The periods that meet the range (start, to].
PeriodsBetween(start, to, A, M) ==
  ProvingPeriodForEpoch(A, start + 1, M) .. ProvingPeriodForEpoch(A, to, M)

\* It is not empty; all periods before the last end before the range does, and the last
\* does not.
LEMMA PartOfPeriod ==
  ASSUME NEW A \in Nat \ {0}, NEW M \in Nat \ {0}, NEW start \in Nat, NEW to \in Nat,
         A <= start, start < to, NEW p \in PeriodsBetween(start, to, A, M)
  PROVE  LET due == CalcPeriodDeadline(A, p, M)
             final    == ProvingPeriodForEpoch(A, to, M)
         IN  /\ p \in Nat /\ final \in Nat /\ p <= final /\ due \in Nat
             /\ start < due /\ due - M < to
             /\ p < final => due < to
             /\ p = final => to <= due
<1> DEFINE first == ProvingPeriodForEpoch(A, start + 1, M)
           final == ProvingPeriodForEpoch(A, to, M)
           due(n) == CalcPeriodDeadline(A, n, M)
<1>1. start + 1 \in Nat /\ A < start + 1 /\ A < to
  OBVIOUS
<1>2. first \in Nat /\ start + 1 <= due(first)
  BY <1>1, EpochInPeriod
<1>3. final \in Nat /\ due(final) - M < to /\ to <= due(final)
  BY <1>1, EpochInPeriod
<1>4. p \in first .. final
  BY DEF PeriodsBetween
<1> HIDE DEF first, final
<1>5. p \in Nat /\ first <= p /\ p <= final
  BY <1>2, <1>3, <1>4
<1>6. /\ due(p) \in Nat /\ due(first) \in Nat /\ due(final) \in Nat
  BY <1>2, <1>3, <1>5, DeadlineType
<1>7. first < p => due(first) <= due(p) - M
  BY <1>2, <1>5, DeadlinesInOrder
<1>8. p < final => due(p) <= due(final) - M
  BY <1>3, <1>5, DeadlinesInOrder
<1>9. first = p => due(first) = due(p)
  OBVIOUS
<1>10. p = final => due(final) = due(p)
  OBVIOUS
<1> HIDE DEF due
<1>11. start < due(p)
  BY <1>2, <1>5, <1>6, <1>7, <1>9
<1>12. due(p) - M < to
  BY <1>3, <1>5, <1>6, <1>8, <1>10
<1>13. p < final => due(p) < to
  BY <1>3, <1>6, <1>8
<1>14. p = final => to <= due(p)
  BY <1>3, <1>10
<1>15. QED BY <1>3, <1>5, <1>6, <1>11, <1>12, <1>13, <1>14 DEF due, final

\* Its epochs belong to that period.
LEMMA EpochsOfPart ==
  ASSUME NEW A \in Nat \ {0}, NEW M \in Nat \ {0}, NEW start \in Nat, NEW to \in Nat,
         A <= start, start < to, NEW p \in PeriodsBetween(start, to, A, M)
  PROVE  /\ BeginningOf(p, start, A, M) \in start .. to
         /\ EndOf(p, to, A, M) \in start .. to
         /\ BeginningOf(p, start, A, M) < EndOf(p, to, A, M)
         /\ \A e \in BeginningOf(p, start, A, M) + 1 .. EndOf(p, to, A, M) :
               ProvingPeriodForEpoch(A, e, M) = p
<1> DEFINE due == CalcPeriodDeadline(A, p, M)
<1>1. p \in Nat /\ due \in Nat /\ start < due /\ due - M < to
  BY PartOfPeriod
<1>2. BeginningOf(p, start, A, M) = IF start >= due - M THEN start ELSE due - M
  BY <1>1, MaxOfTwo DEF BeginningOf
<1>3. EndOf(p, to, A, M) = IF to <= due THEN to ELSE due
  BY <1>1, MinOfTwo DEF EndOf
<1>4. ASSUME NEW e \in BeginningOf(p, start, A, M) + 1 .. EndOf(p, to, A, M)
      PROVE  ProvingPeriodForEpoch(A, e, M) = p
  <2>1. e \in Nat /\ due - M < e /\ e <= due
    <3> HIDE DEF due
    <3> QED BY <1>1, <1>2, <1>3
  <2>2. A \in Nat /\ A # NeverActivated
    BY DEF NeverActivated
  <2>3. QED BY <1>1, <2>1, <2>2, EpochBelongsToPeriod
<1> HIDE DEF due
<1>5. QED BY <1>1, <1>2, <1>3, <1>4

\* The number of epochs of a range.
LEMMA SizeOfRange ==
  ASSUME NEW a \in Nat, NEW b \in Nat, a < b
  PROVE  IsFiniteSet(a + 1 .. b) /\ Cardinality(a + 1 .. b) = b - a
<1>1. PICK c \in Int : c = a + 1
  OBVIOUS
<1>2. b \in Int
  OBVIOUS
<1>3. IsFiniteSet(c .. b) /\ Cardinality(c .. b) = IF c > b THEN 0 ELSE b - c + 1
  BY <1>2, FS_Interval
<1>4. QED BY <1>1, <1>3

\* How many of its epochs have a proof: all or none.
LEMMA ProvenInPart ==
  ASSUME NEW A \in Nat \ {0}, NEW M \in Nat \ {0}, NEW start \in Nat, NEW to \in Nat,
         A <= start, start < to, NEW p \in PeriodsBetween(start, to, A, M), NEW proven
  PROVE  LET part == ProvenWithin(proven, BeginningOf(p, start, A, M), EndOf(p, to, A, M), A, M)
         IN  /\ IsFiniteSet(part)
             /\ p \in proven =>
                  Cardinality(part) = EndOf(p, to, A, M) - BeginningOf(p, start, A, M)
             /\ p \notin proven => part = {}
<1> DEFINE a == BeginningOf(p, start, A, M)
           b == EndOf(p, to, A, M)
           part == ProvenWithin(proven, a, b, A, M)
<1>1. a \in Nat /\ b \in Nat /\ a < b
  BY EpochsOfPart
<1>2. \A e \in a + 1 .. b : ProvingPeriodForEpoch(A, e, M) = p
  BY EpochsOfPart
<1> HIDE DEF a, b
<1>3. part \subseteq a + 1 .. b
  BY DEF ProvenWithin
<1>4. IsFiniteSet(a + 1 .. b) /\ Cardinality(a + 1 .. b) = b - a
  BY <1>1, SizeOfRange
<1>5. p \in proven => part = a + 1 .. b
  BY <1>2 DEF ProvenWithin
<1>6. p \notin proven => part = {}
  BY <1>2 DEF ProvenWithin
<1> HIDE DEF part
<1>7. IsFiniteSet(part)
  BY <1>3, <1>4, FS_Subset
<1>8. p \in proven => Cardinality(part) = b - a
  BY <1>4, <1>5
<1>9. QED BY <1>6, <1>7, <1>8 DEF part, a, b

-----------------------------------------------------------------------------
(* The range after some of its periods.                                    *)

\* The counted epochs of the range before period p: those with a proof.
CountedBefore(p) ==
  ProvenWithin(input.proven, input.fromEpoch,
               Min({input.toEpoch, BeginningOf(p, fromEpoch, input.activationEpoch,
                                               input.periodLength)}),
               input.activationEpoch, input.periodLength)

\* What the range is settled up to when the loop has come to period p.
SettledBefore(p) ==
  IF p <= EndingPeriod
  THEN BeginningOf(p, fromEpoch, input.activationEpoch, input.periodLength)
  ELSE SettledWithin(input.proven, input.fromEpoch, input.toEpoch, input.activationEpoch,
                     input.periodLength, input.now)

\* Every iteration has counted and settled all the periods before its own, of which only the
\* last may be open.
LoopInv ==
  /\ input \in Inputs
  /\ fromEpoch = Max({input.fromEpoch, input.activationEpoch})
  /\ pc \in {"loop", "returned"}
  /\ period \in ProvingPeriodForEpoch(input.activationEpoch, fromEpoch + 1, input.periodLength)
                  .. EndingPeriod + 1
  /\ deadline = CalcPeriodDeadline(input.activationEpoch, period, input.periodLength)
  /\ settleUpTo = SettledBefore(period)
  /\ provenEpochCount = Cardinality(CountedBefore(period))
  /\ pc = "returned" => period = EndingPeriod + 1

\* The input, spelled out.
LEMMA InputType ==
  ASSUME input \in Inputs
  PROVE  /\ input.proven \in SUBSET Nat
         /\ input.fromEpoch \in Nat /\ input.toEpoch \in Nat /\ input.fromEpoch < input.toEpoch
         /\ input.activationEpoch \in Nat \ {0} /\ input.activationEpoch < input.toEpoch
         /\ input.periodLength \in Nat \ {0}
         /\ input.now \in Nat /\ input.toEpoch <= input.now
<1>1. input \in [fromEpoch : 0 .. MaxEpoch, toEpoch : 1 .. MaxEpoch,
                 activationEpoch : 1 .. MaxEpoch, periodLength : 1 .. MaxPeriodLength,
                 now : 1 .. MaxEpoch, proven : SUBSET (0 .. MaxEpoch)]
  BY DEF Inputs
<1>2. /\ input.fromEpoch < input.toEpoch /\ input.activationEpoch < input.toEpoch
      /\ input.toEpoch <= input.now
  BY DEF Inputs
<1>3. 0 .. MaxEpoch \subseteq Nat /\ 1 .. MaxEpoch \subseteq Nat \ {0}
      /\ 1 .. MaxPeriodLength \subseteq Nat \ {0}
  BY LoopConstants
<1>4. QED BY <1>1, <1>2, <1>3

\* Where the loop starts: at the beginning of the range or at activation, if that is later.
LEMMA LoopStart ==
  ASSUME input \in Inputs, fromEpoch = Max({input.fromEpoch, input.activationEpoch})
  PROVE  /\ fromEpoch \in Nat /\ input.fromEpoch <= fromEpoch /\ fromEpoch < input.toEpoch
         /\ input.activationEpoch <= fromEpoch
         /\ fromEpoch \in {input.fromEpoch, input.activationEpoch}
BY InputType, MaxOfTwo

\* No epoch up to the start of the loop has a proof.
LEMMA NothingBeforeStart ==
  ASSUME input \in Inputs, fromEpoch = Max({input.fromEpoch, input.activationEpoch})
  PROVE  ProvenWithin(input.proven, input.fromEpoch, fromEpoch, input.activationEpoch,
                      input.periodLength) = {}
<1> DEFINE A == input.activationEpoch
<1>1. /\ input.fromEpoch \in Nat /\ A \in Nat /\ fromEpoch \in {input.fromEpoch, A}
      /\ input.proven \in SUBSET Nat
  BY InputType, LoopStart
<1>2. ASSUME NEW e \in input.fromEpoch + 1 .. fromEpoch
      PROVE  ProvingPeriodForEpoch(A, e, input.periodLength) \notin input.proven
  <2>1. e <= A
    BY <1>1
  <2>2. ProvingPeriodForEpoch(A, e, input.periodLength) = -1
    BY <2>1 DEF ProvingPeriodForEpoch, NoPeriod
  <2>3. QED BY <1>1, <2>2
<1>3. QED BY <1>2 DEF ProvenWithin

\* The first period of the range begins where the loop starts.
LEMMA FirstPeriodBegins ==
  ASSUME input \in Inputs, fromEpoch = Max({input.fromEpoch, input.activationEpoch})
  PROVE  LET A     == input.activationEpoch
             M     == input.periodLength
             first == ProvingPeriodForEpoch(A, fromEpoch + 1, M)
         IN  /\ first \in Nat /\ EndingPeriod \in Nat /\ first <= EndingPeriod
             /\ BeginningOf(first, fromEpoch, A, M) = fromEpoch
<1>1. PICK A \in Nat \ {0} : A = input.activationEpoch
  BY InputType
<1>2. PICK M \in Nat \ {0} : M = input.periodLength
  BY InputType
<1>3. PICK s \in Nat : s = fromEpoch
  BY LoopStart
<1>4. PICK to \in Nat : to = input.toEpoch
  BY InputType
<1>5. A <= s /\ s < to /\ s + 1 \in Nat /\ A < s + 1 /\ s + 1 <= to /\ A < to
  BY <1>1, <1>3, <1>4, LoopStart
<1> DEFINE first == ProvingPeriodForEpoch(A, s + 1, M)
           final == ProvingPeriodForEpoch(A, to, M)
           due   == CalcPeriodDeadline(A, first, M)
<1>6. first \in Nat /\ due - M < s + 1
  BY <1>5, EpochInPeriod
<1>7. final \in Nat
  BY <1>5, EpochInPeriod
<1>8. first <= final
  BY <1>5, PeriodsInOrder
<1> HIDE DEF first, final
<1>9. due \in Nat
  BY <1>6, DeadlineType
<1> HIDE DEF due
<1>10. Max({s, due - M}) = s
  BY <1>6, <1>9, MaxOfTwo
<1>11. BeginningOf(first, s, A, M) = s
  BY <1>10 DEF BeginningOf, due
<1>12. EndingPeriod = final
  BY <1>1, <1>2, <1>4 DEF EndingPeriod, final
<1>13. QED BY <1>1, <1>2, <1>3, <1>6, <1>7, <1>8, <1>11, <1>12 DEF first

\* The next period begins where this one ends, unless the range ends before; and only
\* the last one of the range can be open.
LEMMA NextPeriodBegins ==
  ASSUME input \in Inputs, fromEpoch = Max({input.fromEpoch, input.activationEpoch}),
         NEW p \in PeriodsBetween(fromEpoch, input.toEpoch, input.activationEpoch,
                                  input.periodLength)
  PROVE  LET A   == input.activationEpoch
             M   == input.periodLength
             due == CalcPeriodDeadline(A, p, M)
             beginning == BeginningOf(p, fromEpoch, A, M)
             next      == BeginningOf(p + 1, fromEpoch, A, M)
             end       == EndOf(p, input.toEpoch, A, M)
         IN  /\ p \in Nat /\ EndingPeriod \in Nat /\ p <= EndingPeriod
             /\ beginning \in Nat /\ end \in Nat
             /\ fromEpoch <= beginning /\ beginning < end /\ end <= input.toEpoch
             /\ CalcPeriodDeadline(A, p + 1, M) = due + M
             /\ Min({input.toEpoch, beginning}) = beginning
             /\ Min({input.toEpoch, next}) = end
             /\ p < EndingPeriod => next = end /\ due < input.now
             /\ p = EndingPeriod => end = input.toEpoch
<1>1. PICK A \in Nat \ {0} : A = input.activationEpoch
  BY InputType
<1>2. PICK M \in Nat \ {0} : M = input.periodLength
  BY InputType
<1>3. PICK s \in Nat : s = fromEpoch
  BY LoopStart
<1>4. PICK to \in Nat : to = input.toEpoch
  BY InputType
<1>5. PICK now \in Nat : now = input.now
  BY InputType
<1>6. A <= s /\ s < to /\ to <= now
  BY <1>1, <1>3, <1>4, <1>5, LoopStart, InputType
<1>7. p \in PeriodsBetween(s, to, A, M)
  BY <1>1, <1>2, <1>3, <1>4
<1> DEFINE final     == ProvingPeriodForEpoch(A, to, M)
           due       == CalcPeriodDeadline(A, p, M)
           beginning == BeginningOf(p, s, A, M)
           next      == BeginningOf(p + 1, s, A, M)
           end       == EndOf(p, to, A, M)
<1>8. /\ p \in Nat /\ final \in Nat /\ p <= final /\ due \in Nat
      /\ s < due /\ due - M < to
      /\ p < final => due < to
      /\ p = final => to <= due
  BY <1>6, <1>7, PartOfPeriod
<1>9. beginning \in s .. to /\ end \in s .. to /\ beginning < end
  BY <1>6, <1>7, EpochsOfPart
<1>10. CalcPeriodDeadline(A, p + 1, M) = due + M
  <2>1. p + 1 \in Nat
    BY <1>8
  <2>2. /\ CalcPeriodDeadline(A, p + 1, M) = A + M * (p + 1) + M
        /\ CalcPeriodDeadline(A, p, M) = A + M * p + M
    BY <1>8, <2>1, DeadlineType
  <2>3. M * (p + 1) = M * p + M /\ M * p \in Nat
    BY <1>8
  <2>4. QED BY <2>2, <2>3
<1> DEFINE after == CalcPeriodDeadline(A, p + 1, M) - M
<1>11. next = Max({s, after})
  BY DEF BeginningOf
<1>12. end = Min({to, due})
  BY DEF EndOf
<1>13. EndingPeriod = final
  BY <1>1, <1>2, <1>4 DEF EndingPeriod
<1> HIDE DEF final, due, beginning, next, end
<1>14. next = due
  <2>1. after = due
    BY <1>8, <1>10
  <2> HIDE DEF after
  <2>2. QED BY <1>8, <1>11, <2>1, MaxOfTwo
<1> HIDE DEF after
<1>15. Min({to, beginning}) = beginning
  BY <1>9, MinOfTwo
<1>16. Min({to, next}) = end
  BY <1>12, <1>14
<1>17. end = IF to <= due THEN to ELSE due
  BY <1>8, <1>12, MinOfTwo
<1>18. p < final => next = end /\ due < now
  BY <1>6, <1>8, <1>14, <1>17
<1>19. p = final => end = to
  BY <1>8, <1>17
<1>20. /\ beginning \in Nat /\ end \in Nat /\ s <= beginning /\ beginning < end /\ end <= to
  BY <1>9
<1>21. QED
  BY <1>1, <1>2, <1>3, <1>4, <1>5, <1>8, <1>10, <1>13, <1>15, <1>16, <1>18, <1>19, <1>20
  DEF due, beginning, next, end

\* An iteration adds its period to what is counted, if the period has a proof.
LEMMA CountedWithNextPeriod ==
  ASSUME input \in Inputs, fromEpoch = Max({input.fromEpoch, input.activationEpoch}),
         NEW p \in PeriodsBetween(fromEpoch, input.toEpoch, input.activationEpoch,
                                  input.periodLength)
  PROVE  LET beginning == BeginningOf(p, fromEpoch, input.activationEpoch, input.periodLength)
             end       == EndOf(p, input.toEpoch, input.activationEpoch, input.periodLength)
         IN  /\ Cardinality(CountedBefore(p)) \in Nat
             /\ Cardinality(CountedBefore(p + 1))
                  = Cardinality(CountedBefore(p))
                      + IF p \in input.proven THEN end - beginning ELSE 0
<1> DEFINE A         == input.activationEpoch
           M         == input.periodLength
           from      == input.fromEpoch
           beginning == BeginningOf(p, fromEpoch, A, M)
           end       == EndOf(p, input.toEpoch, A, M)
           before    == ProvenWithin(input.proven, from, beginning, A, M)
           part      == ProvenWithin(input.proven, beginning, end, A, M)
           after     == ProvenWithin(input.proven, from, end, A, M)
<1>1. /\ beginning \in Nat /\ end \in Nat /\ fromEpoch <= beginning /\ beginning < end
      /\ Min({input.toEpoch, beginning}) = beginning
      /\ Min({input.toEpoch, BeginningOf(p + 1, fromEpoch, A, M)}) = end
  BY NextPeriodBegins
<1>2. CountedBefore(p) = before /\ CountedBefore(p + 1) = after
  BY <1>1, Zenon DEF CountedBefore
<1>3. from \in Nat /\ from <= beginning /\ beginning <= end
  <2> HIDE DEF beginning, end
  <2>1. from \in Nat /\ fromEpoch \in Nat /\ from <= fromEpoch
    BY LoopStart, InputType
  <2>2. QED BY <1>1, <2>1
<1>4. IsFiniteSet(before)
  <2>1. beginning \in Nat
    BY <1>1
  <2>2. QED BY <1>3, <2>1, ProvenWithinType
<1>5. /\ IsFiniteSet(part)
      /\ p \in input.proven => Cardinality(part) = end - beginning
      /\ p \notin input.proven => part = {}
  <2>1. PICK a \in Nat \ {0} : a = A
    BY InputType
  <2>2. PICK m \in Nat \ {0} : m = M
    BY InputType
  <2>3. PICK s \in Nat : s = fromEpoch
    BY LoopStart
  <2>4. PICK to \in Nat : to = input.toEpoch
    BY InputType
  <2>5. a <= s /\ s < to /\ p \in PeriodsBetween(s, to, a, m)
    BY <2>1, <2>2, <2>3, <2>4, LoopStart
  <2> DEFINE epochs == ProvenWithin(input.proven, BeginningOf(p, s, a, m), EndOf(p, to, a, m), a, m)
  <2>6. /\ IsFiniteSet(epochs)
        /\ p \in input.proven =>
             Cardinality(epochs) = EndOf(p, to, a, m) - BeginningOf(p, s, a, m)
        /\ p \notin input.proven => epochs = {}
    BY <2>5, ProvenInPart
  <2>7. BeginningOf(p, s, a, m) = beginning /\ EndOf(p, to, a, m) = end
    BY <2>1, <2>2, <2>3, <2>4
  <2>8. epochs = part
    BY <2>1, <2>2, <2>7
  <2> HIDE DEF epochs, part
  <2>9. QED BY <2>6, <2>7, <2>8
<1>6. after = before \cup part /\ before \cap part = {}
  BY <1>1, <1>3, ProvenWithinSplit
<1> HIDE DEF before, part, after, beginning, end
<1>7. Cardinality(before \cap part) = 0
  BY <1>6, FS_EmptySet
<1>8. Cardinality(before \cup part)
        = Cardinality(before) + Cardinality(part) - Cardinality(before \cap part)
  BY <1>4, <1>5, FS_Union
<1>9. Cardinality(before) \in Nat /\ Cardinality(part) \in Nat
  BY <1>4, <1>5, FS_CardinalityType
<1>10. Cardinality(part) = IF p \in input.proven THEN end - beginning ELSE 0
  BY <1>5, FS_EmptySet
<1>11. Cardinality(after) = Cardinality(before) + Cardinality(part)
  BY <1>6, <1>7, <1>8, <1>9
<1>12. QED BY <1>2, <1>9, <1>10, <1>11 DEF beginning, end

\* It settles its period, unless that period is open.
LEMMA SettledWithNextPeriod ==
  ASSUME input \in Inputs, fromEpoch = Max({input.fromEpoch, input.activationEpoch}),
         NEW p \in PeriodsBetween(fromEpoch, input.toEpoch, input.activationEpoch,
                                  input.periodLength)
  PROVE  LET A   == input.activationEpoch
             M   == input.periodLength
             due == CalcPeriodDeadline(A, p, M)
         IN  SettledBefore(p + 1) = IF p \in input.proven \/ due < input.now
                                    THEN EndOf(p, input.toEpoch, A, M)
                                    ELSE SettledBefore(p)
<1> DEFINE A         == input.activationEpoch
           M         == input.periodLength
           due       == CalcPeriodDeadline(A, p, M)
           beginning == BeginningOf(p, fromEpoch, A, M)
           next      == BeginningOf(p + 1, fromEpoch, A, M)
           end       == EndOf(p, input.toEpoch, A, M)
<1>1. /\ p \in Nat /\ EndingPeriod \in Nat /\ p <= EndingPeriod
      /\ p < EndingPeriod => next = end /\ due < input.now
      /\ p = EndingPeriod => end = input.toEpoch
  BY NextPeriodBegins
<1>2. SettledBefore(p) = beginning
  BY <1>1 DEF SettledBefore
<1> HIDE DEF due, beginning, next, end
<1>3. CASE p < EndingPeriod
  <2>1. p + 1 <= EndingPeriod
    BY <1>1, <1>3
  <2>2. SettledBefore(p + 1) = next
    BY <2>1 DEF SettledBefore, next
  <2>3. next = end /\ due < input.now
    BY <1>1, <1>3
  <2>4. QED BY <2>2, <2>3 DEF due, end
<1>4. CASE p = EndingPeriod
  <2> DEFINE settled == SettledWithin(input.proven, input.fromEpoch, input.toEpoch, A, M, input.now)
  <2>1. SettledBefore(p + 1) = settled
    <3>1. ~ (p + 1 <= EndingPeriod)
      BY <1>1, <1>4
    <3>2. QED BY <3>1 DEF SettledBefore
  <2>2. p = ProvingPeriodForEpoch(A, input.toEpoch, M)
    BY <1>4 DEF EndingPeriod
  <2>3. LastPeriodResolved(input.proven, input.toEpoch, A, M, input.now)
          <=> p \in input.proven \/ due < input.now
    BY <2>2, Zenon DEF LastPeriodResolved, DeadlinePassed, due
  <2>4. settled = IF p \in input.proven \/ due < input.now THEN input.toEpoch ELSE beginning
    <3>1. beginning = Max({Max({input.fromEpoch, A}),
                           CalcPeriodDeadline(A, ProvingPeriodForEpoch(A, input.toEpoch, M), M) - M})
      BY <2>2, Zenon DEF BeginningOf, beginning
    <3>2. QED BY <2>3, <3>1, Zenon DEF SettledWithin
  <2>5. end = input.toEpoch
    BY <1>1, <1>4
  <2> HIDE DEF settled
  <2>6. QED BY <1>2, <2>1, <2>4, <2>5 DEF due, end
<1>5. QED BY <1>1, <1>3, <1>4

-----------------------------------------------------------------------------
(* The loop.                                                               *)

\* Before the first iteration nothing is counted or settled.
LEMMA LoopInitially == ASSUME Init PROVE LoopInv
<1> DEFINE A     == input.activationEpoch
           M     == input.periodLength
           first == ProvingPeriodForEpoch(A, fromEpoch + 1, M)
<1>1. input \in Inputs /\ fromEpoch = Max({input.fromEpoch, A}) /\ pc = "loop"
  BY DEF Init
<1>2. /\ period = first /\ deadline = CalcPeriodDeadline(A, period, M)
      /\ provenEpochCount = 0 /\ settleUpTo = fromEpoch
  BY DEF Init
<1>3. /\ first \in Nat /\ EndingPeriod \in Nat /\ first <= EndingPeriod
      /\ BeginningOf(first, fromEpoch, A, M) = fromEpoch
  BY <1>1, FirstPeriodBegins
<1>4. first \in first .. EndingPeriod + 1
  <2> HIDE DEF first
  <2> QED BY <1>3
<1>5. SettledBefore(first) = fromEpoch
  BY <1>3 DEF SettledBefore
<1>6. Cardinality(CountedBefore(first)) = 0
  <2>1. Min({input.toEpoch, fromEpoch}) = fromEpoch
    BY <1>1, LoopStart, InputType, MinOfTwo
  <2>2. CountedBefore(first) = ProvenWithin(input.proven, input.fromEpoch, fromEpoch, A, M)
    BY <1>3, <2>1, Zenon DEF CountedBefore
  <2>3. ProvenWithin(input.proven, input.fromEpoch, fromEpoch, A, M) = {}
    BY <1>1, NothingBeforeStart
  <2>4. QED BY <2>2, <2>3, FS_EmptySet
<1> HIDE DEF first
<1>7. QED BY <1>1, <1>2, <1>4, <1>5, <1>6 DEF LoopInv, first

\* Which operators of the invariant an iteration carries over.
LEMMA RangeCarriedOver ==
  ASSUME UNCHANGED <<input, fromEpoch>>
  PROVE  /\ EndingPeriod' = EndingPeriod
         /\ \A p : SettledBefore(p)' = SettledBefore(p) /\ CountedBefore(p)' = CountedBefore(p)
<1>1. EndingPeriod' = EndingPeriod
  BY Zenon DEF EndingPeriod
<1>2. ASSUME NEW p
      PROVE  SettledBefore(p)' = SettledBefore(p) /\ CountedBefore(p)' = CountedBefore(p)
  BY <1>1, Zenon DEF SettledBefore, CountedBefore
<1>3. QED BY <1>1, <1>2

\* An iteration counts and settles its period.
LEMMA IterationKeepsInv == ASSUME LoopInv, Iterate PROVE LoopInv'
<1> DEFINE A   == input.activationEpoch
           M   == input.periodLength
           due == CalcPeriodDeadline(A, period, M)
           beginning == BeginningOf(period, fromEpoch, A, M)
           end == EndOf(period, input.toEpoch, A, M)
           first == ProvingPeriodForEpoch(A, fromEpoch + 1, M)
<1>1. /\ input \in Inputs /\ fromEpoch = Max({input.fromEpoch, A})
      /\ period \in first .. EndingPeriod + 1 /\ deadline = due
      /\ settleUpTo = SettledBefore(period)
      /\ provenEpochCount = Cardinality(CountedBefore(period))
  BY DEF LoopInv
<1>2. /\ pc = "loop" /\ period <= EndingPeriod
      /\ period' = period + 1 /\ deadline' = deadline + M
      /\ UNCHANGED <<input, fromEpoch>> /\ pc' = "loop"
  BY DEF Iterate
<1>3. first \in Nat /\ EndingPeriod \in Nat /\ first <= EndingPeriod
  BY <1>1, FirstPeriodBegins
<1>4. period \in Nat /\ period' \in first .. EndingPeriod + 1 /\ period \in first .. EndingPeriod
  <2> HIDE DEF first
  <2> QED BY <1>1, <1>2, <1>3
<1>5. period \in PeriodsBetween(fromEpoch, input.toEpoch, A, M)
  BY <1>4 DEF PeriodsBetween, EndingPeriod
<1>6. CalcPeriodDeadline(A, period + 1, M) = due + M
  BY <1>1, <1>5, NextPeriodBegins
<1>7. /\ Cardinality(CountedBefore(period)) \in Nat
      /\ Cardinality(CountedBefore(period + 1))
           = Cardinality(CountedBefore(period))
               + IF period \in input.proven THEN end - beginning ELSE 0
  BY <1>1, <1>5, CountedWithNextPeriod
<1>8. SettledBefore(period + 1) = IF period \in input.proven \/ due < input.now
                                  THEN end ELSE SettledBefore(period)
  BY <1>1, <1>5, SettledWithNextPeriod
<1>9. Min({input.toEpoch, deadline}) = end
  BY <1>1 DEF EndOf
<1>10. Max({deadline - M, fromEpoch}) = beginning
  <2>1. {deadline - M, fromEpoch} = {fromEpoch, deadline - M}
    OBVIOUS
  <2>2. QED BY <1>1, <2>1, Zenon DEF BeginningOf
<1>11. beginning \in Nat /\ end \in Nat
  BY <1>1, <1>5, NextPeriodBegins
<1>12. settleUpTo' = SettledBefore(period + 1)
       /\ provenEpochCount' = Cardinality(CountedBefore(period + 1))
  <2> HIDE DEF due, beginning, end
  <2>1. CASE CountPeriod
    <3>1. /\ period \in input.proven /\ settleUpTo' = end
          /\ provenEpochCount' = provenEpochCount + end - beginning
      BY <1>9, <1>10, <2>1 DEF CountPeriod, IsProven
    <3>2. QED BY <1>1, <1>7, <1>8, <1>11, <3>1
  <2>2. CASE SkipFaultedPeriod
    <3>1. /\ period \notin input.proven /\ due < input.now /\ settleUpTo' = end
          /\ provenEpochCount' = provenEpochCount
      BY <1>1, <1>9, <2>2 DEF SkipFaultedPeriod, IsFaulted, IsProven
    <3>2. QED BY <1>1, <1>7, <1>8, <3>1
  <2>3. CASE LeaveOpenPeriod
    <3>1. /\ period \notin input.proven /\ ~ (due < input.now)
          /\ settleUpTo' = settleUpTo /\ provenEpochCount' = provenEpochCount
      BY <1>1, <2>3 DEF LeaveOpenPeriod, IsFaulted, IsProven
    <3>2. QED BY <1>1, <1>7, <1>8, <3>1
  <2>4. QED BY <2>1, <2>2, <2>3 DEF Iterate
<1>13. PICK n : n = period + 1
  OBVIOUS
<1>14. /\ EndingPeriod' = EndingPeriod
       /\ settleUpTo' = SettledBefore(period)' /\ provenEpochCount' = Cardinality(CountedBefore(period))'
  <2>1. /\ EndingPeriod' = EndingPeriod
        /\ SettledBefore(n)' = SettledBefore(n) /\ CountedBefore(n)' = CountedBefore(n)
    BY <1>2, RangeCarriedOver
  <2>2. settleUpTo' = SettledBefore(n)' /\ provenEpochCount' = Cardinality(CountedBefore(n))'
    BY <1>12, <1>13, <2>1
  <2>3. period' = n
    BY <1>2, <1>13
  <2>4. QED BY <2>1, <2>2, <2>3, Zenon DEF SettledBefore, CountedBefore
<1>15. deadline' = CalcPeriodDeadline(A, period', M)
  BY <1>1, <1>2, <1>6
<1>16. QED BY <1>1, <1>2, <1>4, <1>14, <1>15 DEF LoopInv

\* The loop ends after the last period of the range.
LEMMA ReturnKeepsInv == ASSUME LoopInv, Return PROVE LoopInv'
<1>1. /\ input \in Inputs /\ fromEpoch = Max({input.fromEpoch, input.activationEpoch})
      /\ period \in ProvingPeriodForEpoch(input.activationEpoch, fromEpoch + 1, input.periodLength)
                      .. EndingPeriod + 1
      /\ period > EndingPeriod
  BY DEF LoopInv, Return
<1>2. /\ ProvingPeriodForEpoch(input.activationEpoch, fromEpoch + 1, input.periodLength) \in Nat
      /\ EndingPeriod \in Nat
  BY <1>1, FirstPeriodBegins
<1>3. period = EndingPeriod + 1
  BY <1>1, <1>2
<1>4. pc' = "returned" /\ UNCHANGED <<input, fromEpoch, period, deadline, provenEpochCount, settleUpTo>>
  BY DEF Return
<1>5. QED BY <1>3, <1>4 DEF LoopInv, SettledBefore, CountedBefore, EndingPeriod

\* The invariant holds in every state.
LEMMA LoopInvariant == Spec => []LoopInv
<1>1. Init => LoopInv
  BY LoopInitially
<1>2. LoopInv /\ [Next]_vars => LoopInv'
  <2>1. ASSUME LoopInv, UNCHANGED vars PROVE LoopInv'
    BY <2>1 DEF vars, LoopInv, SettledBefore, CountedBefore, EndingPeriod
  <2>2. QED BY <2>1, IterationKeepsInv, ReturnKeepsInv DEF Next
<1>3. QED BY <1>1, <1>2, PTL DEF Spec

\* What the loop has when it returns: every epoch of the range with a proof is counted, and
\* none of them lies beyond what it settles.
LEMMA WhatIsReturned ==
  ASSUME LoopInv, pc = "returned"
  PROVE  LET A    == input.activationEpoch
             M    == input.periodLength
             upTo == SettledWithin(input.proven, input.fromEpoch, input.toEpoch, A, M, input.now)
         IN  /\ EndingPeriod \in PeriodsBetween(fromEpoch, input.toEpoch, A, M)
             /\ settleUpTo = upTo
             /\ provenEpochCount
                  = Cardinality(ProvenWithin(input.proven, input.fromEpoch, input.toEpoch, A, M))
             /\ provenEpochCount
                  = Cardinality(ProvenWithin(input.proven, input.fromEpoch, upTo, A, M))
<1> DEFINE A    == input.activationEpoch
           M    == input.periodLength
           from == input.fromEpoch
           to   == input.toEpoch
           upTo == SettledWithin(input.proven, from, to, A, M, input.now)
           due  == CalcPeriodDeadline(A, EndingPeriod, M)
           beginning == BeginningOf(EndingPeriod, fromEpoch, A, M)
           end       == EndOf(EndingPeriod, to, A, M)
           first     == ProvingPeriodForEpoch(A, fromEpoch + 1, M)
           counted   == Cardinality(CountedBefore(EndingPeriod + 1))
<1>1. /\ input \in Inputs /\ fromEpoch = Max({from, A}) /\ period = EndingPeriod + 1
      /\ settleUpTo = SettledBefore(period) /\ provenEpochCount = Cardinality(CountedBefore(period))
  BY DEF LoopInv
<1>2. first \in Nat /\ EndingPeriod \in Nat /\ first <= EndingPeriod
  BY <1>1, FirstPeriodBegins
<1>3. EndingPeriod \in PeriodsBetween(fromEpoch, to, A, M)
  <2>1. EndingPeriod \in first .. EndingPeriod
    <3> HIDE DEF first
    <3> QED BY <1>2
  <2>2. EndingPeriod = ProvingPeriodForEpoch(A, to, M)
    BY DEF EndingPeriod
  <2>3. QED BY <2>1, <2>2 DEF PeriodsBetween
<1>4. settleUpTo = upTo
  <2>1. ~ (EndingPeriod + 1 <= EndingPeriod)
    BY <1>2
  <2>2. QED BY <1>1, <2>1 DEF SettledBefore
<1>5. /\ beginning \in Nat /\ Min({to, beginning}) = beginning
      /\ Min({to, BeginningOf(EndingPeriod + 1, fromEpoch, A, M)}) = end
      /\ end = to
  BY <1>1, <1>3, NextPeriodBegins
<1>6. /\ CountedBefore(EndingPeriod) = ProvenWithin(input.proven, from, beginning, A, M)
      /\ CountedBefore(EndingPeriod + 1) = ProvenWithin(input.proven, from, to, A, M)
  BY <1>5, Zenon DEF CountedBefore
<1>7. /\ Cardinality(CountedBefore(EndingPeriod)) \in Nat
      /\ counted = Cardinality(CountedBefore(EndingPeriod))
                     + IF EndingPeriod \in input.proven THEN end - beginning ELSE 0
  BY <1>1, <1>3, CountedWithNextPeriod
<1>8. upTo = IF EndingPeriod \in input.proven \/ due < input.now
             THEN end ELSE SettledBefore(EndingPeriod)
  BY <1>1, <1>3, <1>4, SettledWithNextPeriod
<1>9. SettledBefore(EndingPeriod) = beginning
  BY <1>2 DEF SettledBefore
<1>10. counted = Cardinality(ProvenWithin(input.proven, from, upTo, A, M))
  <2>1. CASE EndingPeriod \in input.proven \/ due < input.now
    <3>1. upTo = to
      BY <1>5, <1>8, <2>1
    <3>2. QED BY <1>6, <3>1
  <2>2. CASE EndingPeriod \notin input.proven /\ ~ (due < input.now)
    <3>1. upTo = beginning
      BY <1>8, <1>9, <2>2
    <3>2. counted = Cardinality(CountedBefore(EndingPeriod))
      BY <1>7, <2>2
    <3>3. QED BY <1>6, <3>1, <3>2
  <2>3. QED BY <2>1, <2>2
<1>11. QED BY <1>1, <1>3, <1>4, <1>6, <1>10

-----------------------------------------------------------------------------
(* What the loop computes.                                                 *)

\* The loop of _findProvenEpochs returns what the closed form says.
THEOREM LoopIsFindProvenEpochs == Spec => []LoopComputesFindProvenEpochs
<1> DEFINE upTo == SettledWithin(input.proven, input.fromEpoch, input.toEpoch,
                                 input.activationEpoch, input.periodLength, input.now)
<1>1. ASSUME LoopInv, pc = "returned"
      PROVE  FindProvenEpochs(input.proven, input.fromEpoch, input.toEpoch, input.activationEpoch,
                              input.periodLength, input.now)
               = [ok |-> TRUE, count |-> provenEpochCount, settleUpTo |-> settleUpTo]
  <2>1. input \in Inputs
    BY <1>1 DEF LoopInv
  <2>2. /\ settleUpTo = upTo
        /\ provenEpochCount
             = Cardinality(ProvenWithin(input.proven, input.fromEpoch, upTo,
                                        input.activationEpoch, input.periodLength))
    BY <1>1, WhatIsReturned
  <2>3. PICK proven \in SUBSET Nat : proven = input.proven
    BY <2>1, InputType
  <2>4. PICK from \in Nat : from = input.fromEpoch
    BY <2>1, InputType
  <2>5. PICK to \in Nat : to = input.toEpoch
    BY <2>1, InputType
  <2>6. PICK A \in Nat \ {0} : A = input.activationEpoch
    BY <2>1, InputType
  <2>7. PICK M \in Nat \ {0} : M = input.periodLength
    BY <2>1, InputType
  <2>8. PICK now \in Nat : now = input.now
    BY <2>1, InputType
  <2>9. from < to /\ A < to /\ to <= now
    BY <2>1, <2>4, <2>5, <2>6, <2>8, InputType
  <2> DEFINE reached == SettledWithin(proven, from, to, A, M, now)
  <2>10. /\ FindProvenEpochs(proven, from, to, A, M, now)
              = [ok |-> TRUE, count |-> Cardinality(ProvenWithin(proven, from, reached, A, M)),
                 settleUpTo |-> reached]
         /\ reached \in Max({from, A}) .. to
    BY <2>9, FindProvenEpochsAnswer
  <2>11. QED BY <2>2, <2>3, <2>4, <2>5, <2>6, <2>7, <2>8, <2>10, Zenon
<1>2. LoopInv => LoopComputesFindProvenEpochs
  BY <1>1 DEF LoopComputesFindProvenEpochs
<1>3. QED BY <1>2, LoopInvariant, PTL

\* An epoch after the start of the loop lies in a period of the range; all but the last are
\* over, and the last holds what comes after its beginning.
LEMMA PeriodOfBillable ==
  ASSUME LoopInv, pc = "returned",
         NEW e \in Nat, input.fromEpoch < e, input.activationEpoch < e, e <= input.toEpoch
  PROVE  LET A == input.activationEpoch
             M == input.periodLength
             p == ProvingPeriodForEpoch(A, e, M)
         IN  /\ p < EndingPeriod => CalcPeriodDeadline(A, p, M) < input.now
             /\ p <= EndingPeriod
             /\ p \in Nat /\ EndingPeriod \in Nat
             /\ p = EndingPeriod <=> BeginningOf(EndingPeriod, fromEpoch, A, M) < e
<1>1. input \in Inputs /\ fromEpoch = Max({input.fromEpoch, input.activationEpoch})
  BY DEF LoopInv
<1>2. PICK A \in Nat \ {0}, M \in Nat \ {0}, s \in Nat, to \in Nat :
         /\ A = input.activationEpoch /\ M = input.periodLength
         /\ s = fromEpoch /\ to = input.toEpoch
  BY <1>1, InputType, LoopStart
<1>3. A <= s /\ s < e /\ s < to /\ e <= to /\ A < e /\ s + 1 \in Nat /\ A < s + 1 /\ s + 1 <= e
  BY <1>1, <1>2, LoopStart
<1> DEFINE p     == ProvingPeriodForEpoch(A, e, M)
           final == ProvingPeriodForEpoch(A, to, M)
           first == ProvingPeriodForEpoch(A, s + 1, M)
           due   == CalcPeriodDeadline(A, p, M)
           last  == CalcPeriodDeadline(A, final, M)
           beginning == BeginningOf(final, s, A, M)
<1>4. final = EndingPeriod
  BY <1>2 DEF EndingPeriod
<1>5. p \in Nat /\ due - M < e /\ e <= due
  BY <1>3, EpochInPeriod
<1>6. first <= p
  BY <1>3, PeriodsInOrder
<1>7. p <= final
  BY <1>3, PeriodsInOrder
<1>8. first \in Nat /\ final \in Nat
  BY <1>3, EpochInPeriod
<1>9. p \in PeriodsBetween(s, to, A, M) /\ final \in PeriodsBetween(s, to, A, M)
  <2> HIDE DEF p
  <2>1. p \in first .. final /\ final \in first .. final
    <3> HIDE DEF first, final
    <3> QED BY <1>5, <1>6, <1>7, <1>8
  <2>2. QED BY <2>1 DEF PeriodsBetween
<1>10. p < final => due < input.now
  <2>1. p \in PeriodsBetween(fromEpoch, input.toEpoch, input.activationEpoch, input.periodLength)
    BY <1>2, <1>9
  <2>2. p < EndingPeriod => CalcPeriodDeadline(input.activationEpoch, p, input.periodLength) < input.now
    BY <1>1, <2>1, NextPeriodBegins
  <2>3. QED BY <1>2, <1>4, <2>2
<1>11. p < final => due <= last - M
  BY <1>5, <1>8, DeadlinesInOrder
<1>12. due \in Nat /\ last \in Nat
  BY <1>5, <1>8, DeadlineType
<1>13. beginning = IF s >= last - M THEN s ELSE last - M
  BY <1>12, MaxOfTwo DEF BeginningOf
<1>14. p = final => due = last
  OBVIOUS
<1> HIDE DEF p, final, first, due, last, beginning
<1>15. p = final <=> beginning < e
  <2>1. CASE p = final
    BY <1>3, <1>5, <1>12, <1>13, <1>14, <2>1
  <2>2. CASE p # final
    <3>1. p < final
      BY <1>5, <1>7, <1>8, <2>2
    <3>2. e <= last - M
      BY <1>5, <1>11, <1>12, <3>1
    <3>3. QED BY <1>12, <1>13, <2>2, <3>2
  <2>3. QED BY <2>1, <2>2
<1>16. QED BY <1>2, <1>4, <1>5, <1>7, <1>8, <1>10, <1>15 DEF p, due, beginning

\* Every epoch is paid whose period is proven, and settlement stops before the first epoch
\* whose period is open.
THEOREM LoopFollowsTheSettlementRules == Spec => []LoopMeetsTheSettlementRules
<1> DEFINE A    == input.activationEpoch
           M    == input.periodLength
           epochs == input.fromEpoch + 1 .. input.toEpoch
           periodOf(e) == ProvingPeriodForEpoch(A, e, M)
           due(e) == CalcPeriodDeadline(A, periodOf(e), M)
           billable == {e \in epochs : e > A}
           paid == {e \in billable : periodOf(e) \in input.proven}
           open == {e \in billable : periodOf(e) \notin input.proven /\ due(e) >= input.now}
           beginning == BeginningOf(EndingPeriod, fromEpoch, A, M)
           last == CalcPeriodDeadline(A, EndingPeriod, M)
<1>1. ASSUME LoopInv, pc = "returned"
      PROVE  provenEpochCount = Cardinality(paid)
  <2>1. input \in Inputs
    BY <1>1 DEF LoopInv
  <2>2. /\ input.proven \in SUBSET Nat /\ input.fromEpoch \in Nat /\ input.toEpoch \in Nat
        /\ A \in Nat
    BY <2>1, InputType
  <2>3. ASSUME NEW e \in epochs, periodOf(e) \in input.proven PROVE e > A
    <3>1. periodOf(e) # -1
      BY <2>2, <2>3
    <3>2. ~ (e <= A)
      BY <3>1 DEF ProvingPeriodForEpoch, NoPeriod
    <3>3. QED BY <2>2, <3>2
  <2>4. paid = ProvenWithin(input.proven, input.fromEpoch, input.toEpoch, A, M)
    BY <2>3 DEF ProvenWithin
  <2>5. QED BY <1>1, <2>4, WhatIsReturned
<1>2. ASSUME LoopInv, pc = "returned"
      PROVE  settleUpTo = IF open = {} THEN input.toEpoch ELSE Min(open) - 1
  <2>1. /\ input \in Inputs /\ fromEpoch = Max({input.fromEpoch, A})
        /\ period = EndingPeriod + 1 /\ settleUpTo = SettledBefore(period)
    BY <1>2 DEF LoopInv
  <2>2. EndingPeriod \in PeriodsBetween(fromEpoch, input.toEpoch, A, M)
    BY <1>2, WhatIsReturned
  <2>3. settleUpTo = IF EndingPeriod \in input.proven \/ last < input.now
                     THEN EndOf(EndingPeriod, input.toEpoch, A, M)
                     ELSE SettledBefore(EndingPeriod)
    BY <2>1, <2>2, SettledWithNextPeriod
  <2>4. /\ EndingPeriod \in Nat /\ EndOf(EndingPeriod, input.toEpoch, A, M) = input.toEpoch
        /\ beginning \in Nat /\ beginning < input.toEpoch /\ fromEpoch <= beginning
    BY <2>1, <2>2, NextPeriodBegins
  <2>5. SettledBefore(EndingPeriod) = beginning
    BY <2>4 DEF SettledBefore
  <2>6. /\ input.fromEpoch \in Nat /\ input.toEpoch \in Nat /\ A \in Nat /\ input.now \in Nat
        /\ M \in Nat \ {0} /\ fromEpoch \in Nat /\ input.fromEpoch <= fromEpoch /\ A <= fromEpoch
    BY <2>1, InputType, LoopStart
  <2>7. last \in Nat
    BY <2>4, <2>6, DeadlineType
  <2>8. ASSUME NEW e \in billable
        PROVE  /\ e \in Nat
               /\ e \in open <=> /\ beginning < e /\ EndingPeriod \notin input.proven
                                 /\ last >= input.now
    <3>1. e \in Nat /\ input.fromEpoch < e /\ A < e /\ e <= input.toEpoch
      BY <2>6
    <3>2. /\ periodOf(e) < EndingPeriod => due(e) < input.now
          /\ periodOf(e) <= EndingPeriod
          /\ periodOf(e) \in Nat
          /\ periodOf(e) = EndingPeriod <=> beginning < e
      BY <1>2, <3>1, PeriodOfBillable
    <3>3. due(e) \in Nat
      BY <2>6, <3>2, DeadlineType
    <3>4. CASE periodOf(e) = EndingPeriod
      BY <3>1, <3>2, <3>4
    <3>5. CASE periodOf(e) # EndingPeriod
      <4>1. due(e) < input.now
        <5> HIDE DEF due, periodOf
        <5> QED BY <2>4, <3>2, <3>5
      <4>2. ~ (due(e) >= input.now)
        <5> HIDE DEF due
        <5> QED BY <2>6, <3>3, <4>1
      <4>3. e \notin open
        BY <4>2
      <4>4. QED BY <3>1, <3>2, <3>5, <4>3
    <3>6. QED BY <3>4, <3>5
  <2>9. open \subseteq billable
    OBVIOUS
  <2>10. \A e \in beginning + 1 .. input.toEpoch : e \in billable
    <3> HIDE DEF beginning
    <3> QED BY <2>4, <2>6
  <2> HIDE DEF open, beginning, last
  <2>11. CASE EndingPeriod \in input.proven \/ last < input.now
    <3>1. open = {}
      <4>1. ~ (EndingPeriod \notin input.proven /\ last >= input.now)
        BY <2>6, <2>7, <2>11
      <4>2. QED BY <2>8, <2>9, <4>1
    <3>2. QED BY <2>3, <2>4, <2>11, <3>1
  <2>12. CASE EndingPeriod \notin input.proven /\ ~ (last < input.now)
    <3>1. last >= input.now
      BY <2>6, <2>7, <2>12
    <3>2. beginning + 1 \in open
      <4>1. beginning + 1 \in beginning + 1 .. input.toEpoch /\ beginning < beginning + 1
        BY <2>4, <2>6
      <4>2. QED BY <2>8, <2>10, <2>12, <3>1, <4>1
    <3>3. \A e \in open : e \in Nat /\ beginning + 1 <= e
      BY <2>4, <2>8, <2>9
    <3>4. Min(open) = beginning + 1
      BY <3>2, <3>3, MinReached
    <3>5. Min(open) - 1 = beginning
      BY <2>4, <3>4
    <3>6. QED BY <2>3, <2>5, <2>12, <3>2, <3>5
  <2>13. QED BY <2>11, <2>12
<1>3. LoopInv => LoopMeetsTheSettlementRules
  BY <1>1, <1>2 DEF LoopMeetsTheSettlementRules
<1>4. QED BY <1>3, LoopInvariant, PTL

\* Of the periods of a range only the last can be open when the loop comes to it.
THEOREM OnlyTheLastIsOpen == Spec => []OnlyTheLastPeriodCanBeOpen
<1>1. ASSUME LoopInv, period < EndingPeriod PROVE IsProven \/ IsFaulted
  <2> DEFINE first == ProvingPeriodForEpoch(input.activationEpoch, fromEpoch + 1, input.periodLength)
  <2>1. /\ input \in Inputs /\ fromEpoch = Max({input.fromEpoch, input.activationEpoch})
        /\ period \in first .. EndingPeriod + 1
        /\ deadline = CalcPeriodDeadline(input.activationEpoch, period, input.periodLength)
    BY <1>1 DEF LoopInv
  <2>2. first \in Nat /\ EndingPeriod \in Nat
    BY <2>1, FirstPeriodBegins
  <2>3. period \in first .. EndingPeriod
    <3> HIDE DEF first
    <3> QED BY <1>1, <2>1, <2>2
  <2>4. period \in PeriodsBetween(fromEpoch, input.toEpoch, input.activationEpoch, input.periodLength)
    BY <2>3 DEF PeriodsBetween, EndingPeriod
  <2>5. deadline < input.now
    BY <1>1, <2>1, <2>4, NextPeriodBegins
  <2>6. QED BY <2>5 DEF IsFaulted
<1>2. LoopInv => OnlyTheLastPeriodCanBeOpen
  BY <1>1 DEF OnlyTheLastPeriodCanBeOpen
<1>3. QED BY <1>2, LoopInvariant, PTL
=============================================================================
