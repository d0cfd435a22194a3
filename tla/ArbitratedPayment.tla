-------------------------- MODULE ArbitratedPayment --------------------------
(***************************************************************************)
(* What payment with arbitration promises client and provider of a data    *)
(* set, whatever rails, rate changes, periods and deadlines it is made of. *)
(* Every epoch has a price, fixed before the epoch begins.  A proof earns  *)
(* the epochs around the one it arrives in.  A settlement moves on over    *)
(* some epochs and pays the prices of the earned ones among them; that     *)
(* decides them for good, since no proof arrives for them any more.        *)
(***************************************************************************)
EXTENDS Integers, FiniteSetsExt

CONSTANTS DataSets, FirstEpoch, MaxEpoch

VARIABLES now,
          price,     \* of each epoch, for each data set
          account    \* of each data set that is under arbitration

NothingEarned == [earned |-> {}, settledUpTo |-> 0, paid |-> 0]

Init ==
  /\ now = FirstEpoch
  /\ price = [d \in DataSets |-> [e \in FirstEpoch .. MaxEpoch |-> 0]]
  /\ account = [d \in DataSets |-> NothingEarned]

\* The price of the epoch that begins is fixed, those of the others stay.
NewEpoch ==
  /\ now' = now + 1
  /\ price' \in [DataSets -> [FirstEpoch .. MaxEpoch -> Nat]]
  /\ \A d \in DataSets : \A e \in FirstEpoch .. MaxEpoch : e # now' => price'[d][e] = price[d][e]
  /\ UNCHANGED account

\* A proof earns the epochs from first to last; none of those that it adds is settled.
Prove(d, first, last) ==
  LET added == (first .. last) \ account[d].earned
  IN  /\ \A e \in added : e > account[d].settledUpTo
      /\ account' = [account EXCEPT ![d].earned = account[d].earned \cup added]
      /\ UNCHANGED <<now, price>>

\* The epochs from the last settlement up to upTo that are earned.
EarnedUntil(d, upTo) == {e \in account[d].earned : account[d].settledUpTo < e /\ e <= upTo}

Owed(d, upTo) == MapThenSumSet(LAMBDA e : price[d][e], EarnedUntil(d, upTo))

Settle(d, upTo) ==
  /\ account[d].settledUpTo <= upTo
  /\ account' = [account EXCEPT ![d] = [earned      |-> account[d].earned,
                                        settledUpTo |-> upTo,
                                        paid        |-> account[d].paid + Owed(d, upTo)]]
  /\ UNCHANGED <<now, price>>

\* The data set leaves arbitration: its payer settles without it, or proving starts again
\* on a data set that was emptied, where nothing is promised.
Leave(d) ==
  /\ account' = [other \in (DOMAIN account) \ {d} |-> account[other]]
  /\ UNCHANGED <<now, price>>

Next ==
  \/ NewEpoch
  \/ \E d \in DOMAIN account :
       \/ \E first \in FirstEpoch .. now, last \in now .. MaxEpoch : Prove(d, first, last)
       \/ \E upTo \in FirstEpoch .. now : Settle(d, upTo)
       \/ Leave(d)

Spec == Init /\ [][Next]_<<now, price, account>>

-----------------------------------------------------------------------------
(* What this promises.                                                     *)

\* What an account was paid is the sum over its earned epochs up to the last settlement,
\* each at its own price, and nothing is paid ahead of time (what validatePayment's
\* answers add up to).
PaidForTheEarned ==
  \A d \in DOMAIN account :
    /\ account[d].settledUpTo <= now
    /\ account[d].paid = MapThenSumSet(LAMBDA e : price[d][e],
                                      {e \in account[d].earned : e <= account[d].settledUpTo})

\* Settlement is final: as long as the account stays under arbitration its settlement does
\* not go back, and no settled epoch changes its price or is earned late
\* (settleRail, possessionProven, updatePaymentRates).
SettledForGood ==
  [][\A d \in (DOMAIN account) \cap (DOMAIN account') :
       /\ account[d].settledUpTo <= account'[d].settledUpTo
       /\ \A e \in FirstEpoch .. MaxEpoch : e <= account[d].settledUpTo =>
            /\ price'[d][e] = price[d][e]
            /\ e \in account'[d].earned <=> e \in account[d].earned]_<<now, price, account>>
==============================================================================
