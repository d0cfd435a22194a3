------------------------------ MODULE Consent ------------------------------
(***************************************************************************)
(* What the signatures of the service promise a payer: an order is carried *)
(* out only if it is wanted, at most once, and never beside another order  *)
(* that it conflicts with. Orders are opaque.                              *)
(***************************************************************************)
EXTENDS Naturals

CONSTANTS Orders,
          Conflicts   \* pairs of orders of which at most one may be carried out

VARIABLES wanted,     \* orders that somebody who may speak for the payer has given
          carriedOut  \* how often each order was carried out

Init ==
    /\ wanted = {}
    /\ carriedOut = [o \in Orders |-> 0]

Want ==
    /\ wanted \subseteq wanted' /\ wanted' \subseteq Orders
    /\ UNCHANGED carriedOut

CarryOut(o) ==
    /\ o \in wanted
    /\ carriedOut[o] = 0
    /\ \A other \in Orders : <<o, other>> \in Conflicts => carriedOut[other] = 0
    /\ carriedOut' = [carriedOut EXCEPT ![o] = @ + 1]
    /\ UNCHANGED wanted

Next == Want \/ \E o \in Orders : CarryOut(o)

Spec == Init /\ [][Next]_<<wanted, carriedOut>>
=============================================================================
