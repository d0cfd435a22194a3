--------------------------- MODULE MCWarmStorage ---------------------------
(***************************************************************************)
(* Small instances of FilecoinWarmStorageService for TLC.                  *)
(***************************************************************************)
EXTENDS WarmStorageProperties

CONSTANTS p1, p2, n1, n2, n3

OnePayer  == {p1}
TwoPayers == {p1, p2}

TwoNonces    == {n1, n2}
ThreeNonces  == {n1, n2, n3}
NonceSymmetry == Permutations(ThreeNonces)
PayerAndNonceSymmetry == Permutations(TwoPayers) \cup NonceSymmetry

ThreeByOne == [maxProvingPeriod |-> 3, challengeWindowSize |-> 1]
TwoByOne   == [maxProvingPeriod |-> 2, challengeWindowSize |-> 1]
ThreeByOneOnly == {ThreeByOne}
=============================================================================
