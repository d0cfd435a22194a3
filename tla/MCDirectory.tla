----------------------------- MODULE MCDirectory -----------------------------
(***************************************************************************)
(* Small instances of ProviderDirectory for TLC.                           *)
(***************************************************************************)
EXTENDS ProviderDirectory, TLC

CONSTANTS sp1, sp2, serviceURL, ipniPiece, v1, fwss1, fwss2, fwss3, view1

TwoAddresses == {sp1, sp2}
AddressSymmetry == Permutations(TwoAddresses)
TwoKeys == {serviceURL, ipniPiece}
OneRequiredKey == {serviceURL}
OneValue == {v1}
ThreeImplementations == {fwss1, fwss2, fwss3}
OneView == {view1}

\* Two bits a key, one of them shared, so that an optional key passes for a
\* part of the required ones but not for all.
OverlappingBits == [k \in TwoKeys |-> IF k = serviceURL THEN {1, 2} ELSE {2, 3}]

==============================================================================
