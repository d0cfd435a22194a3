--------------------------- MODULE MCAuthorization ---------------------------
(***************************************************************************)
(* Instances of Authorization for TLC.                                     *)
(***************************************************************************)
EXTENDS Authorization, TLC

\* A key may be given the permission to create data sets alone, or everything.
OneOrAll == {{"CreateDataSet"}, Kinds}

Symmetry == Permutations(Numbers)
=============================================================================
