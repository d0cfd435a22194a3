-------------------------------- MODULE IdSet --------------------------------
(***************************************************************************)
(* What a set of provider ids promises its callers: addition puts an id    *)
(* in, removal takes a member out, and nothing else happens.  How the ids  *)
(* are stored is not said here; ProviderIdSet is shown to implement it.    *)
(***************************************************************************)
CONSTANT Ids      \* the ids a caller may name

VARIABLE ids      \* the members

Init == ids = {}

Add(id) == ids' = ids \cup {id}

Remove(id) ==
    /\ id \in ids
    /\ ids' = ids \ {id}

Next == \E id \in Ids : Add(id) \/ Remove(id)

Spec == Init /\ [][Next]_ids
==============================================================================
