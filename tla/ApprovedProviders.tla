--------------------------- MODULE ApprovedProviders ---------------------------
(***************************************************************************)
(* The providers the owner of FilecoinWarmStorageService approved: a flag  *)
(* per id, an array of the ids, and the pages a reader of the array gets.  *)
(* Every action is one transaction of the owner, whose arguments may have  *)
(* been read off the array before other transactions changed it.           *)
(***************************************************************************)
EXTENDS Integers, Sequences, FiniteSets

CONSTANTS
    ApprovableIds,         \* ids the owner may name
    LargestNumber          \* the largest number a request can hold

ASSUME ApprovalAssumption == LargestNumber \in Nat

VARIABLES
    approvedProviders,     \* id -> flag
    approvedProviderIds    \* the array

approvalVars == <<approvedProviders, approvedProviderIds>>

ApprovalInit ==
    /\ approvedProviders = [id \in ApprovableIds |-> FALSE]
    /\ approvedProviderIds = <<>>

\* An index of the array counts from 0.
At(index) == approvedProviderIds[index + 1]
HasIndex(index) == index + 1 \in DOMAIN approvedProviderIds

AddApprovedProvider(id) ==
    /\ ~approvedProviders[id]
    /\ approvedProviders' = [approvedProviders EXCEPT ![id] = TRUE]
    /\ approvedProviderIds' = Append(approvedProviderIds, id)

\* Defect: the index is taken on trust.
HasAnyId(index, id) == HasIndex(index)

\* The check that the array has the id at this index; an index past the end reverts.
HasIdAt(index, id) == HasIndex(index) /\ At(index) = id

\* The array without this index: the last item takes its place.
SwapAndPop(index) ==
    LET length == Len(approvedProviderIds)
    IN  SubSeq([approvedProviderIds EXCEPT ![index + 1] = approvedProviderIds[length]],
               1, length - 1)

RemoveApprovedProvider(id, index) ==
    /\ approvedProviders[id]
    /\ HasIdAt(index, id)
    /\ approvedProviders' = [approvedProviders EXCEPT ![id] = FALSE]
    /\ approvedProviderIds' = SwapAndPop(index)

ApprovalNext ==
    \E id \in ApprovableIds :
        \/ AddApprovedProvider(id)
        \/ \E index \in 0..Len(approvedProviderIds) : RemoveApprovedProvider(id, index)

ApprovalSpec == ApprovalInit /\ [][ApprovalNext]_approvalVars

------------------------------------------------------------------------------
(* What readers see *)

IsProviderApproved(id) == approvedProviders[id]

\* Checked arithmetic overflows.
PageReverted == "page reverted"

\* getApprovedProviders: limit 0 asks for the rest.
GetApprovedProviders(offset, limit) ==
    LET length == Len(approvedProviderIds) IN
    IF offset >= length THEN <<>>
    ELSE IF limit = 0 THEN SubSeq(approvedProviderIds, offset + 1, length)
    ELSE IF offset + limit > LargestNumber THEN PageReverted
    ELSE SubSeq(approvedProviderIds, offset + 1,
                IF offset + limit > length THEN length ELSE offset + limit)

\* How often an id is shown to somebody who asks for page after page of limit entries.
TimesShown(id, limit) ==
    Cardinality({p \in (0..Len(approvedProviderIds)) \X (1..limit) :
                     LET page == GetApprovedProviders(p[1] * limit, limit)
                     IN  p[2] \in DOMAIN page /\ page[p[2]] = id})

\* How often it is in the answer to a request for everything.
TimesListed(id) ==
    LET all == GetApprovedProviders(0, 0)
    IN  Cardinality({i \in DOMAIN all : all[i] = id})

(***************************************************************************)
(* A provider that reads as approved is on exactly one page of the list,   *)
(* and once in the whole list, and one that does not is on none: additions *)
(* and removals by swap-and-pop, at an index the owner may have read before*)
(* the last removal moved the ids, never take out, double or leave behind  *)
(* another id than the one named (isProviderApproved and                   *)
(* getApprovedProviders read the flag and the array separately).           *)
(***************************************************************************)
ApprovedOnExactlyOnePage ==
    \A id \in ApprovableIds :
        LET times == IF IsProviderApproved(id) THEN 1 ELSE 0
        IN  /\ TimesListed(id) = times
            /\ \A limit \in 1..(Len(approvedProviderIds) + 1) : TimesShown(id, limit) = times
==============================================================================
