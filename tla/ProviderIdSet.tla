---------------------------- MODULE ProviderIdSet ----------------------------
(***************************************************************************)
(* ProviderIdSet.sol: provider ids packed into the words of an array,      *)
(* SlotsPerWord (8 in the contract) of them to a word.  One instance of it *)
(* holds the endorsed providers.                                           *)
(*                                                                         *)
(* A word is a function from its slots to ids, slot 0 being the lowest     *)
(* bits; the value 0 marks an empty slot.  The shifts and masks of the     *)
(* contract read and write single slots of such a word.                    *)
(***************************************************************************)
EXTENDS Integers, Sequences

CONSTANTS
    ProviderIds,      \* the ids the owner passes to the contract
    SlotsPerWord,     \* ids packed into one word
    IdLimit           \* ids are below this, else they do not fit a slot

ASSUME SlotsAssumption == SlotsPerWord \in Nat \ {0}
ASSUME ProviderIdsAssumption == ProviderIds \subseteq Nat

VARIABLE list         \* the array of words

Slots == 0..(SlotsPerWord - 1)
SlotValues == ProviderIds \cup {0}
Words == [Slots -> SlotValues]

\* Where a slot is: the word's index and the slot's in it.
Positions(words) == (DOMAIN words) \X Slots

Content(words, p) == words[p[1]][p[2]]

\* An array with slot p overwritten, and a word that holds one id.
Put(words, p, value) == [words EXCEPT ![p[1]][p[2]] = value]
WordOf(id) == [j \in Slots |-> IF j = 0 THEN id ELSE 0]

\* The order in which the loops visit the slots.
Precedes(p, q) == p[1] < q[1] \/ (p[1] = q[1] /\ p[2] <= q[2])

First(S) == CHOOSE p \in S : \A q \in S : Precedes(p, q)

\* The loops over i and j look no further than an empty slot or the id itself.
Stops(words, id) == {p \in Positions(words) : Content(words, p) \in {0, id}}

\* The slots a reader sees: it shifts a word until nothing is left of it, so
\* an empty slot below an occupied one is seen too.
Seen(words) ==
    {p \in Positions(words) : \E j \in p[2]..(SlotsPerWord - 1) : words[p[1]][j] # 0}

ContainsProviderId(words, id) == \E p \in Seen(words) : Content(words, p) = id

------------------------------------------------------------------------------

Init == list = <<>>

\* addProviderId: fills the first empty slot unless the id comes first.  A new word
\* is pushed when neither exists.
AddProviderId(id) ==
    /\ id < IdLimit
    /\ LET stops == Stops(list, id) IN
       list' = IF stops = {}
               THEN Append(list, WordOf(id))
               ELSE Put(list, First(stops), id)

\* The highest occupied slot of a word, 0 if none above 0 is.
LastSlot(word) ==
    CHOOSE k \in Slots : /\ k = 0 \/ word[k] # 0
                         /\ \A j \in (k + 1)..(SlotsPerWord - 1) : word[j] = 0

\* Defect: the last word goes, whatever else it holds.
PopLastWord(words, p) ==
    LET last == words[Len(words)]
    IN  SubSeq(Put(words, p, last[LastSlot(last)]), 1, Len(words) - 1)

\* Defect: the moved item stays in its old place as well.
CopyLastTo(words, p) ==
    LET last == words[Len(words)]
        moved == Put(words, p, last[LastSlot(last)])
    IN  IF LastSlot(last) = 0 THEN SubSeq(moved, 1, Len(words) - 1) ELSE moved

\* The array when slot p has been overwritten with the last item and that
\* item is taken from its own place; a word with one item goes altogether.
MoveLastTo(words, p) ==
    LET k == LastSlot(words[Len(words)])
        moved == Put(words, p, words[Len(words)][k])
    IN  IF k = 0
        THEN SubSeq(moved, 1, Len(words) - 1)
        ELSE Put(moved, <<Len(words), k>>, 0)

\* removeProviderId: reverts at an empty slot, and when the id is nowhere.
RemoveProviderId(id) ==
    LET stops == Stops(list, id) IN
    /\ stops # {}
    /\ Content(list, First(stops)) # 0
    /\ list' = MoveLastTo(list, First(stops))

Next == \E id \in ProviderIds : AddProviderId(id) \/ RemoveProviderId(id)

Spec == Init /\ [][Next]_list
------------------------------------------------------------------------------

\* The ids stored in the array.
Members(words) == {Content(words, p) : p \in Positions(words)} \ {0}

Abstract == INSTANCE IdSet WITH Ids <- ProviderIds, ids <- Members(list)

\* Each call does to the members what its namesake does to a set.
CallsMatch ==
    \A id \in ProviderIds : /\ AddProviderId(id) => Abstract!Add(id)
                            /\ RemoveProviderId(id) => Abstract!Remove(id)

(***************************************************************************)
(* Additions and removals through packed words, with their early exits and *)
(* the move of the last item into the hole, are additions to and removals  *)
(* from a set, of the same id and in every order of calls ("No-op if       *)
(* providerId is already in the set", "Reverts if providerId is not in the *)
(* set").                                                                  *)
(***************************************************************************)
ImplementsIdSet == Abstract!Spec /\ [][CallsMatch]_list

(***************************************************************************)
(* What the readers return agrees with the members: every slot that        *)
(* getProviderIds copies holds an id of its own, with no gap between them, *)
(* so no id is listed twice, no 0 is listed, and none stays behind a gap   *)
(* where removeProviderId would not find it.                               *)
(***************************************************************************)
ListedOnceWithoutGaps ==
    \A p \in Seen(list) :
        /\ Content(list, p) # 0
        /\ \A q \in Seen(list) : Content(list, p) = Content(list, q) => p = q
        /\ \A q \in Positions(list) : Precedes(q, p) => q \in Seen(list)
==============================================================================
