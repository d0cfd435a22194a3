-------------------------- MODULE DirectoryProofs ---------------------------
(***************************************************************************)
(* The parts of ProviderDirectory keep their promises for any number of    *)
(* addresses, ids, keys, slots of a word, implementations and blocks: the  *)
(* lists of ids, the registry with its upgrades, and its pages.            *)
(***************************************************************************)
EXTENDS ProviderDirectory, FiniteSetTheorems, ArithmeticLemmas

-----------------------------------------------------------------------------
(***************************************************************************)
(* Part 1.  ProviderIdSet implements a set of ids, for every number of     *)
(* slots in a word and every set of ids without 0; and the list of         *)
(* approved providers agrees with their flags, for every set of ids.       *)
(***************************************************************************)

-----------------------------------------------------------------------------
(* The two searches end where they should. *)

\* Among some slots of an array there is one that comes before all others.
LEMMA FirstComesFirst ==
  ASSUME NEW words \in Seq(Words), NEW S \in SUBSET Positions(words), S # {}
  PROVE  First(S) \in S /\ \A q \in S : Precedes(First(S), q)
<1> DEFINE rows == {p[1] : p \in S}
           row == Min(rows)
           columns == {p[2] : p \in {q \in S : q[1] = row}}
           column == Min(columns)
<1>1. \A p \in S : p[1] \in Nat /\ p[2] \in Nat /\ p = <<p[1], p[2]>>
  BY SlotsAssumption DEF Positions, Slots
<1>2. row \in rows /\ \A i \in rows : row <= i
  <2>1. rows \in SUBSET Nat /\ rows # {}
    BY <1>1
  <2> HIDE DEF rows
  <2> QED BY <2>1, MinOfNaturals
<1>3. column \in columns /\ \A j \in columns : column <= j
  <2>1. columns \in SUBSET Nat /\ columns # {}
    BY <1>1, <1>2
  <2> HIDE DEF columns
  <2> QED BY <2>1, MinOfNaturals
<1>4. PICK p \in S : p[1] = row /\ p[2] = column
  BY <1>3
<1>5. \A q \in S : row <= q[1] /\ (q[1] = row => column <= q[2])
  BY <1>2, <1>3
<1>6. \A q \in S : Precedes(p, q)
  <2> SUFFICES ASSUME NEW q \in S PROVE Precedes(p, q)
    OBVIOUS
  <2> HIDE DEF row, column
  <2> QED BY <1>1, <1>4, <1>5 DEF Precedes
<1>7. QED
  BY <1>6 DEF First

\* The last occupied slot of a word, slot 0 if the word is empty.
LEMMA LastSlotIsLast ==
  ASSUME NEW word \in Words
  PROVE  /\ LastSlot(word) \in Slots
         /\ LastSlot(word) = 0 \/ word[LastSlot(word)] # 0
         /\ \A j \in Slots : j > LastSlot(word) => word[j] = 0
<1> DEFINE occupied == {0} \cup {j \in Slots : word[j] # 0}
           k == Max(occupied)
<1>1. k \in occupied /\ \A j \in occupied : k >= j
  <2>1. occupied \in SUBSET Int /\ occupied # {} /\ \A j \in occupied : j <= SlotsPerWord
    BY SlotsAssumption DEF Slots
  <2>2. SlotsPerWord \in Int
    BY SlotsAssumption
  <2> HIDE DEF occupied
  <2> QED BY <2>1, <2>2, MaxOfBoundedSet
<1>2. k \in Slots /\ (k = 0 \/ word[k] # 0)
  BY <1>1, SlotsAssumption DEF Slots
<1>3. \A j \in (k + 1)..(SlotsPerWord - 1) : word[j] = 0
  <2> SUFFICES ASSUME NEW j \in (k + 1)..(SlotsPerWord - 1), word[j] # 0
               PROVE  FALSE
    OBVIOUS
  <2> HIDE DEF k
  <2>1. j \in Slots
    BY <1>2, SlotsAssumption DEF Slots
  <2>2. k >= j
    BY <1>1, <2>1
  <2> QED BY <1>2, <2>2 DEF Slots
<1> HIDE DEF k
<1>4. /\ LastSlot(word) \in Slots
      /\ LastSlot(word) = 0 \/ word[LastSlot(word)] # 0
      /\ \A j \in (LastSlot(word) + 1)..(SlotsPerWord - 1) : word[j] = 0
  BY <1>2, <1>3 DEF LastSlot
<1>5. QED
  BY <1>4, SlotsAssumption DEF Slots

-----------------------------------------------------------------------------
(* What is true of the array. *)

\* Items lie without gaps from the first slot on, each once, and the last word is not empty.
Packed(words) ==
  /\ \A q \in Positions(words) : Content(words, q) # 0 =>
         \A p \in Positions(words) : Precedes(p, q) => Content(words, p) # 0
  /\ words # <<>> => Content(words, <<Len(words), 0>>) # 0
  /\ \A p, q \in Positions(words) :
         Content(words, p) = Content(words, q) /\ Content(words, p) # 0 => p = q

PackedInv == list \in Seq(Words) /\ Packed(list)

\* Positions of an array, taken apart.
LEMMA PositionFacts ==
  ASSUME NEW words \in Seq(Words)
  PROVE  /\ \A p \in Positions(words) : /\ p[1] \in 1..Len(words) /\ p[2] \in Slots
                                         /\ p = <<p[1], p[2]>>
                                         /\ Content(words, p) \in SlotValues
         /\ \A i \in 1..Len(words), j \in Slots :
                <<i, j>> \in Positions(words) /\ Content(words, <<i, j>>) = words[i][j]
<1>1. DOMAIN words = 1..Len(words) /\ \A i \in 1..Len(words) : words[i] \in [Slots -> SlotValues]
  BY DEF Words
<1>2. QED
  BY <1>1 DEF Positions, Content

\* Writing one slot changes that slot and no other.
LEMMA WriteSlot ==
  ASSUME NEW words \in Seq(Words), NEW p \in Positions(words), NEW v \in SlotValues
  PROVE  /\ Put(words, p, v) \in Seq(Words) /\ Len(Put(words, p, v)) = Len(words)
         /\ Positions(Put(words, p, v)) = Positions(words)
         /\ \A q \in Positions(words) :
                Content(Put(words, p, v), q) = IF q = p THEN v ELSE Content(words, q)
<1> DEFINE new == Put(words, p, v)
           i == p[1]
           j == p[2]
<1>1. i \in 1..Len(words) /\ j \in Slots /\ p = <<i, j>>
  BY PositionFacts
<1>2. words[i] \in [Slots -> SlotValues]
  BY <1>1 DEF Words
<1>3. new = [words EXCEPT ![i] = [words[i] EXCEPT ![j] = v]]
  BY DEF Put
<1> HIDE DEF new
<1>4. [words[i] EXCEPT ![j] = v] \in Words
  BY <1>1, <1>2 DEF Words
<1>5. new \in Seq(Words) /\ Len(new) = Len(words) /\ DOMAIN new = DOMAIN words
  BY <1>1, <1>3, <1>4
<1>6. Positions(new) = Positions(words)
  BY <1>5 DEF Positions
<1>7. ASSUME NEW q \in Positions(words)
      PROVE  Content(new, q) = IF q = p THEN v ELSE Content(words, q)
  <2>1. q[1] \in 1..Len(words) /\ q[2] \in Slots /\ q = <<q[1], q[2]>>
    BY PositionFacts
  <2>2. CASE q[1] # i
    <3>1. new[q[1]] = words[q[1]]
      BY <1>1, <1>3, <2>1, <2>2
    <3>2. q # p
      BY <2>2
    <3>3. QED BY <3>1, <3>2 DEF Content
  <2>3. CASE q[1] = i
    <3>1. new[q[1]] = [words[i] EXCEPT ![j] = v]
      BY <1>1, <1>3, <2>3
    <3>2. new[q[1]][q[2]] = IF q[2] = j THEN v ELSE words[i][q[2]]
      BY <1>2, <2>1, <3>1
    <3>3. q = p <=> q[2] = j
      BY <1>1, <2>1, <2>3
    <3>4. QED BY <2>3, <3>2, <3>3 DEF Content
  <2>4. QED BY <2>2, <2>3
<1>8. QED BY <1>5, <1>6, <1>7 DEF new

-----------------------------------------------------------------------------
(* Addition. *)

\* The pushed word holds one id, in its lowest slot.
LEMMA PushWord ==
  ASSUME NEW words \in Seq(Words), NEW id \in ProviderIds
  PROVE  LET new == Append(words, WordOf(id)) IN
         /\ new \in Seq(Words) /\ Len(new) = Len(words) + 1
         /\ Positions(words) \subseteq Positions(new)
         /\ \A q \in Positions(new) :
                Content(new, q) = IF q \in Positions(words) THEN Content(words, q)
                                  ELSE IF q[2] = 0 THEN id ELSE 0
         /\ \A q \in Positions(new) : q \in Positions(words) <=> q[1] <= Len(words)
<1> DEFINE word == WordOf(id)
           new == Append(words, word)
<1>1. word \in Words /\ \A j \in Slots : word[j] = IF j = 0 THEN id ELSE 0
  BY DEF WordOf, Words, SlotValues
<1> HIDE DEF word
<1>2. new \in Seq(Words) /\ Len(new) = Len(words) + 1
  BY <1>1 DEF word
<1>3. /\ new[Len(words) + 1] = word
      /\ \A i \in 1..Len(words) : new[i] = words[i]
  BY <1>1 DEF word
<1> HIDE DEF new
<1>4. DOMAIN new = 1..(Len(words) + 1) /\ DOMAIN words = 1..Len(words)
  BY <1>2
<1>5. Positions(new) = (1..(Len(words) + 1)) \X Slots /\ Positions(words) = (1..Len(words)) \X Slots
  BY <1>4 DEF Positions
<1>6. ASSUME NEW q \in Positions(new)
      PROVE  /\ q \in Positions(words) <=> q[1] <= Len(words)
             /\ Content(new, q) = IF q \in Positions(words) THEN Content(words, q)
                                  ELSE IF q[2] = 0 THEN id ELSE 0
  <2>1. q[1] \in 1..(Len(words) + 1) /\ q[2] \in Slots /\ q = <<q[1], q[2]>>
    BY <1>5
  <2>2. q \in Positions(words) <=> q[1] \in 1..Len(words)
    BY <1>5, <2>1
  <2>3. q[1] \in 1..Len(words) <=> q[1] <= Len(words)
    BY <2>1
  <2>4. CASE q[1] \in 1..Len(words)
    BY <1>3, <2>2, <2>3, <2>4 DEF Content
  <2>5. CASE q[1] = Len(words) + 1
    BY <1>1, <1>3, <2>1, <2>2, <2>3, <2>5 DEF Content
  <2>6. QED BY <2>1, <2>4, <2>5
<1>7. Positions(words) \subseteq Positions(new)
  BY <1>5
<1>8. QED BY <1>2, <1>6, <1>7 DEF new, word

LEMMA AddKeepsPacked ==
  ASSUME 0 \notin ProviderIds, PackedInv, NEW id \in ProviderIds, AddProviderId(id)
  PROVE  PackedInv' /\ Members(list') = Members(list) \cup {id}
<1> DEFINE stops == Stops(list, id)
<1>1. stops \subseteq Positions(list) /\ id # 0
  BY DEF Stops
<1>2. CASE stops = {}
  <2>1. list' = Append(list, WordOf(id))
    BY <1>2 DEF AddProviderId
  <2>2. list \in Seq(Words)
    BY DEF PackedInv
  <2>3. /\ list' \in Seq(Words) /\ Len(list') = Len(list) + 1
        /\ Positions(list) \subseteq Positions(list')
        /\ \A q \in Positions(list') :
               Content(list', q) = IF q \in Positions(list) THEN Content(list, q)
                                   ELSE IF q[2] = 0 THEN id ELSE 0
        /\ \A q \in Positions(list') : q \in Positions(list) <=> q[1] <= Len(list)
    <3>1. PICK old, new : old = list /\ new = list'
      OBVIOUS
    <3>2. old \in Seq(Words) /\ new = Append(old, WordOf(id))
      BY <2>1, <2>2, <3>1
    <3>3. /\ new \in Seq(Words) /\ Len(new) = Len(old) + 1
          /\ Positions(old) \subseteq Positions(new)
          /\ \A q \in Positions(new) :
                 Content(new, q) = IF q \in Positions(old) THEN Content(old, q)
                                   ELSE IF q[2] = 0 THEN id ELSE 0
          /\ \A q \in Positions(new) : q \in Positions(old) <=> q[1] <= Len(old)
      BY <3>2, PushWord
    <3>4. QED BY <3>1, <3>3
  <2>4. \A q \in Positions(list) : Content(list, q) # 0 /\ Content(list, q) # id
    BY <1>2 DEF Stops
  <2>5. \A q \in Positions(list') : /\ q[1] \in 1..(Len(list) + 1) /\ q[2] \in Slots
                                    /\ q = <<q[1], q[2]>>
    BY <2>3, PositionFacts
  <2>6. <<Len(list) + 1, 0>> \in Positions(list')
    <3>1. 0 \in Slots
      BY SlotsAssumption DEF Slots
    <3>2. Len(list) + 1 \in 1..Len(list')
      BY <2>2, <2>3
    <3>3. QED BY <2>3, <3>1, <3>2, PositionFacts
  <2>7. Content(list', <<Len(list) + 1, 0>>) = id
    BY <2>2, <2>3, <2>6
  <2>8. \A q \in Positions(list') \ Positions(list) : q[1] = Len(list) + 1
    BY <2>2, <2>3, <2>5
  <2>9. \A q \in Positions(list') \ Positions(list) :
            Content(list', q) # 0 => q = <<Len(list) + 1, 0>>
    BY <2>3, <2>5, <2>8
  <2>10. ASSUME NEW q \in Positions(list'), Content(list', q) # 0,
                NEW p \in Positions(list'), Precedes(p, q)
         PROVE  Content(list', p) # 0
    <3>1. CASE p \in Positions(list)
      BY <2>3, <2>4, <3>1
    <3>2. CASE p \notin Positions(list)
      <4>1. p[1] = Len(list) + 1
        BY <2>8, <3>2
      <4>2. q[1] = Len(list) + 1 /\ p[2] <= q[2]
        BY <2>2, <2>5, <2>10, <4>1 DEF Precedes
      <4>3. q \notin Positions(list)
        BY <2>2, <2>3, <4>2
      <4>4. q[2] = 0
        BY <2>9, <2>10, <4>3
      <4>5. p[2] = 0
        BY <2>5, <4>2, <4>4 DEF Slots
      <4>6. QED BY <2>3, <3>2, <4>5, <1>1
    <3>3. QED BY <3>1, <3>2
  <2>11. ASSUME NEW p \in Positions(list'), NEW q \in Positions(list'),
                Content(list', p) = Content(list', q), Content(list', p) # 0
         PROVE  p = q
    <3>1. CASE p \in Positions(list) /\ q \in Positions(list)
      BY <2>3, <2>11, <3>1 DEF PackedInv, Packed
    <3>2. CASE p \notin Positions(list) /\ q \notin Positions(list)
      BY <2>9, <2>11, <3>2
    <3>3. CASE p \in Positions(list) /\ q \notin Positions(list)
      BY <2>3, <2>4, <2>7, <2>9, <2>11, <3>3
    <3>4. CASE p \notin Positions(list) /\ q \in Positions(list)
      BY <2>3, <2>4, <2>7, <2>9, <2>11, <3>4
    <3>5. QED BY <3>1, <3>2, <3>3, <3>4
  <2>12. Content(list', <<Len(list'), 0>>) # 0
    BY <1>1, <2>3, <2>7
  <2>13. PackedInv'
    BY <2>3, <2>10, <2>11, <2>12 DEF PackedInv, Packed
  <2>14. Members(list') = Members(list) \cup {id}
    <3>1. ASSUME NEW x \in Members(list') PROVE x \in Members(list) \cup {id}
      BY <2>3 DEF Members
    <3>2. ASSUME NEW x \in Members(list) PROVE x \in Members(list')
      BY <2>3 DEF Members
    <3>3. id \in Members(list')
      BY <1>1, <2>6, <2>7 DEF Members
    <3>4. QED BY <3>1, <3>2, <3>3
  <2>15. QED BY <2>13, <2>14
<1>3. CASE stops # {}
  <2> DEFINE p == First(stops)
  <2>1. list \in Seq(Words)
    BY DEF PackedInv
  <2>2. p \in stops /\ \A q \in stops : Precedes(p, q)
    BY <1>1, <1>3, <2>1, FirstComesFirst
  <2>3. list' = Put(list, p, id)
    BY <1>3 DEF AddProviderId
  <2> HIDE DEF p
  <2>4. p \in Positions(list) /\ Content(list, p) \in {0, id}
    BY <2>2 DEF Stops
  <2>5. id \in SlotValues
    BY DEF SlotValues
  <2>6. /\ list' \in Seq(Words) /\ Len(list') = Len(list) /\ Positions(list') = Positions(list)
        /\ \A q \in Positions(list) :
               Content(list', q) = IF q = p THEN id ELSE Content(list, q)
    <3>1. PICK old, new, place : old = list /\ new = list' /\ place = p
      OBVIOUS
    <3>2. /\ old \in Seq(Words) /\ place \in Positions(old)
          /\ new = Put(old, place, id)
      BY <2>1, <2>3, <2>4, <3>1
    <3>3. /\ Put(old, place, id) \in Seq(Words) /\ Len(Put(old, place, id)) = Len(old)
          /\ Positions(Put(old, place, id)) = Positions(old)
          /\ \A q \in Positions(old) :
                 Content(Put(old, place, id), q) = IF q = place THEN id ELSE Content(old, q)
      BY <2>5, <3>2, WriteSlot
    <3>4. QED BY <3>1, <3>2, <3>3
  <2>7. \A q \in Positions(list) : Content(list, q) = id => q = p
    <3> SUFFICES ASSUME NEW q \in Positions(list), Content(list, q) = id PROVE q = p
      OBVIOUS
    <3>1. Precedes(p, q)
      BY <2>2 DEF Stops
    <3>2. Content(list, p) # 0
      BY <1>1, <2>4, <3>1 DEF PackedInv, Packed
    <3>3. QED BY <1>1, <2>4, <3>2 DEF PackedInv, Packed
  <2>8. ASSUME NEW q \in Positions(list), Content(list', q) # 0,
               NEW r \in Positions(list), Precedes(r, q)
        PROVE  Content(list', r) # 0
    <3>1. CASE r = p
      BY <1>1, <2>6, <3>1
    <3>2. CASE r # p /\ q = p
      <4>1. r \notin stops
        <5>1. ASSUME r \in stops PROVE FALSE
          <6>1. Precedes(p, r)
            BY <2>2, <5>1
          <6>2. p = r
            BY <2>1, <2>4, <2>8, <3>2, <6>1, PositionFacts DEF Precedes, Slots
          <6>3. QED BY <3>2, <6>2
        <5>2. QED BY <5>1
      <4>2. Content(list, r) # 0
        BY <4>1 DEF Stops
      <4>3. QED BY <2>6, <3>2, <4>2
    <3>3. CASE r # p /\ q # p
      BY <2>6, <2>8, <3>3 DEF PackedInv, Packed
    <3>4. QED BY <3>1, <3>2, <3>3
  <2>9. ASSUME NEW q \in Positions(list), NEW r \in Positions(list),
               Content(list', q) = Content(list', r), Content(list', q) # 0
        PROVE  q = r
    BY <2>6, <2>7, <2>9 DEF PackedInv, Packed
  <2>10. list' # <<>> => Content(list', <<Len(list'), 0>>) # 0
    <3> SUFFICES ASSUME list' # <<>> PROVE Content(list', <<Len(list'), 0>>) # 0
      OBVIOUS
    <3>1. list # <<>>
      BY <2>1, <2>6
    <3>2. Len(list) \in 1..Len(list) /\ 0 \in Slots
      BY <2>1, <3>1, SlotsAssumption DEF Slots
    <3>3. <<Len(list), 0>> \in Positions(list)
      BY <2>1, <3>2, PositionFacts
    <3>4. Content(list, <<Len(list), 0>>) # 0
      BY <3>1 DEF PackedInv, Packed
    <3>5. QED BY <1>1, <2>6, <3>3, <3>4
  <2>11. PackedInv'
    BY <2>6, <2>8, <2>9, <2>10 DEF PackedInv, Packed
  <2>12. Members(list') = Members(list) \cup {id}
    <3>1. ASSUME NEW x \in Members(list') PROVE x \in Members(list) \cup {id}
      BY <2>6 DEF Members
    <3>2. ASSUME NEW x \in Members(list) PROVE x \in Members(list')
      <4>1. PICK q \in Positions(list) : Content(list, q) = x /\ x # 0
        BY <3>2 DEF Members
      <4>2. Content(list', q) = x
        BY <2>4, <2>6, <4>1
      <4>3. QED BY <2>6, <4>1, <4>2 DEF Members
    <3>3. id \in Members(list')
      BY <1>1, <2>4, <2>6 DEF Members
    <3>4. QED BY <3>1, <3>2, <3>3
  <2>13. QED BY <2>11, <2>12
<1>4. QED BY <1>2, <1>3

-----------------------------------------------------------------------------
(* Removal. *)

\* The slot of the last item.
LastItem(words) == <<Len(words), LastSlot(words[Len(words)])>>

\* Every item lies before the last one.
LEMMA LastItemIsLast ==
  ASSUME NEW words \in Seq(Words), Packed(words), words # <<>>
  PROVE  /\ LastItem(words) \in Positions(words) /\ Content(words, LastItem(words)) # 0
         /\ \A q \in Positions(words) :
                Content(words, q) # 0 => Precedes(q, LastItem(words))
<1> DEFINE n == Len(words)
           k == LastSlot(words[n])
<1>1. n \in 1..Len(words) /\ words[n] \in Words
  OBVIOUS
<1>2. k \in Slots /\ (k = 0 \/ words[n][k] # 0) /\ \A j \in Slots : j > k => words[n][j] = 0
  <2>1. PICK word \in Words : word = words[n]
    BY <1>1
  <2>2. /\ LastSlot(word) \in Slots /\ (LastSlot(word) = 0 \/ word[LastSlot(word)] # 0)
        /\ \A j \in Slots : j > LastSlot(word) => word[j] = 0
    BY LastSlotIsLast
  <2>3. QED BY <2>1, <2>2
<1> HIDE DEF k
<1>3. LastItem(words) = <<n, k>>
  BY DEF LastItem, k
<1>4. <<n, k>> \in Positions(words) /\ Content(words, <<n, k>>) = words[n][k]
  BY <1>1, <1>2, PositionFacts
<1>5. words[n][k] # 0
  BY <1>2, <1>4 DEF Packed
<1>6. ASSUME NEW q \in Positions(words), Content(words, q) # 0
      PROVE  Precedes(q, <<n, k>>)
  <2>1. q[1] \in 1..n /\ q[2] \in Slots /\ Content(words, q) = words[q[1]][q[2]]
    BY PositionFacts DEF Content
  <2>2. CASE q[1] = n
    <3>1. q[2] <= k
      BY <1>2, <1>6, <2>1, <2>2 DEF Slots
    <3>2. QED BY <2>2, <3>1 DEF Precedes
  <2>3. CASE q[1] # n
    BY <1>1, <2>1, <2>3 DEF Precedes
  <2>4. QED BY <2>2, <2>3
<1>7. QED BY <1>3, <1>4, <1>5, <1>6

\* After the move, slot p holds the last item, whose own slot is empty or gone.
LEMMA MovedContents ==
  ASSUME NEW words \in Seq(Words), Packed(words), words # <<>>, NEW p \in Positions(words)
  PROVE  LET new == MoveLastTo(words, p)
             e == LastItem(words)
         IN  /\ new \in Seq(Words) /\ Positions(new) \subseteq Positions(words)
             /\ Len(new) = IF e[2] = 0 THEN Len(words) - 1 ELSE Len(words)
             /\ \A q \in Positions(words) : q \in Positions(new) <=> q[1] <= Len(new)
             /\ \A q \in Positions(new) :
                    Content(new, q) = IF q = e THEN 0
                                      ELSE IF q = p THEN Content(words, e)
                                      ELSE Content(words, q)
<1> DEFINE n == Len(words)
           k == LastSlot(words[n])
           e == <<n, k>>
           item == words[n][k]
           moved == Put(words, p, item)
           new == MoveLastTo(words, p)
<1>1. LastItem(words) = e
  BY DEF LastItem
<1>2. e \in Positions(words)
  BY <1>1, LastItemIsLast
<1>3. n \in Nat \ {0} /\ k \in Slots /\ k \in Nat
  <2>1. n \in Nat \ {0}
    OBVIOUS
  <2> HIDE DEF n, k
  <2>2. k \in Slots
    BY <1>2, PositionFacts
  <2>3. QED BY <2>1, <2>2 DEF Slots
<1>4. item \in SlotValues /\ item = Content(words, e)
  BY <1>2, PositionFacts DEF Content
<1>5. new = IF k = 0 THEN SubSeq(moved, 1, n - 1) ELSE Put(moved, <<n, k>>, 0)
  BY DEF MoveLastTo
<1> HIDE DEF item, new, k
<1>6. /\ moved \in Seq(Words) /\ Len(moved) = n /\ Positions(moved) = Positions(words)
      /\ \A q \in Positions(words) : Content(moved, q) = IF q = p THEN item ELSE Content(words, q)
  <2>1. PICK v \in SlotValues : v = item
    BY <1>4
  <2>2. /\ Put(words, p, v) \in Seq(Words) /\ Len(Put(words, p, v)) = n
        /\ Positions(Put(words, p, v)) = Positions(words)
        /\ \A q \in Positions(words) :
               Content(Put(words, p, v), q) = IF q = p THEN v ELSE Content(words, q)
    BY WriteSlot
  <2>3. QED BY <2>1, <2>2
<1> HIDE DEF moved
<1>7. CASE k = 0
  <2>1. new = SubSeq(moved, 1, n - 1)
    BY <1>5, <1>7
  <2>2. new \in Seq(Words) /\ Len(new) = n - 1 /\ \A i \in 1..(n - 1) : new[i] = moved[i]
    BY <1>3, <1>6, <2>1
  <2>3. DOMAIN new = 1..(n - 1) /\ DOMAIN words = 1..n
    BY <1>3, <2>2
  <2>4. Positions(new) = (1..(n - 1)) \X Slots /\ Positions(words) = (1..n) \X Slots
    BY <2>3 DEF Positions
  <2>5. Positions(new) \subseteq Positions(words)
    BY <1>3, <2>4
  <2>6. ASSUME NEW q \in Positions(words)
        PROVE  q \in Positions(new) <=> q[1] <= Len(new)
    <3>1. q[1] \in 1..n /\ q[2] \in Slots /\ q = <<q[1], q[2]>>
      BY <2>4
    <3>2. q \in Positions(new) <=> q[1] \in 1..(n - 1)
      BY <2>4, <3>1
    <3>3. QED BY <1>3, <2>2, <3>1, <3>2
  <2>7. ASSUME NEW q \in Positions(new)
        PROVE  Content(new, q) = IF q = e THEN 0 ELSE IF q = p THEN item ELSE Content(words, q)
    <3>1. q[1] \in 1..(n - 1)
      BY <2>4
    <3>2. q # e
      BY <1>3, <3>1
    <3>3. Content(new, q) = Content(moved, q)
      BY <2>2, <3>1 DEF Content
    <3>4. QED BY <1>6, <2>5, <3>2, <3>3
  <2>8. QED BY <1>1, <1>4, <1>7, <2>2, <2>5, <2>6, <2>7 DEF new
<1>8. CASE k # 0
  <2>1. new = Put(moved, e, 0)
    BY <1>5, <1>8
  <2>2. e \in Positions(moved) /\ 0 \in SlotValues
    BY <1>2, <1>6 DEF SlotValues
  <2>3. /\ new \in Seq(Words) /\ Len(new) = n /\ Positions(new) = Positions(words)
        /\ \A q \in Positions(words) : Content(new, q) = IF q = e THEN 0 ELSE Content(moved, q)
    <3> HIDE DEF e
    <3> QED BY <1>6, <2>1, <2>2, WriteSlot
  <2>4. \A q \in Positions(words) : q[1] <= n
    BY PositionFacts
  <2>5. \A q \in Positions(new) :
            Content(new, q) = IF q = e THEN 0 ELSE IF q = p THEN item ELSE Content(words, q)
    BY <1>6, <2>3
  <2>6. \A q \in Positions(words) : q \in Positions(new) <=> q[1] <= Len(new)
    BY <2>3, <2>4
  <2>7. Len(new) = IF e[2] = 0 THEN n - 1 ELSE n
    BY <1>8, <2>3
  <2>8. Positions(new) \subseteq Positions(words)
    BY <2>3
  <2> HIDE DEF e
  <2>9. QED BY <1>1, <1>4, <2>3, <2>5, <2>6, <2>7, <2>8 DEF new
<1>9. QED BY <1>7, <1>8

LEMMA RemoveKeepsPacked ==
  ASSUME PackedInv, NEW id \in ProviderIds, RemoveProviderId(id)
  PROVE  /\ PackedInv'
         /\ id \in Members(list) /\ Members(list') = Members(list) \ {id}
<1> DEFINE stops == Stops(list, id)
           p == First(stops)
           e == LastItem(list)
<1>1. list \in Seq(Words) /\ Packed(list)
  BY DEF PackedInv
<1>2. stops \subseteq Positions(list) /\ stops # {}
  BY DEF Stops, RemoveProviderId
<1>3. p \in stops
  BY <1>1, <1>2, FirstComesFirst
<1>4. p \in Positions(list) /\ Content(list, p) = id /\ id # 0
  BY <1>3 DEF Stops, RemoveProviderId
<1>5. list' = MoveLastTo(list, p)
  BY DEF RemoveProviderId
<1> HIDE DEF p
<1>6. list # <<>>
  BY <1>1, <1>4, PositionFacts
<1>7. /\ e \in Positions(list) /\ Content(list, e) # 0
      /\ \A q \in Positions(list) : Content(list, q) # 0 => Precedes(q, e)
  BY <1>1, <1>6, LastItemIsLast
<1>8. /\ list' \in Seq(Words) /\ Positions(list') \subseteq Positions(list)
      /\ Len(list') = IF e[2] = 0 THEN Len(list) - 1 ELSE Len(list)
      /\ \A q \in Positions(list) : q \in Positions(list') <=> q[1] <= Len(list')
      /\ \A q \in Positions(list') :
             Content(list', q) = IF q = e THEN 0
                                 ELSE IF q = p THEN Content(list, e) ELSE Content(list, q)
  <2>1. PICK old, place : old = list /\ place = p
    BY <1>4
  <2>2. old \in Seq(Words) /\ Packed(old) /\ old # <<>> /\ place \in Positions(old)
    BY <1>1, <1>4, <1>6, <2>1
  <2>3. LET new == MoveLastTo(old, place)
            last == LastItem(old)
        IN  /\ new \in Seq(Words) /\ Positions(new) \subseteq Positions(old)
            /\ Len(new) = IF last[2] = 0 THEN Len(old) - 1 ELSE Len(old)
            /\ \A q \in Positions(old) : q \in Positions(new) <=> q[1] <= Len(new)
            /\ \A q \in Positions(new) :
                   Content(new, q) = IF q = last THEN 0
                                     ELSE IF q = place THEN Content(old, last)
                                     ELSE Content(old, q)
    BY <2>2, MovedContents
  <2>4. QED BY <1>5, <2>1, <2>3
<1>9. e[1] = Len(list) /\ Len(list) \in Nat /\ e = <<e[1], e[2]>>
  BY <1>1 DEF LastItem
<1> HIDE DEF e
\* All that a slot may hold after the step, it held before, or the last item did.
<1>10. \A q \in Positions(list') : Content(list', q) # 0 => q # e /\ Content(list, q) # 0
  BY <1>4, <1>8
<1>11. \A p1, p2 \in Positions(list) : Precedes(p1, p2) /\ Precedes(p2, p1) => p1 = p2
  <2> SUFFICES ASSUME NEW p1 \in Positions(list), NEW p2 \in Positions(list),
                      Precedes(p1, p2), Precedes(p2, p1)
               PROVE  p1 = p2
    OBVIOUS
  <2>1. /\ p1[1] \in Nat /\ p1[2] \in Nat /\ p1 = <<p1[1], p1[2]>>
        /\ p2[1] \in Nat /\ p2[2] \in Nat /\ p2 = <<p2[1], p2[2]>>
    BY <1>1, PositionFacts DEF Slots
  <2>2. p1[1] = p2[1] /\ p1[2] = p2[2]
    BY <2>1 DEF Precedes
  <2>3. QED BY <2>1, <2>2
<1>12. ASSUME NEW q \in Positions(list'), Content(list', q) # 0,
              NEW r \in Positions(list'), Precedes(r, q)
       PROVE  Content(list', r) # 0
  <2>1. Content(list, r) # 0
    BY <1>1, <1>8, <1>10, <1>12 DEF Packed
  <2>2. r # e
    <3>1. Precedes(q, e) /\ q # e
      BY <1>7, <1>8, <1>10, <1>12
    <3>2. QED BY <1>7, <1>8, <1>11, <1>12, <3>1
  <2>3. QED BY <1>7, <1>8, <2>1, <2>2
<1>13. ASSUME NEW q \in Positions(list'), NEW r \in Positions(list'),
              Content(list', q) = Content(list', r), Content(list', q) # 0
       PROVE  q = r
  <2>1. q # e /\ r # e
    BY <1>10, <1>13
  <2>2. CASE q = p
    BY <1>1, <1>7, <1>8, <1>13, <2>1, <2>2 DEF Packed
  <2>3. CASE r = p
    BY <1>1, <1>7, <1>8, <1>13, <2>1, <2>3 DEF Packed
  <2>4. CASE q # p /\ r # p
    BY <1>1, <1>8, <1>13, <2>1, <2>4 DEF Packed
  <2>5. QED BY <2>2, <2>3, <2>4
<1>14. list' # <<>> => Content(list', <<Len(list'), 0>>) # 0
  <2> SUFFICES ASSUME list' # <<>> PROVE Content(list', <<Len(list'), 0>>) # 0
    OBVIOUS
  <2> DEFINE t == <<Len(list'), 0>>
  <2>1. Len(list') \in 1..Len(list) /\ 0 \in Slots
    BY <1>1, <1>8, SlotsAssumption DEF Slots
  <2>2. t \in Positions(list) /\ t[1] = Len(list')
    BY <1>1, <2>1, PositionFacts
  <2>3. t \in Positions(list')
    BY <1>8, <2>1, <2>2
  <2>4. t # e
    BY <1>8, <1>9, <2>1
  <2>5. Precedes(t, e)
    <3>1. e[2] \in Nat
      BY <1>1, <1>7, PositionFacts DEF Slots
    <3>2. QED BY <1>8, <1>9, <2>1, <3>1 DEF Precedes
  <2> HIDE DEF t
  <2>6. Content(list, t) # 0
    BY <1>1, <1>7, <2>2, <2>5 DEF Packed
  <2>7. Content(list', t) # 0
    BY <1>7, <1>8, <2>3, <2>4, <2>6
  <2>8. QED BY <2>7 DEF t
<1>15. PackedInv'
  BY <1>8, <1>12, <1>13, <1>14 DEF PackedInv, Packed
<1>16. id \in Members(list)
  BY <1>4 DEF Members
\* Only the last item's slot disappears with an item in it.
<1>17. \A q \in Positions(list) \ Positions(list') : Content(list, q) # 0 => q = e
  <2> SUFFICES ASSUME NEW q \in Positions(list), q \notin Positions(list'), Content(list, q) # 0
               PROVE  q = e
    OBVIOUS
  <2>1. q[1] \in 1..Len(list) /\ q[2] \in Nat /\ q = <<q[1], q[2]>> /\ e[2] \in Nat
    BY <1>1, <1>7, PositionFacts DEF Slots
  <2>2. q[1] > Len(list')
    BY <1>1, <1>8, <2>1
  <2>3. e[2] = 0 /\ q[1] = Len(list)
    BY <1>8, <1>9, <2>1, <2>2
  <2>4. Precedes(q, e)
    BY <1>7
  <2>5. q[2] = 0
    BY <1>9, <2>1, <2>3, <2>4 DEF Precedes
  <2>6. QED BY <1>9, <2>1, <2>3, <2>5
<1>18. ASSUME NEW x \in Members(list')
       PROVE  x \in Members(list) /\ x # id
  <2>1. PICK q \in Positions(list') : Content(list', q) = x /\ x # 0
    BY DEF Members
  <2>2. q # e /\ q \in Positions(list)
    BY <1>8, <1>10, <2>1
  <2>3. CASE q = p
    BY <1>1, <1>4, <1>7, <1>8, <2>1, <2>2, <2>3 DEF Members, Packed
  <2>4. CASE q # p
    BY <1>1, <1>4, <1>8, <2>1, <2>2, <2>4 DEF Members, Packed
  <2>5. QED BY <2>3, <2>4
<1>19. ASSUME NEW x \in Members(list), x # id
       PROVE  x \in Members(list')
  <2>1. PICK q \in Positions(list) : Content(list, q) = x /\ x # 0
    BY DEF Members
  <2>2. q # p
    BY <1>4, <1>19, <2>1
  <2>3. CASE q = e
    <3>1. p \in Positions(list')
      BY <1>4, <1>17, <2>2, <2>3
    <3>2. Content(list', p) = x
      BY <1>8, <2>1, <2>2, <2>3, <3>1
    <3>3. QED BY <2>1, <3>1, <3>2 DEF Members
  <2>4. CASE q # e
    <3>1. q \in Positions(list')
      BY <1>17, <2>1, <2>4
    <3>2. Content(list', q) = x
      BY <1>8, <2>1, <2>2, <2>4, <3>1
    <3>3. QED BY <2>1, <3>1, <3>2 DEF Members
  <2>5. QED BY <2>3, <2>4
<1>20. QED BY <1>15, <1>16, <1>18, <1>19

-----------------------------------------------------------------------------

LEMMA PackedInvHolds ==
  ASSUME 0 \notin ProviderIds
  PROVE  Spec => []PackedInv
<1>1. Init => PackedInv
  <2> SUFFICES ASSUME Init PROVE PackedInv
    OBVIOUS
  <2>1. list = <<>> /\ Positions(list) = {}
    BY DEF Init, Positions
  <2>2. QED BY <2>1 DEF PackedInv, Packed
<1>2. PackedInv /\ [Next]_list => PackedInv'
  <2> SUFFICES ASSUME PackedInv, [Next]_list PROVE PackedInv'
    OBVIOUS
  <2>1. CASE \E id \in ProviderIds : AddProviderId(id)
    BY <2>1, AddKeepsPacked
  <2>2. CASE \E id \in ProviderIds : RemoveProviderId(id)
    BY <2>2, RemoveKeepsPacked
  <2>3. CASE UNCHANGED list
    BY <2>3 DEF PackedInv
  <2>4. QED BY <2>1, <2>2, <2>3 DEF Next
<1>3. QED BY <1>1, <1>2, PTL DEF Spec

(***************************************************************************)
(* If 0 is never passed for an id, the packed array is a set to those who  *)
(* add and remove: each call is the operation of its name on that set.     *)
(***************************************************************************)
THEOREM ProviderIdSetImplementsIdSet ==
  ASSUME 0 \notin ProviderIds
  PROVE  Spec => ImplementsIdSet
<1>1. Init => Abstract!Init
  BY DEF Init, Abstract!Init, Members, Positions
<1>2. PackedInv => CallsMatch
  BY AddKeepsPacked, RemoveKeepsPacked DEF CallsMatch, Abstract!Add, Abstract!Remove
<1>3. PackedInv /\ [Next]_list => [Abstract!Next]_(Members(list))
  <2> SUFFICES ASSUME PackedInv, [Next]_list PROVE [Abstract!Next]_(Members(list))
    OBVIOUS
  <2>1. ASSUME NEW id \in ProviderIds, AddProviderId(id) PROVE Abstract!Next
    BY <1>2, <2>1 DEF CallsMatch, Abstract!Next
  <2>2. ASSUME NEW id \in ProviderIds, RemoveProviderId(id) PROVE Abstract!Next
    BY <1>2, <2>2 DEF CallsMatch, Abstract!Next
  <2>3. UNCHANGED list => UNCHANGED Members(list)
    OBVIOUS
  <2>4. QED BY <2>1, <2>2, <2>3 DEF Next
<1>4. PackedInv /\ [Next]_list => [CallsMatch]_list
  BY <1>2
<1>5. Spec => []PackedInv
  BY PackedInvHolds
<1>6. Spec => Abstract!Spec /\ [][CallsMatch]_list
  BY <1>1, <1>3, <1>4, <1>5, PTL DEF Spec, Abstract!Spec
<1>7. QED BY <1>6 DEF ImplementsIdSet

(***************************************************************************)
(* If 0 is never passed for an id, the readers list every id once and      *)
(* nothing stays behind a gap.                                             *)
(***************************************************************************)
THEOREM ProviderIdsAreListedOnceWithoutGaps ==
  ASSUME 0 \notin ProviderIds
  PROVE  Spec => []ListedOnceWithoutGaps
<1>1. PackedInv => ListedOnceWithoutGaps
  <2> SUFFICES ASSUME PackedInv PROVE ListedOnceWithoutGaps
    OBVIOUS
  <2>1. ASSUME NEW p \in Positions(list)
        PROVE  p[2] \in p[2]..(SlotsPerWord - 1) /\ Content(list, p) = list[p[1]][p[2]]
    <3>1. p[2] \in Slots
      BY PositionFacts DEF PackedInv
    <3>2. QED BY <3>1, SlotsAssumption DEF Slots, Content
  <2>2. ASSUME NEW p \in Seen(list)
        PROVE  p \in Positions(list) /\ Content(list, p) # 0
    <3>1. PICK j \in p[2]..(SlotsPerWord - 1) : list[p[1]][j] # 0
      BY DEF Seen
    <3>2. p \in Positions(list) /\ p[1] \in 1..Len(list) /\ p[2] \in Slots
      BY PositionFacts DEF Seen, PackedInv
    <3>3. j \in Slots /\ p[2] <= j
      BY <3>1, <3>2, SlotsAssumption DEF Slots
    <3>4. /\ <<p[1], j>> \in Positions(list)
          /\ Content(list, <<p[1], j>>) # 0
      BY <3>1, <3>2, <3>3, PositionFacts DEF PackedInv
    <3>5. Precedes(p, <<p[1], j>>)
      BY <3>3 DEF Precedes
    <3>6. QED BY <3>2, <3>4, <3>5 DEF PackedInv, Packed
  <2>3. ASSUME NEW p \in Positions(list), Content(list, p) # 0
        PROVE  p \in Seen(list)
    BY <2>1, <2>3 DEF Seen
  <2>4. QED BY <2>2, <2>3 DEF ListedOnceWithoutGaps, PackedInv, Packed
<1>2. Spec => []PackedInv
  BY PackedInvHolds
<1>3. QED BY <1>1, <1>2, PTL
-----------------------------------------------------------------------------
(* The approved providers. *)

\* Exactly the flagged ids are in the array, each in one place.
ApprovalInv ==
  /\ approvedProviders \in [ApprovableIds -> BOOLEAN]
  /\ approvedProviderIds \in Seq(ApprovableIds)
  /\ \A id \in ApprovableIds :
       approvedProviders[id] <=> \E i \in DOMAIN approvedProviderIds : approvedProviderIds[i] = id
  /\ \A i, j \in DOMAIN approvedProviderIds :
       approvedProviderIds[i] = approvedProviderIds[j] => i = j

\* What swap-and-pop leaves: the items before the last, with the last one at the index.
LEMMA SwappedAndPopped ==
  ASSUME approvedProviderIds \in Seq(ApprovableIds),
         NEW index \in Nat, HasIndex(index)
  PROVE  /\ SwapAndPop(index) \in Seq(ApprovableIds)
         /\ DOMAIN SwapAndPop(index) = 1..(Len(approvedProviderIds) - 1)
         /\ \A i \in 1..(Len(approvedProviderIds) - 1) :
              SwapAndPop(index)[i] =
                approvedProviderIds[IF i = index + 1 THEN Len(approvedProviderIds) ELSE i]
<1> DEFINE length == Len(approvedProviderIds)
           swapped == [approvedProviderIds EXCEPT ![index + 1] = approvedProviderIds[length]]
<1>1. length \in Nat /\ DOMAIN approvedProviderIds = 1..length /\ index + 1 \in 1..length
  BY DEF HasIndex
<1>2. \A i \in 1..length : approvedProviderIds[i] \in ApprovableIds
  BY <1>1
<1>3. swapped \in [1..length -> ApprovableIds]
  BY <1>1, <1>2
<1>4. swapped \in Seq(ApprovableIds) /\ Len(swapped) = length
  BY <1>1, <1>3
<1>5. \A i \in 1..length : swapped[i] = approvedProviderIds[IF i = index + 1 THEN length ELSE i]
  BY <1>1
<1>6. SwapAndPop(index) = SubSeq(swapped, 1, length - 1)
  BY DEF SwapAndPop
<1> HIDE DEF swapped
<1>7. /\ SubSeq(swapped, 1, length - 1) \in Seq(ApprovableIds)
      /\ Len(SubSeq(swapped, 1, length - 1)) = length - 1
      /\ \A i \in 1..(length - 1) : SubSeq(swapped, 1, length - 1)[i] = swapped[i]
  BY <1>1, <1>4
<1>8. QED BY <1>1, <1>5, <1>6, <1>7

LEMMA ApprovalInvHolds == ApprovalSpec => []ApprovalInv
<1>1. ApprovalInit => ApprovalInv
  BY DEF ApprovalInit, ApprovalInv
<1>2. ApprovalInv /\ [ApprovalNext]_approvalVars => ApprovalInv'
  <2> SUFFICES ASSUME ApprovalInv, [ApprovalNext]_approvalVars PROVE ApprovalInv'
    OBVIOUS
  <2> DEFINE length == Len(approvedProviderIds)
  <2>1. length \in Nat /\ DOMAIN approvedProviderIds = 1..length
    BY DEF ApprovalInv
  <2>2. ASSUME NEW id \in ApprovableIds, AddApprovedProvider(id)
        PROVE  ApprovalInv'
    <3>1. /\ approvedProviders' = [approvedProviders EXCEPT ![id] = TRUE]
          /\ approvedProviderIds' \in Seq(ApprovableIds)
          /\ DOMAIN approvedProviderIds' = 1..(length + 1)
          /\ approvedProviderIds'[length + 1] = id
          /\ \A i \in 1..length : approvedProviderIds'[i] = approvedProviderIds[i]
      <4>1. approvedProviderIds \in Seq(ApprovableIds)
        BY DEF ApprovalInv
      <4>2. /\ approvedProviders' = [approvedProviders EXCEPT ![id] = TRUE]
            /\ approvedProviderIds' = Append(approvedProviderIds, id)
        BY <2>2 DEF AddApprovedProvider
      <4>3. QED BY <2>1, <4>1, <4>2
    <3>2. \A i \in 1..length : approvedProviderIds[i] # id
      BY <2>1, <2>2 DEF AddApprovedProvider, ApprovalInv
    <3>3. \A i, j \in 1..(length + 1) : approvedProviderIds'[i] = approvedProviderIds'[j] => i = j
      <4>1. \A i, j \in 1..length : approvedProviderIds[i] = approvedProviderIds[j] => i = j
        BY <2>1 DEF ApprovalInv
      <4> HIDE DEF length
      <4>2. QED BY <2>1, <3>1, <3>2, <4>1
    <3>4. ASSUME NEW other \in ApprovableIds
          PROVE  approvedProviders'[other] <=>
                   \E i \in 1..(length + 1) : approvedProviderIds'[i] = other
      <4>1. CASE other = id
        BY <2>1, <3>1, <4>1 DEF ApprovalInv
      <4>2. CASE other # id
        <5>1. approvedProviders'[other] = approvedProviders[other]
          BY <3>1, <4>2 DEF ApprovalInv
        <5>2. (\E i \in 1..length : approvedProviderIds[i] = other) <=>
                \E i \in 1..(length + 1) : approvedProviderIds'[i] = other
          BY <2>1, <3>1, <4>2
        <5>3. QED BY <2>1, <5>1, <5>2 DEF ApprovalInv
      <4>3. QED BY <4>1, <4>2
    <3>5. approvedProviders' \in [ApprovableIds -> BOOLEAN]
      BY <3>1 DEF ApprovalInv
    <3>6. QED BY <3>1, <3>3, <3>4, <3>5 DEF ApprovalInv
  <2>3. ASSUME NEW id \in ApprovableIds, NEW index \in 0..length, RemoveApprovedProvider(id, index)
        PROVE  ApprovalInv'
    <3>1. /\ approvedProviders' = [approvedProviders EXCEPT ![id] = FALSE]
          /\ index \in Nat /\ HasIndex(index) /\ index + 1 \in 1..length
          /\ approvedProviderIds[index + 1] = id
          /\ approvedProviderIds' = SwapAndPop(index)
      BY <2>1, <2>3 DEF RemoveApprovedProvider, HasIdAt, HasIndex, At
    <3> DEFINE Source(i) == IF i = index + 1 THEN length ELSE i
    <3>2. /\ approvedProviderIds' \in Seq(ApprovableIds)
          /\ DOMAIN approvedProviderIds' = 1..(length - 1)
          /\ \A i \in 1..(length - 1) : approvedProviderIds'[i] = approvedProviderIds[Source(i)]
      BY <2>1, <3>1, SwappedAndPopped DEF ApprovalInv
    <3>3. \A i \in 1..(length - 1) : Source(i) \in 1..length /\ Source(i) # index + 1
      BY <2>1, <3>1
    <3>4. \A i, j \in 1..(length - 1) : Source(i) = Source(j) => i = j
      BY <2>1, <3>1
    <3>10. index + 1 < length => index + 1 \in 1..(length - 1) /\ Source(index + 1) = length
      BY <2>1, <3>1
    <3>11. \A i \in 1..length : i # index + 1 /\ i # length =>
             i \in 1..(length - 1) /\ Source(i) = i
      <4>1. ASSUME NEW n \in Nat, NEW i \in 1..n, i # n
            PROVE  i \in 1..(n - 1)
        BY <4>1
      <4>2. QED BY <2>1, <4>1
    <3> HIDE DEF Source
    <3>12. \A i, j \in 1..length : approvedProviderIds[i] = approvedProviderIds[j] => i = j
      BY <2>1 DEF ApprovalInv
    <3>5. \A i, j \in 1..(length - 1) : approvedProviderIds'[i] = approvedProviderIds'[j] => i = j
      BY <3>2, <3>3, <3>4, <3>12
    <3>6. \A i \in 1..(length - 1) : approvedProviderIds'[i] # id
      BY <3>1, <3>2, <3>3, <3>12
    <3>7. ASSUME NEW other \in ApprovableIds
          PROVE  approvedProviders'[other] <=>
                   \E i \in 1..(length - 1) : approvedProviderIds'[i] = other
      <4>1. CASE other = id
        BY <3>1, <3>6, <4>1 DEF ApprovalInv
      <4>2. CASE other # id
        <5>1. approvedProviders'[other] = approvedProviders[other]
          BY <3>1, <4>2 DEF ApprovalInv
        <5>2. ASSUME NEW i \in 1..length, approvedProviderIds[i] = other
              PROVE  \E j \in 1..(length - 1) : approvedProviderIds'[j] = other
          <6>1. i # index + 1
            BY <3>1, <4>2, <5>2
          <6>2. CASE i = length
            <7>1. index + 1 < length
              <8>1. index + 1 # length /\ index + 1 \in 1..length
                BY <3>1, <6>1, <6>2
              <8>2. ASSUME NEW n \in Nat, NEW k \in 1..n, k # n
                    PROVE  k < n
                BY <8>2
              <8>3. QED BY <2>1, <8>1, <8>2
            <7>2. QED BY <3>2, <3>10, <5>2, <6>2, <7>1
          <6>3. CASE i # length
            BY <3>2, <3>11, <5>2, <6>1, <6>3
          <6>4. QED BY <6>2, <6>3
        <5>3. (\E j \in 1..(length - 1) : approvedProviderIds'[j] = other) =>
                \E i \in 1..length : approvedProviderIds[i] = other
          BY <3>2, <3>3
        <5>4. QED BY <2>1, <5>1, <5>2, <5>3 DEF ApprovalInv
      <4>3. QED BY <4>1, <4>2
    <3>8. approvedProviders' \in [ApprovableIds -> BOOLEAN]
      BY <3>1 DEF ApprovalInv
    <3>9. QED BY <3>2, <3>5, <3>7, <3>8 DEF ApprovalInv
  <2>4. CASE UNCHANGED approvalVars
    BY <2>4 DEF approvalVars, ApprovalInv
  <2>5. QED BY <2>2, <2>3, <2>4 DEF ApprovalNext
<1>3. QED BY <1>1, <1>2, PTL DEF ApprovalSpec

\* The entries of a page are those of the array behind its offset, as many as were asked for.
LEMMA PageContents ==
  ASSUME approvedProviderIds \in Seq(ApprovableIds),
         2 * Len(approvedProviderIds) <= LargestNumber,
         NEW offset \in Nat, NEW limit \in 1..(Len(approvedProviderIds) + 1), NEW r \in 1..limit,
         NEW id \in ApprovableIds
  PROVE  LET page == GetApprovedProviders(offset, limit) IN
         (r \in DOMAIN page /\ page[r] = id) <=>
           (offset + r <= Len(approvedProviderIds) /\ approvedProviderIds[offset + r] = id)
<1> DEFINE length == Len(approvedProviderIds)
           end == IF offset + limit > length THEN length ELSE offset + limit
<1>1. length \in Nat /\ limit \in Nat /\ limit # 0 /\ r \in Nat /\ 1 <= r /\ r <= limit
  OBVIOUS
<1>2. CASE offset >= length
  <2>1. GetApprovedProviders(offset, limit) = <<>>
    BY <1>2 DEF GetApprovedProviders
  <2>2. ~(offset + r <= length)
    BY <1>1, <1>2
  <2>3. QED BY <2>1, <2>2
<1>3. CASE offset < length
  <2>1. ~(offset >= length) /\ ~(offset + limit > LargestNumber)
    BY <1>1, <1>3, ApprovalAssumption
  <2>2. GetApprovedProviders(offset, limit) = SubSeq(approvedProviderIds, offset + 1, end)
    BY <1>1, <2>1 DEF GetApprovedProviders
  <2>3. end \in Nat /\ end <= length /\ offset <= end
    BY <1>1, <1>3
  <2>4. r \in 1..(end - offset) <=> offset + r <= length
    BY <1>1, <1>3
  <2> HIDE DEF end
  <2>5. /\ DOMAIN SubSeq(approvedProviderIds, offset + 1, end) = 1..(end - offset)
        /\ r \in 1..(end - offset) =>
             SubSeq(approvedProviderIds, offset + 1, end)[r] = approvedProviderIds[offset + r]
    BY <1>1, <2>3
  <2>6. QED BY <2>2, <2>4, <2>5
<1>4. QED BY <1>1, <1>2, <1>3

(***************************************************************************)
(* As long as requests can name numbers as large as twice the list is      *)
(* long, every approved provider is listed once, and on one page for every *)
(* size of pages.                                                          *)
(***************************************************************************)
THEOREM ApprovedProvidersAreOnOnePage ==
  ApprovalSpec => [](2 * Len(approvedProviderIds) <= LargestNumber => ApprovedOnExactlyOnePage)
<1> DEFINE length == Len(approvedProviderIds)
<1>1. ASSUME ApprovalInv, 2 * length <= LargestNumber, NEW id \in ApprovableIds
      PROVE  /\ TimesListed(id) = IF IsProviderApproved(id) THEN 1 ELSE 0
             /\ \A limit \in 1..(length + 1) :
                  TimesShown(id, limit) = IF IsProviderApproved(id) THEN 1 ELSE 0
  <2>1. /\ length \in Nat /\ DOMAIN approvedProviderIds = 1..length
        /\ approvedProviderIds \in Seq(ApprovableIds)
    BY <1>1 DEF ApprovalInv
  <2> DEFINE all == GetApprovedProviders(0, 0)
             listed == {i \in DOMAIN all : all[i] = id}
             Shown(limit) == {p \in (0..length) \X (1..limit) :
                                LET page == GetApprovedProviders(p[1] * limit, limit)
                                IN  p[2] \in DOMAIN page /\ page[p[2]] = id}
  <2>2. TimesListed(id) = Cardinality(listed)
        /\ \A limit : TimesShown(id, limit) = Cardinality(Shown(limit))
    BY DEF TimesListed, TimesShown
  <2>3. listed = {i \in 1..length : approvedProviderIds[i] = id}
    <3>1. CASE length = 0
      BY <2>1, <3>1 DEF GetApprovedProviders
    <3>2. CASE length # 0
      <4>1. all = SubSeq(approvedProviderIds, 0 + 1, length)
        BY <2>1, <3>2 DEF GetApprovedProviders
      <4>2. /\ DOMAIN SubSeq(approvedProviderIds, 0 + 1, length) = 1..length
            /\ \A i \in 1..length :
                 SubSeq(approvedProviderIds, 0 + 1, length)[i] = approvedProviderIds[i]
        BY <2>1
      <4>3. QED BY <4>1, <4>2
    <3>3. QED BY <3>1, <3>2
  <2>4. ASSUME NEW limit \in 1..(length + 1), NEW p \in (0..length) \X (1..limit)
        PROVE  /\ p = <<p[1], p[2]>> /\ p[1] * limit + p[2] \in 1..(p[1] * limit + p[2])
               /\ p \in Shown(limit) <=>
                    (p[1] * limit + p[2] <= length /\ approvedProviderIds[p[1] * limit + p[2]] = id)
    <3>1. p[1] \in Nat /\ p[2] \in 1..limit /\ limit \in Nat /\ p[1] * limit \in Nat
      BY <2>1
    <3>2. LET page == GetApprovedProviders(p[1] * limit, limit) IN
          (p[2] \in DOMAIN page /\ page[p[2]] = id) <=>
            (p[1] * limit + p[2] <= length /\ approvedProviderIds[p[1] * limit + p[2]] = id)
      <4>1. ASSUME NEW offset \in Nat, NEW r \in 1..limit
            PROVE  LET page == GetApprovedProviders(offset, limit) IN
                   (r \in DOMAIN page /\ page[r] = id) <=>
                     (offset + r <= length /\ approvedProviderIds[offset + r] = id)
        <5>1. 2 * Len(approvedProviderIds) <= LargestNumber /\ approvedProviderIds \in Seq(ApprovableIds)
          BY <1>1, <2>1
        <5>2. QED BY <5>1, PageContents
      <4>2. QED BY <3>1, <4>1
    <3>3. p[1] * limit + p[2] \in 1..(p[1] * limit + p[2])
      BY <3>1
    <3>4. QED BY <3>2, <3>3
  <2> HIDE DEF all, listed, Shown
  <2>5. CASE ~approvedProviders[id]
    <3>1. \A i \in 1..length : approvedProviderIds[i] # id
      BY <1>1, <2>1, <2>5 DEF ApprovalInv
    <3>2. listed = {}
      BY <2>3, <3>1
    <3>3. ASSUME NEW limit \in 1..(length + 1)
          PROVE  Shown(limit) = {}
      <4>1. Shown(limit) \subseteq (0..length) \X (1..limit)
        BY DEF Shown
      <4>2. ASSUME NEW p \in Shown(limit)
            PROVE  FALSE
        <5>1. p \in (0..length) \X (1..limit)
          BY <4>1
        <5>2. /\ p[1] * limit + p[2] \in 1..(p[1] * limit + p[2])
              /\ p[1] * limit + p[2] <= length
              /\ approvedProviderIds[p[1] * limit + p[2]] = id
          BY <2>4, <5>1
        <5>3. p[1] \in Nat /\ p[2] \in Nat /\ limit \in Nat
          BY <2>1, <5>1
        <5>4. p[1] * limit + p[2] \in 1..length
          BY <2>1, <5>2, <5>3
        <5>5. QED BY <3>1, <5>2, <5>4
      <4>3. QED BY <4>2
    <3>4. QED BY <2>2, <2>5, <3>2, <3>3, FS_EmptySet DEF IsProviderApproved
  <2>6. CASE approvedProviders[id]
    <3>1. PICK i \in 1..length : approvedProviderIds[i] = id
      BY <1>1, <2>1, <2>6 DEF ApprovalInv
    <3>2. \A j \in 1..length : approvedProviderIds[j] = id => j = i
      BY <1>1, <2>1, <3>1 DEF ApprovalInv
    <3>3. listed = {i}
      BY <2>3, <3>1, <3>2
    <3>4. ASSUME NEW limit \in 1..(length + 1)
          PROVE  Shown(limit) = {<<(i - 1) \div limit, i - limit * ((i - 1) \div limit)>>}
      <4> DEFINE n == (i - 1) \div limit
                 r == i - limit * n
      <4>1. limit \in Nat \ {0} /\ i - 1 \in Nat /\ i - 1 < length
        BY <2>1
      <4>2. n \in Nat /\ limit * n <= i - 1 /\ i - 1 < limit * n + limit
        BY <4>1, DivisionBounds
      <4>3. n <= i - 1
        BY <4>1, <4>2
      <4> HIDE DEF n
      <4>4. limit * n \in Nat /\ limit * n = n * limit
        BY <4>1, <4>2
      <4>5. n \in 0..length /\ r \in 1..limit /\ n * limit + r = i
        BY <2>1, <4>1, <4>2, <4>3, <4>4
      <4>6. <<n, r>> \in Shown(limit)
        <5>1. <<n, r>> \in (0..length) \X (1..limit) /\ i <= length
          BY <2>1, <4>5
        <5>2. QED BY <2>4, <3>1, <4>5, <5>1
      <4>7. ASSUME NEW p \in Shown(limit)
            PROVE  p = <<n, r>>
        <5>1. p \in (0..length) \X (1..limit)
          BY DEF Shown
        <5>2. /\ p = <<p[1], p[2]>>
              /\ p[1] * limit + p[2] <= length
              /\ approvedProviderIds[p[1] * limit + p[2]] = id
          BY <2>4, <5>1
        <5>3. p[1] \in Nat /\ p[2] \in 1..limit /\ p[1] * limit \in Nat
              /\ p[1] * limit = limit * p[1]
          BY <2>1, <4>1, <5>1
        <5>4. p[1] * limit + p[2] = i
          BY <2>1, <3>2, <4>1, <5>2, <5>3
        <5>5. i - 1 = limit * p[1] + (p[2] - 1) /\ p[2] - 1 \in 0 .. limit - 1
          <6>1. ASSUME NEW product \in Nat, NEW k \in 1..limit, product + k = i
                PROVE  i - 1 = product + (k - 1) /\ k - 1 \in 0 .. limit - 1
            BY <4>1, <6>1
          <6>2. limit * p[1] \in Nat /\ limit * p[1] + p[2] = i
            BY <5>3, <5>4
          <6>3. QED BY <5>3, <6>1, <6>2
        <5>6. n = p[1]
          BY <4>1, <5>3, <5>5, DivisionOfMultiple DEF n
        <5>7. r = p[2]
          <6>1. ASSUME NEW product \in Nat, NEW k \in 1..limit, product + k = i
                PROVE  i - product = k
            BY <4>1, <6>1
          <6>2. limit * n \in Nat /\ limit * n + p[2] = i
            BY <5>3, <5>4, <5>6
          <6>3. QED BY <5>3, <6>1, <6>2
        <5>8. QED BY <5>2, <5>6, <5>7
      <4>8. QED BY <4>6, <4>7 DEF n
    <3>5. QED BY ZenonT(60), <2>2, <2>6, <3>3, <3>4, FS_Singleton DEF IsProviderApproved
  <2>7. QED BY <2>5, <2>6
<1>2. ApprovalInv => (2 * length <= LargestNumber => ApprovedOnExactlyOnePage)
  BY <1>1 DEF ApprovedOnExactlyOnePage
<1>3. QED BY <1>2, ApprovalInvHolds, PTL

-----------------------------------------------------------------------------
(***************************************************************************)
(* Part 2.  The lookups of the registry agree, its capabilities are those  *)
(* listed, and its ids keep their meaning; and neither its code nor the    *)
(* service's changes unannounced.                                          *)
(***************************************************************************)

Providers == [serviceProvider : Addresses \cup {NoAddress}, payee : Addresses \cup {NoAddress},
              info : Infos, isActive : BOOLEAN]
Products == [capabilityKeys : Seq(Keys), isActive : BOOLEAN]
Capabilities == [Keys -> Values \cup {NoValue}]

RegistryTypeOK ==
  /\ numProviders \in 0..MaxProviders
  /\ providers \in [Ids -> Providers]
  /\ providerProducts \in [Ids -> Products]
  /\ productCapabilities \in [Ids -> Capabilities]
  /\ addressToProviderId \in [Addresses -> 0..MaxProviders]
  /\ productTypeProviderCount \in Int
  /\ activeProductTypeProviderCount \in Int
  /\ activeProviderCount \in Int

\* What is known of an address that is registered.
Registered(a) ==
  LET id == addressToProviderId[a] IN
  /\ id \in 1..numProviders
  /\ providers[id].serviceProvider = a
  /\ providers[id].isActive

Lists(product, k) == \E i \in DOMAIN product.capabilityKeys : product.capabilityKeys[i] = k

\* The keys with a value are those the product lists; an id that offers nothing lists none.
CapabilitiesListed(id) ==
  /\ \A k \in Keys : productCapabilities[id][k] # NoValue <=> Lists(providerProducts[id], k)
  /\ ~providerProducts[id].isActive => providerProducts[id].capabilityKeys = <<>>
  /\ providerProducts[id].isActive => providers[id].isActive

RegistryInv ==
  /\ RegistryTypeOK
  /\ \A a \in Addresses : addressToProviderId[a] # 0 => Registered(a)
  /\ \A id \in Ids : providers[id].isActive =>
         /\ id <= numProviders /\ providers[id].serviceProvider \in Addresses
         /\ addressToProviderId[providers[id].serviceProvider] = id
  /\ \A id \in 1..numProviders : providers[id].serviceProvider \in Addresses
  /\ \A id \in Ids : CapabilitiesListed(id)

-----------------------------------------------------------------------------
(* The capability mapping. *)

\* After a product has been cleared and keys with values were written, the keys
\* with a value are those written.
LEMMA WrittenCapabilities ==
  ASSUME NEW capabilities \in Capabilities, \A k \in Keys : capabilities[k] = NoValue,
         NEW keys \in KeyLists, NEW values \in [DOMAIN keys -> Values \cup {NoValue}],
         ValidCapabilities(keys, values)
  PROVE  /\ Written(capabilities, keys, values) \in Capabilities
         /\ \A k \in Keys : Written(capabilities, keys, values)[k] # NoValue <=>
                                \E i \in DOMAIN keys : keys[i] = k
<1>1. PICK n \in 0..MaxCapabilities : keys \in [1..n -> Keys]
  BY DEF KeyLists
<1>2. ASSUME NEW k \in Keys, NEW i \in DOMAIN keys, keys[i] = k
      PROVE  Written(capabilities, keys, values)[k] \in Values
  <2> DEFINE places == {j \in DOMAIN keys : keys[j] = k}
             last == CHOOSE j \in places : \A m \in places : m <= j
  <2>1. places \in SUBSET (1..n) /\ i \in places
    BY <1>1, <1>2
  <2>2. \E j \in places : \A m \in places : m <= j
    <3>0. n \in Int
      BY RegistryAssumption
    <3>1. places \in SUBSET Int /\ places # {} /\ \A m \in places : m <= n
      BY <1>1, <2>1
    <3> HIDE DEF places
    <3>2. Max(places) \in places /\ \A m \in places : Max(places) >= m
      BY <3>0, <3>1, MaxOfBoundedSet
    <3>3. QED BY <3>1, <3>2
  <2>3. last \in places
    BY <2>2
  <2>4. Written(capabilities, keys, values)[k] = values[last]
    BY <1>2, <2>1 DEF Written
  <2>5. values[last] \in Values
    BY <2>3 DEF ValidCapabilities
  <2>6. QED BY <2>4, <2>5
<1>3. ASSUME NEW k \in Keys, ~\E i \in DOMAIN keys : keys[i] = k
      PROVE  Written(capabilities, keys, values)[k] = NoValue
  BY <1>3 DEF Written
<1>4. NoValue \notin Values
  BY RegistryAssumption
<1>5. \A k \in Keys : Written(capabilities, keys, values)[k] # NoValue <=>
                          \E i \in DOMAIN keys : keys[i] = k
  BY <1>2, <1>3, <1>4
<1>6. \A k \in Keys : Written(capabilities, keys, values)[k] \in Values \cup {NoValue}
  BY <1>2, <1>3
<1>7. Written(capabilities, keys, values) = [k \in Keys |-> Written(capabilities, keys, values)[k]]
  BY DEF Written
<1>8. QED
  BY <1>5, <1>6, <1>7 DEF Capabilities

\* Nothing has a value when the keys a product lists are deleted.
LEMMA ClearedCapabilities ==
  ASSUME NEW capabilities \in Capabilities, NEW product \in Products,
         \A k \in Keys : capabilities[k] # NoValue => Lists(product, k)
  PROVE  /\ Cleared(capabilities, product) \in Capabilities
         /\ \A k \in Keys : Cleared(capabilities, product)[k] = NoValue
BY DEF Cleared, Capabilities, Lists

LEMMA KeyListsAreSequences ==
  ASSUME NEW keys \in KeyLists
  PROVE  keys \in Seq(Keys)
<1>1. PICK n \in 0..MaxCapabilities : keys \in [1..n -> Keys]
  BY DEF KeyLists
<1>2. QED BY <1>1, RegistryAssumption

-----------------------------------------------------------------------------
(* The transactions. *)

LEMMA InitRegistered ==
  ASSUME RegistryInit
  PROVE  RegistryInv
<1>1. NoProvider \in Providers /\ ~NoProvider.isActive
  BY RegistryAssumption DEF NoProvider, Providers
<1>2. NoProduct \in Products /\ ~NoProduct.isActive /\ NoProduct.capabilityKeys = <<>>
  BY DEF NoProduct, Products
<1>3. NoCapabilities \in Capabilities /\ \A k \in Keys : NoCapabilities[k] = NoValue
  BY DEF NoCapabilities, Capabilities
<1>4. RegistryTypeOK
  BY <1>1, <1>2, <1>3, RegistryAssumption DEF RegistryInit, RegistryTypeOK
<1>5. \A id \in Ids : CapabilitiesListed(id)
  <2>1. ~\E i \in DOMAIN <<>> : TRUE
    OBVIOUS
  <2>2. QED BY <1>2, <1>3, <2>1 DEF RegistryInit, CapabilitiesListed, Lists
<1>6. QED
  BY <1>1, <1>4, <1>5 DEF RegistryInit, RegistryInv

LEMMA RegisterKeeps ==
  ASSUME RegistryInv, NEW sender \in Addresses, NEW payee \in Addresses \cup {NoAddress},
         NEW info \in Infos, NEW keys \in KeyLists,
         NEW values \in [DOMAIN keys -> Values \cup {NoValue}],
         RegisterProvider(sender, payee, info, keys, values)
  PROVE  RegistryInv'
<1> DEFINE new == numProviders + 1
           record == [serviceProvider |-> sender, payee |-> payee, info |-> info, isActive |-> TRUE]
           product == [capabilityKeys |-> keys, isActive |-> TRUE]
           capabilities == Written(productCapabilities[new], keys, values)
<1>1. RegistryTypeOK /\ new \in Ids /\ new \in Nat /\ numProviders \in Nat
  BY RegistryAssumption DEF RegistryInv, RegistryTypeOK, RegisterProvider, NextId, NotRegistered, Ids
<1>2. /\ numProviders' = new
      /\ providers' = [providers EXCEPT ![new] = record]
      /\ addressToProviderId' = [addressToProviderId EXCEPT ![sender] = new]
      /\ providerProducts' = [providerProducts EXCEPT ![new] = product]
      /\ productCapabilities' = [productCapabilities EXCEPT ![new] = capabilities]
      /\ addressToProviderId[sender] = 0
      /\ ValidCapabilities(keys, values)
  BY DEF RegisterProvider, NextId, NotRegistered, ValidateAndStoreProduct
<1>3. record \in Providers /\ product \in Products
  BY KeyListsAreSequences DEF Providers, Products
<1>4. /\ ~providers[new].isActive /\ ~providerProducts[new].isActive
      /\ productCapabilities[new] \in Capabilities
      /\ \A k \in Keys : productCapabilities[new][k] = NoValue
  <2>1. ~providers[new].isActive
    BY <1>1 DEF RegistryInv
  <2>2. ~providerProducts[new].isActive
    BY <1>1, <2>1 DEF RegistryInv, CapabilitiesListed, RegistryTypeOK, Products, Providers
  <2>3. productCapabilities[new] \in Capabilities
    BY <1>1 DEF RegistryTypeOK
  <2>4. \A k \in Keys : ~Lists(providerProducts[new], k)
    BY <1>1, <2>2 DEF RegistryInv, CapabilitiesListed, Lists
  <2>5. \A k \in Keys : productCapabilities[new][k] = NoValue
    BY <1>1, <2>4 DEF RegistryInv, CapabilitiesListed
  <2>6. QED BY <2>1, <2>2, <2>3, <2>5
<1>5. /\ capabilities \in Capabilities
      /\ \A k \in Keys : capabilities[k] # NoValue <=> \E i \in DOMAIN keys : keys[i] = k
  <2>1. PICK old \in Capabilities : old = productCapabilities[new]
    BY <1>4
  <2>2. /\ Written(old, keys, values) \in Capabilities
        /\ \A k \in Keys : Written(old, keys, values)[k] # NoValue <=>
                               \E i \in DOMAIN keys : keys[i] = k
    BY <1>2, <1>4, <2>1, WrittenCapabilities
  <2>3. QED BY <2>1, <2>2
<1> HIDE DEF capabilities
<1>6. RegistryTypeOK'
  <2>1. productTypeProviderCount' \in Int /\ activeProductTypeProviderCount' \in Int
        /\ activeProviderCount' \in Int
    BY <1>1 DEF RegisterProvider, NextId, NotRegistered, ValidateAndStoreProduct, RegistryTypeOK
  <2>2. numProviders' \in 0..MaxProviders
    BY <1>1, <1>2 DEF Ids
  <2>3. addressToProviderId' \in [Addresses -> 0..MaxProviders]
    BY <1>1, <1>2 DEF RegistryTypeOK, Ids
  <2> HIDE DEF record, product, new
  <2>4. QED BY <1>1, <1>2, <1>3, <1>5, <2>1, <2>2, <2>3 DEF RegistryTypeOK
<1>7. ASSUME NEW a \in Addresses, addressToProviderId'[a] # 0
      PROVE  Registered(a)'
  <2>1. CASE a = sender
    <3>1. addressToProviderId'[a] = new /\ providers'[new] = record
      BY <1>1, <1>2, <2>1 DEF RegistryTypeOK
    <3>2. new \in 1..numProviders'
      BY <1>1, <1>2
    <3>3. QED BY <2>1, <3>1, <3>2 DEF Registered
  <2>2. CASE a # sender
    <3>1. addressToProviderId'[a] = addressToProviderId[a]
      BY <1>1, <1>2, <2>2 DEF RegistryTypeOK
    <3>2. Registered(a)
      BY <1>7, <3>1 DEF RegistryInv
    <3>3. /\ addressToProviderId[a] \in 1..numProviders'
          /\ addressToProviderId[a] # new /\ addressToProviderId[a] \in Ids
      BY <1>1, <1>2, <3>2, RegistryAssumption DEF Registered, Ids
    <3>4. providers'[addressToProviderId[a]] = providers[addressToProviderId[a]]
      BY <1>1, <1>2, <3>3 DEF RegistryTypeOK
    <3>5. QED BY <3>1, <3>2, <3>3, <3>4 DEF Registered
  <2>3. QED BY <2>1, <2>2
<1>8. ASSUME NEW id \in Ids
      PROVE  providers'[id] = IF id = new THEN record ELSE providers[id]
  BY <1>1, <1>2 DEF RegistryTypeOK
<1>9. ASSUME NEW id \in Ids, providers'[id].isActive
      PROVE  /\ id <= numProviders' /\ providers'[id].serviceProvider \in Addresses
             /\ addressToProviderId'[providers'[id].serviceProvider] = id
  <2>1. CASE id = new
    BY <1>1, <1>2, <1>8, <2>1 DEF RegistryTypeOK
  <2>2. CASE id # new
    <3>1. providers'[id] = providers[id]
      BY <1>8, <2>2
    <3>2. /\ id <= numProviders /\ providers[id].serviceProvider \in Addresses
          /\ addressToProviderId[providers[id].serviceProvider] = id
      BY <1>9, <3>1 DEF RegistryInv
    <3>3. providers[id].serviceProvider # sender
      BY <1>2, <3>2 DEF Ids
    <3>4. QED BY <1>1, <1>2, <3>1, <3>2, <3>3 DEF RegistryTypeOK, Ids
  <2>3. QED BY <2>1, <2>2
<1>10. ASSUME NEW id \in 1..numProviders'
       PROVE  providers'[id].serviceProvider \in Addresses
  <2>1. id \in Ids
    BY <1>1, <1>2, RegistryAssumption DEF Ids
  <2>2. id # new => id \in 1..numProviders
    BY <1>1, <1>2
  <2>3. QED BY <1>8, <2>1, <2>2 DEF RegistryInv
<1>11. ASSUME NEW id \in Ids
       PROVE  CapabilitiesListed(id)'
  <2>1. CASE id = new
    <3>1. providerProducts'[id] = product /\ productCapabilities'[id] = capabilities
      BY <1>1, <1>2, <2>1 DEF RegistryTypeOK
    <3>2. QED BY <1>5, <1>8, <2>1, <3>1 DEF CapabilitiesListed, Lists
  <2>2. CASE id # new
    <3>1. /\ providerProducts'[id] = providerProducts[id]
          /\ productCapabilities'[id] = productCapabilities[id]
      BY <1>1, <1>2, <2>2 DEF RegistryTypeOK
    <3>2. CapabilitiesListed(id)
      BY DEF RegistryInv
    <3>3. QED BY <1>8, <2>2, <3>1, <3>2 DEF CapabilitiesListed, Lists
  <2>3. QED BY <2>1, <2>2
<1>12. QED
  BY <1>6, <1>7, <1>9, <1>10, <1>11 DEF RegistryInv

\* What the modifiers establish of the caller's id.
LEMMA CallerIsRegistered ==
  ASSUME RegistryInv, NEW a \in Addresses, addressToProviderId[a] # 0
  PROVE  /\ addressToProviderId[a] \in Ids
         /\ providers[addressToProviderId[a]].isActive
         /\ providers[addressToProviderId[a]].serviceProvider = a
<1>1. Registered(a)
  BY DEF RegistryInv
<1>2. numProviders \in 0..MaxProviders
  BY DEF RegistryInv, RegistryTypeOK
<1>3. QED BY <1>1, <1>2, RegistryAssumption DEF Registered, Ids

\* A transaction that only changes a product of the caller, and keeps its keys and
\* values together, keeps everything.
LEMMA ProductChangeKeeps ==
  ASSUME RegistryInv, NEW id \in Ids, providers[id].isActive,
         NEW product \in Products, NEW capabilities \in Capabilities,
         \A k \in Keys : capabilities[k] # NoValue <=> Lists(product, k),
         ~product.isActive => product.capabilityKeys = <<>>,
         providerProducts' = [providerProducts EXCEPT ![id] = product],
         productCapabilities' = [productCapabilities EXCEPT ![id] = capabilities],
         productTypeProviderCount' \in Int, activeProductTypeProviderCount' \in Int,
         UNCHANGED <<numProviders, providers, addressToProviderId, activeProviderCount>>
  PROVE  RegistryInv'
<1>1. RegistryTypeOK
  BY DEF RegistryInv
<1>2. RegistryTypeOK'
  BY <1>1 DEF RegistryTypeOK
<1>3. \A a \in Addresses : addressToProviderId'[a] # 0 => Registered(a)'
  BY DEF RegistryInv, Registered
<1>4. \A i \in Ids : providers'[i].isActive =>
          /\ i <= numProviders' /\ providers'[i].serviceProvider \in Addresses
          /\ addressToProviderId'[providers'[i].serviceProvider] = i
  BY DEF RegistryInv
<1>5. \A i \in 1..numProviders' : providers'[i].serviceProvider \in Addresses
  BY DEF RegistryInv
<1>6. ASSUME NEW i \in Ids
      PROVE  CapabilitiesListed(i)'
  <2>1. CASE i = id
    <3>1. providerProducts'[i] = product /\ productCapabilities'[i] = capabilities
      BY <1>1, <2>1 DEF RegistryTypeOK
    <3>2. QED BY <2>1, <3>1 DEF CapabilitiesListed, Lists
  <2>2. CASE i # id
    <3>1. /\ providerProducts'[i] = providerProducts[i]
          /\ productCapabilities'[i] = productCapabilities[i]
      BY <1>1, <2>2 DEF RegistryTypeOK
    <3>2. CapabilitiesListed(i)
      BY DEF RegistryInv
    <3>3. QED BY <3>1, <3>2 DEF CapabilitiesListed, Lists
  <2>3. QED BY <2>1, <2>2
<1>7. QED BY <1>2, <1>3, <1>4, <1>5, <1>6 DEF RegistryInv

\* The capabilities of a product that is off, and what Cleared leaves of those that are on.
LEMMA EmptyListNamesNothing ==
  ASSUME RegistryInv, NEW id \in Ids
  PROVE  /\ providerProducts[id] \in Products /\ productCapabilities[id] \in Capabilities
         /\ ~providerProducts[id].isActive =>
                \A k \in Keys : productCapabilities[id][k] = NoValue
         /\ Cleared(productCapabilities[id], providerProducts[id]) \in Capabilities
         /\ \A k \in Keys :
                Cleared(productCapabilities[id], providerProducts[id])[k] = NoValue
<1>1. providerProducts[id] \in Products /\ productCapabilities[id] \in Capabilities
  BY DEF RegistryInv, RegistryTypeOK
<1>2. /\ \A k \in Keys : productCapabilities[id][k] # NoValue => Lists(providerProducts[id], k)
      /\ ~providerProducts[id].isActive => providerProducts[id].capabilityKeys = <<>>
  BY DEF RegistryInv, CapabilitiesListed
<1>3. ~providerProducts[id].isActive => \A k \in Keys : ~Lists(providerProducts[id], k)
  BY <1>2 DEF Lists
<1>4. /\ Cleared(productCapabilities[id], providerProducts[id]) \in Capabilities
      /\ \A k \in Keys : Cleared(productCapabilities[id], providerProducts[id])[k] = NoValue
  <2>1. PICK old \in Capabilities, product \in Products :
            old = productCapabilities[id] /\ product = providerProducts[id]
    BY <1>1
  <2>2. \A k \in Keys : old[k] # NoValue => Lists(product, k)
    BY <1>2, <2>1
  <2>3. /\ Cleared(old, product) \in Capabilities
        /\ \A k \in Keys : Cleared(old, product)[k] = NoValue
    BY <2>2, ClearedCapabilities
  <2>4. QED BY <2>1, <2>3
<1>5. QED BY <1>1, <1>2, <1>3, <1>4

LEMMA AddProductKeeps ==
  ASSUME RegistryInv, NEW sender \in Addresses, NEW keys \in KeyLists,
         NEW values \in [DOMAIN keys -> Values \cup {NoValue}],
         AddProduct(sender, keys, values)
  PROVE  RegistryInv'
<1> DEFINE id == addressToProviderId[sender]
           product == [capabilityKeys |-> keys, isActive |-> TRUE]
           capabilities == Written(productCapabilities[id], keys, values)
<1>1. id \in Ids /\ providers[id].isActive
  BY CallerIsRegistered DEF AddProduct
<1>2. /\ ValidCapabilities(keys, values) /\ ~providerProducts[id].isActive
      /\ providerProducts' = [providerProducts EXCEPT ![id] = product]
      /\ productCapabilities' = [productCapabilities EXCEPT ![id] = capabilities]
      /\ productTypeProviderCount' = productTypeProviderCount + 1
      /\ activeProductTypeProviderCount' = activeProductTypeProviderCount + 1
      /\ UNCHANGED <<numProviders, providers, addressToProviderId, activeProviderCount>>
  BY DEF AddProduct, ValidateAndStoreProduct
<1>3. product \in Products
  BY KeyListsAreSequences DEF Products
<1> HIDE DEF id
<1>4. /\ capabilities \in Capabilities
      /\ \A k \in Keys : capabilities[k] # NoValue <=> Lists(product, k)
  <2>1. PICK old \in Capabilities : old = productCapabilities[id]
    BY <1>1, EmptyListNamesNothing
  <2>2. \A k \in Keys : old[k] = NoValue
    BY <1>1, <1>2, <2>1, EmptyListNamesNothing
  <2>3. /\ Written(old, keys, values) \in Capabilities
        /\ \A k \in Keys : Written(old, keys, values)[k] # NoValue <=>
                               \E i \in DOMAIN keys : keys[i] = k
    BY <1>2, <2>2, WrittenCapabilities
  <2>4. QED BY <2>1, <2>3 DEF Lists
<1>5. productTypeProviderCount' \in Int /\ activeProductTypeProviderCount' \in Int
  BY <1>2 DEF RegistryInv, RegistryTypeOK
<1>6. product.isActive
  OBVIOUS
<1> HIDE DEF product, capabilities
<1>7. QED BY <1>1, <1>2, <1>3, <1>4, <1>5, <1>6, ProductChangeKeeps

LEMMA UpdateProductKeeps ==
  ASSUME RegistryInv, NEW sender \in Addresses, NEW keys \in KeyLists,
         NEW values \in [DOMAIN keys -> Values \cup {NoValue}],
         UpdateProduct(sender, keys, values)
  PROVE  RegistryInv'
<1> DEFINE id == addressToProviderId[sender]
           product == [capabilityKeys |-> keys, isActive |-> TRUE]
           cleared == Cleared(productCapabilities[id], providerProducts[id])
           capabilities == Written(cleared, keys, values)
<1>1. id \in Ids /\ providers[id].isActive
  BY CallerIsRegistered DEF UpdateProduct
<1>2. /\ ValidCapabilities(keys, values)
      /\ providerProducts' = [providerProducts EXCEPT ![id] = product]
      /\ productCapabilities' = [productCapabilities EXCEPT ![id] = capabilities]
      /\ UNCHANGED <<numProviders, providers, addressToProviderId, activeProviderCount,
                     productTypeProviderCount, activeProductTypeProviderCount>>
  <2>1. id \in DOMAIN productCapabilities
    BY <1>1 DEF RegistryInv, RegistryTypeOK
  <2>2. QED BY <2>1 DEF UpdateProduct
<1>3. product \in Products
  BY KeyListsAreSequences DEF Products
<1> HIDE DEF id
<1>4. cleared \in Capabilities /\ \A k \in Keys : cleared[k] = NoValue
  BY <1>1, EmptyListNamesNothing
<1> HIDE DEF cleared
<1>5. /\ capabilities \in Capabilities
      /\ \A k \in Keys : capabilities[k] # NoValue <=> Lists(product, k)
  <2>1. PICK old \in Capabilities : old = cleared
    BY <1>4
  <2>2. \A k \in Keys : old[k] = NoValue
    BY <1>4, <2>1
  <2>3. /\ Written(old, keys, values) \in Capabilities
        /\ \A k \in Keys : Written(old, keys, values)[k] # NoValue <=>
                               \E i \in DOMAIN keys : keys[i] = k
    BY <1>2, <2>2, WrittenCapabilities
  <2>4. QED BY <2>1, <2>3 DEF Lists
<1>6. productTypeProviderCount' \in Int /\ activeProductTypeProviderCount' \in Int
  BY <1>2 DEF RegistryInv, RegistryTypeOK
<1>7. product.isActive
  OBVIOUS
<1> HIDE DEF product, capabilities
<1>8. QED BY <1>1, <1>2, <1>3, <1>5, <1>6, <1>7, ProductChangeKeeps

LEMMA RemoveProductKeeps ==
  ASSUME RegistryInv, NEW sender \in Addresses, RemoveProduct(sender)
  PROVE  RegistryInv'
<1> DEFINE id == addressToProviderId[sender]
           capabilities == Cleared(productCapabilities[id], providerProducts[id])
<1>1. id \in Ids /\ providers[id].isActive
  BY CallerIsRegistered DEF RemoveProduct
<1>2. /\ providerProducts' = [providerProducts EXCEPT ![id] = NoProduct]
      /\ productCapabilities' = [productCapabilities EXCEPT ![id] = capabilities]
      /\ activeProductTypeProviderCount' = activeProductTypeProviderCount - 1
      /\ UNCHANGED <<numProviders, providers, addressToProviderId, activeProviderCount,
                     productTypeProviderCount>>
  <2>1. id \in DOMAIN productCapabilities
    BY <1>1 DEF RegistryInv, RegistryTypeOK
  <2>2. QED BY <2>1 DEF RemoveProduct
<1> HIDE DEF id
<1>3. capabilities \in Capabilities /\ \A k \in Keys : capabilities[k] = NoValue
  BY <1>1, EmptyListNamesNothing
<1>4. NoProduct \in Products /\ NoProduct.capabilityKeys = <<>> /\ \A k : ~Lists(NoProduct, k)
  BY DEF NoProduct, Products, Lists
<1>5. productTypeProviderCount' \in Int /\ activeProductTypeProviderCount' \in Int
  BY <1>2 DEF RegistryInv, RegistryTypeOK
<1> HIDE DEF capabilities
<1>6. QED BY <1>1, <1>2, <1>3, <1>4, <1>5, ProductChangeKeeps

LEMMA UpdateProviderInfoKeeps ==
  ASSUME RegistryInv, NEW sender \in Addresses, NEW info \in Infos,
         UpdateProviderInfo(sender, info)
  PROVE  RegistryInv'
<1> DEFINE id == addressToProviderId[sender]
<1>1. id \in Ids /\ RegistryTypeOK
  BY CallerIsRegistered DEF UpdateProviderInfo, RegistryInv
<1>2. /\ providers' = [providers EXCEPT ![id].info = info]
      /\ UNCHANGED <<numProviders, providerProducts, productCapabilities, addressToProviderId,
                     productTypeProviderCount, activeProductTypeProviderCount,
                     activeProviderCount>>
  BY DEF UpdateProviderInfo
<1> HIDE DEF id
<1>3. RegistryTypeOK'
  BY <1>1, <1>2 DEF RegistryTypeOK, Providers
<1>4. \A i \in Ids : /\ providers'[i].serviceProvider = providers[i].serviceProvider
                     /\ providers'[i].isActive = providers[i].isActive
  BY <1>1, <1>2 DEF RegistryTypeOK, Providers
<1>5. \A i \in 1..numProviders : i \in Ids
  BY <1>1, RegistryAssumption DEF RegistryTypeOK, Ids
<1>6. \A a \in Addresses : addressToProviderId'[a] # 0 => Registered(a)'
  BY <1>2, <1>4, <1>5 DEF RegistryInv, Registered
<1>7. \A i \in Ids : CapabilitiesListed(i)'
  BY <1>2, <1>4 DEF RegistryInv, CapabilitiesListed
<1>8. QED BY <1>2, <1>3, <1>4, <1>5, <1>6, <1>7 DEF RegistryInv

LEMMA RemoveProviderKeeps ==
  ASSUME RegistryInv, NEW sender \in Addresses, RemoveProvider(sender)
  PROVE  RegistryInv'
<1> DEFINE id == addressToProviderId[sender]
<1>1. id \in Ids /\ RegistryTypeOK /\ providers[id].isActive /\ providers[id].serviceProvider = sender
  BY CallerIsRegistered DEF RemoveProvider, RegistryInv
<1>2. /\ providers' = [providers EXCEPT ![id].isActive = FALSE]
      /\ addressToProviderId' = [addressToProviderId EXCEPT ![sender] = 0]
      /\ activeProviderCount' = activeProviderCount - 1
      /\ UNCHANGED <<numProviders, productTypeProviderCount>>
      /\ IF providerProducts[id].isActive
         THEN /\ activeProductTypeProviderCount' = activeProductTypeProviderCount - 1
              /\ productCapabilities' = [productCapabilities EXCEPT
                     ![id] = Cleared(productCapabilities[id], providerProducts[id])]
              /\ providerProducts' = [providerProducts EXCEPT ![id] = NoProduct]
         ELSE UNCHANGED <<activeProductTypeProviderCount, productCapabilities, providerProducts>>
  <2>1. id \in DOMAIN productCapabilities
    BY <1>1 DEF RegistryTypeOK
  <2>2. QED BY <1>1, <2>1 DEF RemoveProvider
<1> HIDE DEF id
<1>3. NoProduct \in Products /\ ~NoProduct.isActive /\ NoProduct.capabilityKeys = <<>>
  BY DEF NoProduct, Products
<1>4. /\ providerProducts' \in [Ids -> Products] /\ productCapabilities' \in [Ids -> Capabilities]
      /\ activeProductTypeProviderCount' \in Int
  <2>1. CASE ~providerProducts[id].isActive
    BY <1>1, <1>2, <2>1 DEF RegistryTypeOK
  <2>2. CASE providerProducts[id].isActive
    <3>1. Cleared(productCapabilities[id], providerProducts[id]) \in Capabilities
      BY <1>1, EmptyListNamesNothing
    <3>2. productCapabilities' \in [Ids -> Capabilities]
      BY <1>1, <1>2, <2>2, <3>1 DEF RegistryTypeOK
    <3>3. providerProducts' \in [Ids -> Products]
      BY <1>1, <1>2, <1>3, <2>2 DEF RegistryTypeOK
    <3>4. activeProductTypeProviderCount' \in Int
      BY <1>1, <1>2, <2>2 DEF RegistryTypeOK
    <3>5. QED BY <3>2, <3>3, <3>4
  <2>3. QED BY <2>1, <2>2
<1>5. RegistryTypeOK'
  <2>1. providers' \in [Ids -> Providers]
    BY <1>1, <1>2 DEF RegistryTypeOK, Providers
  <2>2. addressToProviderId' \in [Addresses -> 0..MaxProviders]
    BY <1>1, <1>2, RegistryAssumption DEF RegistryTypeOK
  <2>3. activeProviderCount' \in Int
    BY <1>1, <1>2 DEF RegistryTypeOK
  <2>4. QED BY <1>1, <1>2, <1>4, <2>1, <2>2, <2>3 DEF RegistryTypeOK
<1>6. \A i \in Ids : /\ providers'[i].serviceProvider = providers[i].serviceProvider
                     /\ providers'[i].isActive <=> providers[i].isActive /\ i # id
  BY <1>1, <1>2 DEF RegistryTypeOK, Providers
<1>7. \A i \in 1..numProviders : i \in Ids
  BY <1>1, RegistryAssumption DEF RegistryTypeOK, Ids
<1>8. \A a \in Addresses : addressToProviderId'[a] = IF a = sender THEN 0 ELSE addressToProviderId[a]
  BY <1>1, <1>2 DEF RegistryTypeOK
<1>9. ASSUME NEW a \in Addresses, addressToProviderId'[a] # 0
      PROVE  Registered(a)'
  <2>1. a # sender /\ addressToProviderId'[a] = addressToProviderId[a]
    BY <1>8, <1>9
  <2>2. Registered(a)
    BY <1>9, <2>1 DEF RegistryInv
  <2>3. addressToProviderId[a] # id
    BY <1>1, <2>1, <2>2 DEF Registered
  <2>4. QED BY <1>2, <1>6, <1>7, <2>1, <2>2, <2>3 DEF Registered
<1>10. ASSUME NEW i \in Ids, providers'[i].isActive
       PROVE  /\ i <= numProviders' /\ providers'[i].serviceProvider \in Addresses
              /\ addressToProviderId'[providers'[i].serviceProvider] = i
  <2>1. i # id /\ providers[i].isActive
    BY <1>6, <1>10
  <2>2. /\ i <= numProviders /\ providers[i].serviceProvider \in Addresses
        /\ addressToProviderId[providers[i].serviceProvider] = i
    BY <2>1 DEF RegistryInv
  <2>3. providers[i].serviceProvider # sender
    BY <2>1, <2>2 DEF id
  <2>4. QED BY <1>2, <1>6, <1>8, <2>2, <2>3
<1>11. ASSUME NEW i \in Ids
       PROVE  CapabilitiesListed(i)'
  <2>1. CapabilitiesListed(i)
    BY DEF RegistryInv
  <2>2. CASE i = id /\ providerProducts[id].isActive
    <3>1. /\ providerProducts'[i] = NoProduct
          /\ productCapabilities'[i] = Cleared(productCapabilities[i], providerProducts[i])
      BY <1>1, <1>2, <2>2 DEF RegistryTypeOK
    <3>2. \A k \in Keys : productCapabilities'[i][k] = NoValue
      BY <3>1, EmptyListNamesNothing
    <3>3. QED BY <1>3, <3>1, <3>2 DEF CapabilitiesListed, Lists
  <2>3. CASE ~(i = id /\ providerProducts[id].isActive)
    <3>1. /\ providerProducts'[i] = providerProducts[i]
          /\ productCapabilities'[i] = productCapabilities[i]
      BY <1>1, <1>2, <2>3 DEF RegistryTypeOK
    <3>2. QED BY <1>6, <2>1, <2>3, <3>1 DEF CapabilitiesListed, Lists
  <2>4. QED BY <2>2, <2>3
<1>12. QED
  BY <1>2, <1>5, <1>6, <1>7, <1>9, <1>10, <1>11 DEF RegistryInv

-----------------------------------------------------------------------------

LEMMA RegistryNextKeeps ==
  ASSUME RegistryInv, [RegistryNext]_registryVars
  PROVE  RegistryInv'
<1>1. ASSUME NEW sender \in Addresses, NEW keys \in KeyLists,
             NEW values \in [DOMAIN keys -> Values \cup {NoValue}]
      PROVE  /\ \A payee \in Addresses \cup {NoAddress}, info \in Infos :
                    RegisterProvider(sender, payee, info, keys, values) => RegistryInv'
             /\ AddProduct(sender, keys, values) => RegistryInv'
             /\ UpdateProduct(sender, keys, values) => RegistryInv'
  BY RegisterKeeps, AddProductKeeps, UpdateProductKeeps
<1>2. ASSUME NEW sender \in Addresses
      PROVE  /\ RemoveProduct(sender) => RegistryInv'
             /\ RemoveProvider(sender) => RegistryInv'
             /\ \A info \in Infos : UpdateProviderInfo(sender, info) => RegistryInv'
  BY RemoveProductKeeps, RemoveProviderKeeps, UpdateProviderInfoKeeps
<1>3. UNCHANGED registryVars => RegistryInv'
  BY DEF registryVars, RegistryInv, RegistryTypeOK, Registered, CapabilitiesListed, Lists
<1>4. QED BY <1>1, <1>2, <1>3 DEF RegistryNext

LEMMA RegistryInvHolds == RegistrySpec => []RegistryInv
<1>1. RegistryInit => RegistryInv
  BY InitRegistered
<1>2. RegistryInv /\ [RegistryNext]_registryVars => RegistryInv'
  BY RegistryNextKeeps
<1>3. QED BY <1>1, <1>2, PTL DEF RegistrySpec

(***************************************************************************)
(* Whoever registers, leaves and comes back, the lookups by address, by id *)
(* and by activity agree.                                                  *)
(***************************************************************************)
THEOREM LookupsAgree == RegistrySpec => []RegistrationsAgree
<1>1. RegistryInv => RegistrationsAgree
  <2> SUFFICES ASSUME RegistryInv PROVE RegistrationsAgree
    OBVIOUS
  <2>1. ASSUME NEW a \in Addresses, addressToProviderId[a] # 0
        PROVE  /\ IsRegisteredProvider(a) /\ IsValidId(addressToProviderId[a])
               /\ GetProvider(addressToProviderId[a]).serviceProvider = a
    <3>1. Registered(a)
      BY <2>1 DEF RegistryInv
    <3>2. Exists(addressToProviderId[a])
      BY <3>1, RegistryAssumption DEF Registered, Exists
    <3>3. QED BY <2>1, <3>1, <3>2
               DEF Registered, IsRegisteredProvider, IsValidId, GetProvider
  <2>2. \A a \in Addresses : addressToProviderId[a] = 0 => ~IsRegisteredProvider(a)
    BY DEF IsRegisteredProvider
  <2>3. \A id \in ActiveProviders : id \in Ids /\ providers[id].isActive
    BY RegistryAssumption DEF ActiveProviders, RegistryInv, RegistryTypeOK, Ids
  <2>4. \A id \in ActiveProviders : addressToProviderId[providers[id].serviceProvider] = id
    BY <2>3 DEF RegistryInv
  <2>5. QED BY <2>1, <2>2, <2>4 DEF RegistrationsAgree
<1>2. QED BY <1>1, RegistryInvHolds, PTL

(***************************************************************************)
(* No update and no removal leaves a stale capability behind.              *)
(***************************************************************************)
THEOREM CapabilitiesStayTrue == RegistrySpec => []CapabilitiesMatchTheirKeys
<1>1. RegistryInv => CapabilitiesMatchTheirKeys
  <2> SUFFICES ASSUME RegistryInv, NEW id \in 1..numProviders
               PROVE  LET answer == GetAllProductCapabilities(id) IN
                      /\ \A k \in Keys : productCapabilities[id][k] # NoValue <=>
                             \E i \in DOMAIN answer.keys : answer.keys[i] = k
                      /\ \A i \in DOMAIN answer.values : answer.values[i] # NoValue
                      /\ answer.keys # <<>> => answer.isActive /\ providers[id].isActive
    BY DEF CapabilitiesMatchTheirKeys
  <2> DEFINE product == providerProducts[id]
             keys == product.capabilityKeys
             answer == [isActive |-> product.isActive, keys |-> keys,
                        values |-> [i \in DOMAIN keys |-> productCapabilities[id][keys[i]]]]
  <2>1. id \in Ids
    BY RegistryAssumption DEF RegistryInv, RegistryTypeOK, Ids
  <2>2. Exists(id)
    BY RegistryAssumption DEF RegistryInv, Exists
  <2>3. GetAllProductCapabilities(id) = answer
    BY <2>2 DEF GetAllProductCapabilities
  <2>4. CapabilitiesListed(id)
    BY <2>1 DEF RegistryInv
  <2>5. product \in Products
    BY <2>1 DEF RegistryInv, RegistryTypeOK
  <2>6. \A i \in DOMAIN keys : keys[i] \in Keys
    BY <2>5 DEF Products
  <2>7. \A i \in DOMAIN keys : productCapabilities[id][keys[i]] # NoValue
    BY <2>4, <2>6 DEF CapabilitiesListed, Lists
  <2>8. keys # <<>> => product.isActive /\ providers[id].isActive
    BY <2>4, <2>5 DEF CapabilitiesListed, Products
  <2>9. \A k \in Keys : productCapabilities[id][k] # NoValue <=> \E i \in DOMAIN keys : keys[i] = k
    BY <2>4 DEF CapabilitiesListed, Lists
  <2>10. answer.keys = keys /\ answer.isActive = product.isActive
    OBVIOUS
  <2>11. \A i \in DOMAIN answer.values : answer.values[i] # NoValue
    BY <2>7
  <2> HIDE DEF answer, keys
  <2>12. QED BY <2>3, <2>8, <2>9, <2>10, <2>11
<1>2. QED BY <1>1, RegistryInvHolds, PTL

(***************************************************************************)
(* An id names the provider and the payee it was given out for as long as  *)
(* the contract lives, and a removed provider is not touched again.        *)
(***************************************************************************)
THEOREM IdsKeepTheirMeaning == RegistrySpec => IdsNameOneProviderForGood
<1> DEFINE Kept(id) == /\ id <= numProviders'
                       /\ providers'[id].serviceProvider = providers[id].serviceProvider
                       /\ providers'[id].payee = providers[id].payee
                       /\ ~providers[id].isActive => providers'[id] = providers[id]
           AllKept == \A id \in 1..numProviders : Kept(id)
<1>1. RegistryInv /\ [RegistryNext]_registryVars => [AllKept]_registryVars
  <2> SUFFICES ASSUME RegistryInv, RegistryNext, NEW id \in 1..numProviders
               PROVE  Kept(id)
    OBVIOUS
  <2>1. id \in Ids /\ numProviders \in Nat /\ providers \in [Ids -> Providers]
    BY RegistryAssumption DEF RegistryInv, RegistryTypeOK, Ids
  <2>2. UNCHANGED <<numProviders, providers>> => Kept(id)
    BY <2>1
  <2>3. ASSUME NEW sender \in Addresses, NEW keys \in KeyLists,
               NEW values \in [DOMAIN keys -> Values \cup {NoValue}],
               NEW payee \in Addresses \cup {NoAddress}, NEW info \in Infos,
               RegisterProvider(sender, payee, info, keys, values)
        PROVE  Kept(id)
    <3>1. numProviders' = numProviders + 1 /\ id # numProviders + 1
      BY <2>1, <2>3 DEF RegisterProvider, NextId
    <3>2. providers'[id] = providers[id]
      BY <2>1, <2>3, <3>1 DEF RegisterProvider, NextId
    <3>3. QED BY <2>1, <3>1, <3>2
  <2>4. ASSUME NEW sender \in Addresses, NEW info \in Infos, UpdateProviderInfo(sender, info)
        PROVE  Kept(id)
    <3>1. /\ numProviders' = numProviders
          /\ providers[addressToProviderId[sender]].isActive
          /\ providers' = [providers EXCEPT ![addressToProviderId[sender]].info = info]
      BY <2>4 DEF UpdateProviderInfo
    <3>2. QED BY <2>1, <3>1 DEF Providers
  <2>5. ASSUME NEW sender \in Addresses, RemoveProvider(sender)
        PROVE  Kept(id)
    <3>1. /\ numProviders' = numProviders
          /\ providers[addressToProviderId[sender]].isActive
          /\ providers' = [providers EXCEPT ![addressToProviderId[sender]].isActive = FALSE]
      BY <2>5 DEF RemoveProvider, MayAct
    <3>2. QED BY <2>1, <3>1 DEF Providers
  <2>6. ASSUME NEW sender \in Addresses, NEW keys \in KeyLists,
               NEW values \in [DOMAIN keys -> Values \cup {NoValue}],
               AddProduct(sender, keys, values) \/ UpdateProduct(sender, keys, values)
        PROVE  Kept(id)
    BY <2>2, <2>6 DEF AddProduct, UpdateProduct
  <2>7. ASSUME NEW sender \in Addresses, RemoveProduct(sender)
        PROVE  Kept(id)
    BY <2>2, <2>7 DEF RemoveProduct
  <2> HIDE DEF Kept
  <2>8. QED BY <2>3, <2>4, <2>5, <2>6, <2>7 DEF RegistryNext
<1> HIDE DEF AllKept
<1>2. RegistrySpec => [][AllKept]_registryVars
  BY <1>1, RegistryInvHolds, PTL DEF RegistrySpec
<1>3. QED BY <1>2 DEF AllKept, IdsNameOneProviderForGood
-----------------------------------------------------------------------------
(* The gate of upgrades. *)

\* A pending plan is the one announced last, for a later block than that announcement's.
NoticeInv ==
  /\ height \in Nat
  /\ notice.at \in Nat
  /\ nextUpgrade.afterEpoch \in Nat
  /\ nextUpgrade # NoPlan =>
       /\ nextUpgrade.nextImplementation = notice.implementation
       /\ notice.at < nextUpgrade.afterEpoch

LEMMA NoticeInvHolds == UpgradeSpec => []NoticeInv
<1>1. UpgradeInit => NoticeInv
  BY DEF UpgradeInit, NoticeInv, NoPlan, Plan, Notice
<1>2. NoticeInv /\ [UpgradeNext]_upgradeVars => NoticeInv'
  <2> SUFFICES ASSUME NoticeInv, [UpgradeNext]_upgradeVars PROVE NoticeInv'
    OBVIOUS
  <2>1. UNCHANGED <<height, nextUpgrade, notice>> => NoticeInv'
    BY DEF NoticeInv
  <2>2. CASE NewHeight
    BY <2>2 DEF NewHeight, NoticeInv
  <2>3. ASSUME NEW impl, NEW afterEpoch \in 0..(MaxHeight + 1),
               AnnouncePlannedUpgrade(impl, afterEpoch)
        PROVE  NoticeInv'
    <3>1. /\ nextUpgrade' = [nextImplementation |-> impl, afterEpoch |-> afterEpoch]
          /\ notice' = [implementation |-> impl, at |-> height]
          /\ height' = height /\ height < afterEpoch
      BY <2>3 DEF AnnouncePlannedUpgrade, LiesAhead, Plan, Notice, NoticeInv
    <3>2. afterEpoch \in Nat
      BY UpgradesAssumption
    <3>3. QED BY <3>1, <3>2 DEF NoticeInv
  <2>4. ASSUME NEW impl, UpgradeTo(impl)
        PROVE  NoticeInv'
    BY <2>4 DEF UpgradeTo, AuthorizeUpgrade, NoticeInv, NoPlan, Plan
  <2>5. ASSUME NEW impl, DeployImplementation(impl)
        PROVE  NoticeInv'
    BY <2>1, <2>5 DEF DeployImplementation
  <2>6. ASSUME NEW view, Migrate(view) \/ SetViewContract(view)
        PROVE  NoticeInv'
    BY <2>1, <2>6 DEF Migrate, SetViewContract
  <2>7. CASE UNCHANGED upgradeVars
    BY <2>1, <2>7 DEF upgradeVars
  <2>8. QED BY <2>2, <2>3, <2>4, <2>5, <2>6, <2>7 DEF UpgradeNext, UpgradeToAndMigrate
<1>3. QED BY <1>1, <1>2, PTL DEF UpgradeSpec

(***************************************************************************)
(* Whatever the owner signs, however many implementations there are, the   *)
(* code of a proxy changes only to what was announced last, in a later     *)
(* block than the announcement.                                            *)
(***************************************************************************)
THEOREM UpgradesAreNoticed == UpgradeSpec => UpgradesHaveNotice
<1> DEFINE Noticed == implementation' # implementation =>
                          notice.implementation = implementation' /\ notice.at < height
<1>1. NoticeInv /\ [UpgradeNext]_upgradeVars => [Noticed]_upgradeVars
  <2> SUFFICES ASSUME NoticeInv, UpgradeNext PROVE Noticed
    OBVIOUS
  <2>1. implementation' = implementation => Noticed
    OBVIOUS
  <2>2. ASSUME NEW impl, UpgradeTo(impl)
        PROVE  Noticed
    <3>1. /\ impl = nextUpgrade.nextImplementation
          /\ nextUpgrade.afterEpoch <= height
          /\ impl \in Implementations
          /\ implementation' = impl
      BY <2>2 DEF UpgradeTo, AuthorizeUpgrade, HasCode, NoticeInv
    <3>2. nextUpgrade # NoPlan
      BY <3>1, UpgradesAssumption DEF NoPlan, Plan
    <3>3. QED BY <3>1, <3>2 DEF NoticeInv
  <2>3. ASSUME NEW impl, NEW afterEpoch,
               DeployImplementation(impl) \/ AnnouncePlannedUpgrade(impl, afterEpoch)
        PROVE  Noticed
    BY <2>1, <2>3 DEF DeployImplementation, AnnouncePlannedUpgrade
  <2>4. ASSUME NEW view, Migrate(view) \/ SetViewContract(view)
        PROVE  Noticed
    BY <2>1, <2>4 DEF Migrate, SetViewContract
  <2>5. CASE NewHeight
    BY <2>1, <2>5 DEF NewHeight
  <2> HIDE DEF Noticed
  <2>6. QED BY <2>2, <2>3, <2>4, <2>5 DEF UpgradeNext, UpgradeToAndMigrate
<1> HIDE DEF Noticed
<1>2. UpgradeSpec => [][Noticed]_upgradeVars
  BY <1>1, NoticeInvHolds, PTL DEF UpgradeSpec
<1>3. QED BY <1>2 DEF Noticed, UpgradesHaveNotice

-----------------------------------------------------------------------------
(***************************************************************************)
(* Part 3.  Paging through the registry shows every active provider once.  *)
(***************************************************************************)

\* How many members of a set of ids there are up to id.
Rank(members, id) == Cardinality({i \in members : i <= id})

\* Members are ranked from 1 without a gap, and Nth finds the member of a rank.
LEMMA RanksOfMembers ==
  ASSUME NEW members \in SUBSET Int, IsFiniteSet(members)
  PROVE  /\ \A id \in members : /\ Rank(members, id) \in 1..Cardinality(members)
                                /\ Nth(members, Rank(members, id)) = id
         /\ \A n \in 1..Cardinality(members) : /\ Nth(members, n) \in members
                                               /\ Rank(members, Nth(members, n)) = n
<1> DEFINE upTo(id) == {i \in members : i <= id}
           rank == [id \in members |-> Rank(members, id)]
<1>1. Cardinality(members) \in Nat
  BY FS_CardinalityType
<1>2. ASSUME NEW id \in members
      PROVE  /\ IsFiniteSet(upTo(id)) /\ id \in upTo(id)
             /\ Rank(members, id) = Cardinality(upTo(id))
             /\ Rank(members, id) \in 1..Cardinality(members)
  <2>1. upTo(id) \in SUBSET members /\ id \in upTo(id)
    OBVIOUS
  <2>2. Rank(members, id) = Cardinality(upTo(id))
    BY DEF Rank
  <2> HIDE DEF upTo
  <2>3. IsFiniteSet(upTo(id)) /\ Cardinality(upTo(id)) <= Cardinality(members)
    BY <2>1, FS_Subset
  <2>4. Cardinality(upTo(id)) \in Nat /\ Cardinality(upTo(id)) # 0
    BY <2>1, <2>3, FS_CardinalityType, FS_EmptySet
  <2>5. QED BY <1>1, <2>1, <2>2, <2>3, <2>4
<1>3. ASSUME NEW a \in members, NEW b \in members, a < b
      PROVE  Rank(members, a) < Rank(members, b)
  <2>1. upTo(a) \in SUBSET upTo(b) /\ b \in upTo(b) /\ b \notin upTo(a)
    <3>1. a \in Int /\ b \in Int /\ \A i \in members : i \in Int
      OBVIOUS
    <3>2. \A i \in Int : i <= a => i <= b
      BY <1>3, <3>1
    <3>3. b <= b /\ ~(b <= a)
      BY <1>3, <3>1
    <3>4. QED BY <3>1, <3>2, <3>3
  <2>2. /\ IsFiniteSet(upTo(b))
        /\ Rank(members, a) = Cardinality(upTo(a)) /\ Rank(members, b) = Cardinality(upTo(b))
        /\ Rank(members, a) \in Int /\ Rank(members, b) \in Int
    BY <1>1, <1>2
  <2> HIDE DEF upTo
  <2>3. Cardinality(upTo(a)) <= Cardinality(upTo(b)) /\ Cardinality(upTo(a)) # Cardinality(upTo(b))
    BY <2>1, <2>2, FS_Subset
  <2>4. QED BY <2>2, <2>3
<1>4. \A a, b \in members : Rank(members, a) = Rank(members, b) => a = b
  <2>1. ASSUME NEW a \in members, NEW b \in members, Rank(members, a) = Rank(members, b)
        PROVE  a = b
    <3>1. a \in Int /\ b \in Int /\ Rank(members, a) \in 1..Cardinality(members)
      BY <1>2
    <3>2. ~(Rank(members, a) < Rank(members, b)) /\ ~(Rank(members, b) < Rank(members, a))
      BY <1>1, <2>1, <3>1
    <3>3. ~(a < b) /\ ~(b < a)
      BY <1>3, <3>2
    <3>4. QED BY <3>1, <3>3
  <2>2. QED BY <2>1
<1>5. rank \in Injection(members, 1..Cardinality(members))
  BY <1>2, <1>4 DEF Injection, IsInjective
<1>6. IsFiniteSet(1..Cardinality(members)) /\ Cardinality(1..Cardinality(members)) = Cardinality(members)
  BY <1>1, FS_Interval
<1>7. rank \in Surjection(members, 1..Cardinality(members))
  <2> HIDE DEF rank
  <2>1. QED BY <1>5, <1>6, FS_Injection
<1>8. ASSUME NEW n \in 1..Cardinality(members)
      PROVE  Nth(members, n) \in members /\ Rank(members, Nth(members, n)) = n
  <2>1. PICK id \in members : rank[id] = n
    BY <1>7 DEF Surjection
  <2>2. Rank(members, id) = n
    BY <2>1
  <2>3. QED BY <2>2 DEF Nth, Rank
<1>9. \A id \in members : Nth(members, Rank(members, id)) = id
  BY <1>2, <1>4, <1>8
<1>10. QED BY <1>2, <1>8, <1>9

\* No request for a page that shows something overflows.
InReach(offset, limit, total) == offset < total => offset + limit <= MaxUint

\* What is asked of a page: the members behind its offset, and the truth about the next one.
ShowsMembers(page, members, total, offset, limit) ==
  /\ DOMAIN page.ids = {r \in 1..limit : offset + r <= total}
  /\ \A r \in DOMAIN page.ids : page.ids[r] = Nth(members, offset + r)
  /\ page.ids # <<>> <=> offset < total
  /\ page.hasMore <=> offset + limit < total

\* What a page shows of a set whose members the counter counts.
LEMMA PageOfMembers ==
  ASSUME NEW members \in SUBSET Int, IsFiniteSet(members), MaxUint \in Nat,
         NEW offset \in Nat, NEW limit \in Nat \ {0}, NEW total, total = Cardinality(members),
         InReach(offset, limit, total),
         NEW page, page = Page(members, total, offset, limit)
  PROVE  ShowsMembers(page, members, total, offset, limit)
<1> DEFINE size == IF offset + limit > total THEN total - offset ELSE limit
           shown == {r \in 1..limit : offset + r <= total}
<1>1. total \in Nat
  BY FS_CardinalityType
<1>2. CASE offset >= total
  <2>1. page = NoPage
    BY <1>2 DEF Page
  <2>2. page.ids = <<>> /\ ~page.hasMore /\ DOMAIN page.ids = {}
    BY <2>1 DEF NoPage
  <2>3. shown = {} /\ ~(offset < total) /\ ~(offset + limit < total)
    BY <1>1, <1>2
  <2> HIDE DEF shown
  <2>4. QED BY <2>2, <2>3 DEF shown, ShowsMembers
<1>3. CASE offset < total
  <2>1. ~(offset >= total \/ limit = 0) /\ ~(offset + limit > MaxUint)
    BY <1>1, <1>3 DEF InReach
  <2>2. page = [ids |-> [r \in 1..size |-> IF offset + r <= total THEN Nth(members, offset + r) ELSE 0],
                hasMore |-> offset + size < total]
    BY <2>1 DEF Page
  <2>3. size \in Nat /\ size >= 1 /\ 1..size = shown
        /\ (offset + size < total <=> offset + limit < total)
    BY <1>1, <1>3
  <2>4. \A r \in shown : offset + r <= total
    OBVIOUS
  <2> HIDE DEF size, shown
  <2>5. DOMAIN page.ids = 1..size /\ page.hasMore = (offset + size < total)
        /\ \A r \in 1..size : page.ids[r] = IF offset + r <= total THEN Nth(members, offset + r) ELSE 0
    BY <2>2
  <2>6. 1 \in DOMAIN page.ids
    BY <2>3, <2>5
  <2>7. page.ids # <<>>
    BY <2>6
  <2>8. QED BY <1>3, <2>3, <2>4, <2>5, <2>7 DEF shown, ShowsMembers
<1>4. QED BY <1>1, <1>2, <1>3

\* What all pages of limit entries show, with its places.
AllShown(members, total, limit) ==
  UNION {LET ids == Page(members, total, n * limit, limit).ids
         IN  {<<n, r, ids[r]>> : r \in DOMAIN ids} : n \in 0..MaxProviders}

\* The place of a member: page, place on the page, and the member itself.
PlaceOf(members, limit, id) ==
  LET before == Rank(members, id) - 1
  IN  <<before \div limit, Rank(members, id) - limit * (before \div limit), id>>

LEMMA PlacesOfMembers ==
  ASSUME NEW limit \in Nat \ {0}, NEW n \in Nat, NEW r \in 1..limit, NEW rank \in Nat \ {0}
  PROVE  n * limit + r = rank <=> n = (rank - 1) \div limit /\ r = rank - limit * ((rank - 1) \div limit)
<1> DEFINE quotient == (rank - 1) \div limit
<1>1. quotient \in Nat /\ n * limit = limit * n /\ limit * n \in Nat /\ limit * quotient \in Nat
      /\ rank - 1 \in Nat
  BY DivisionBounds
<1>2. ASSUME n * limit + r = rank PROVE n = quotient
  <2>1. rank - 1 = limit * n + (r - 1) /\ r - 1 \in 0 .. limit - 1
    <3>1. ASSUME NEW product \in Nat, product + r = rank PROVE rank - 1 = product + (r - 1) /\ r - 1 \in 0 .. limit - 1
      BY <3>1
    <3>2. QED BY <1>1, <1>2, <3>1
  <2>2. QED BY <2>1, DivisionOfMultiple
<1> HIDE DEF quotient
<1>3. ASSUME NEW product \in Nat PROVE product + r = rank <=> r = rank - product
  OBVIOUS
<1>4. QED BY <1>1, <1>2, <1>3 DEF quotient

\* The pages list each member in one place, and nobody else.
ListsMembers(members, total, limit) ==
  /\ {place[3] : place \in AllShown(members, total, limit)} = members
  /\ Cardinality(AllShown(members, total, limit)) = Cardinality(members)
  /\ \A n \in 0..MaxProviders :
        Page(members, total, n * limit, limit).hasMore <=>
            Page(members, total, (n + 1) * limit, limit).ids # <<>>

\* If the counter is right, and no request overflows, the pages list the members.
LEMMA PagesListMembers ==
  ASSUME NEW members \in SUBSET Ids, NEW total, total = Cardinality(members),
         MaxUint \in Nat, 2 * MaxProviders <= MaxUint, NEW limit \in 1..MaxProviders
  PROVE  ListsMembers(members, total, limit)
<1> DEFINE IdsOf(n) == Page(members, total, n * limit, limit).ids
           shown == AllShown(members, total, limit)
           Place(id) == PlaceOf(members, limit, id)
<1>1. /\ MaxProviders \in Nat /\ limit \in Nat \ {0} /\ limit <= MaxProviders
      /\ members \in SUBSET Int /\ IsFiniteSet(members)
      /\ total \in Nat /\ total <= MaxProviders
  <2>1. MaxProviders \in Nat /\ IsFiniteSet(Ids) /\ Cardinality(Ids) = MaxProviders
    BY FS_Interval, RegistryAssumption DEF Ids
  <2>2. IsFiniteSet(members) /\ Cardinality(members) <= MaxProviders
    BY <2>1, FS_Subset
  <2>3. members \in SUBSET Int
    BY DEF Ids
  <2>4. QED BY <2>1, <2>2, <2>3, FS_CardinalityType
<1>2. ASSUME NEW n \in Nat
      PROVE  /\ n * limit \in Nat /\ (n + 1) * limit = n * limit + limit
             /\ DOMAIN IdsOf(n) = {r \in 1..limit : n * limit + r <= total}
             /\ \A r \in DOMAIN IdsOf(n) : IdsOf(n)[r] = Nth(members, n * limit + r)
             /\ IdsOf(n) # <<>> <=> n * limit < total
             /\ Page(members, total, n * limit, limit).hasMore <=> n * limit + limit < total
  <2>1. n * limit \in Nat /\ (n + 1) * limit = n * limit + limit
    BY <1>1
  <2>2. ASSUME NEW offset \in Nat
        PROVE  offset < total => offset + limit <= MaxUint
    BY <1>1
  <2>3. PICK offset \in Nat : offset = n * limit
    BY <2>1
  <2>4. PICK page : page = Page(members, total, offset, limit)
    OBVIOUS
  <2>5. InReach(offset, limit, total)
    BY <2>2 DEF InReach
  <2>6. ShowsMembers(page, members, total, offset, limit)
    BY <1>1, <2>4, <2>5, PageOfMembers
  <2>7. QED BY <2>1, <2>3, <2>4, <2>6 DEF ShowsMembers
<1>3. \A n \in 0..MaxProviders :
         Page(members, total, n * limit, limit).hasMore <=> IdsOf(n + 1) # <<>>
  <2>1. ASSUME NEW n \in 0..MaxProviders
        PROVE  Page(members, total, n * limit, limit).hasMore <=> IdsOf(n + 1) # <<>>
    <3>1. n \in Nat /\ n + 1 \in Nat
      BY <1>1
    <3>2. (IdsOf(n + 1) # <<>>) <=> (n + 1) * limit < total
      BY <1>2, <3>1
    <3>3. QED BY <1>2, <3>1, <3>2
  <2>2. QED BY <2>1
<1>4. \A id \in members : /\ Rank(members, id) \in 1..total
                          /\ Nth(members, Rank(members, id)) = id
  BY <1>1, RanksOfMembers
<1>5. ASSUME NEW id \in members
      PROVE  Place(id) \in shown /\ Place(id)[3] = id
  <2> DEFINE rank == Rank(members, id)
             n == (rank - 1) \div limit
             r == rank - limit * n
  <2>1. rank \in Nat \ {0} /\ rank - 1 \in Nat /\ rank <= total
    BY <1>1, <1>4
  <2>2. n \in Nat /\ limit * n <= rank - 1 /\ rank - 1 < limit * n + limit
    BY <1>1, <2>1, DivisionBounds
  <2> HIDE DEF rank
  <2>3. n <= rank - 1
    BY <1>1, <2>1, <2>2
  <2> HIDE DEF n
  <2>4. limit * n \in Nat /\ limit * n = n * limit
    BY <1>1, <2>2
  <2>5. n \in 0..MaxProviders /\ r \in 1..limit /\ n * limit + r = rank
    BY <1>1, <2>1, <2>2, <2>3, <2>4
  <2>6. r \in DOMAIN IdsOf(n) /\ IdsOf(n)[r] = id
    <3>1. DOMAIN IdsOf(n) = {k \in 1..limit : n * limit + k <= total}
          /\ \A k \in DOMAIN IdsOf(n) : IdsOf(n)[k] = Nth(members, n * limit + k)
      BY <1>2, <2>2
    <3>2. Nth(members, rank) = id
      BY <1>4 DEF rank
    <3> HIDE DEF IdsOf
    <3>3. QED BY <2>1, <2>5, <3>1, <3>2
  <2>7. Place(id) = <<n, r, IdsOf(n)[r]>>
    BY <2>6 DEF PlaceOf, rank, n
  <2>8. Place(id)[3] = id
    BY <2>6, <2>7
  <2> HIDE DEF Place
  <2>9. Place(id) \in shown
    BY <2>5, <2>6, <2>7 DEF AllShown
  <2>10. QED BY <2>8, <2>9 DEF Place
<1>6. ASSUME NEW place \in shown
      PROVE  place[3] \in members /\ place = Place(place[3])
  <2>0. PICK n \in 0..MaxProviders : \E r \in DOMAIN IdsOf(n) : place = <<n, r, IdsOf(n)[r]>>
    BY DEF AllShown
  <2>1. PICK r \in DOMAIN IdsOf(n) : place = <<n, r, IdsOf(n)[r]>>
    BY <2>0
  <2>2. n \in Nat /\ r \in 1..limit /\ n * limit + r <= total /\ n * limit \in Nat
        /\ IdsOf(n)[r] = Nth(members, n * limit + r)
    BY <1>1, <1>2, <2>1
  <2> DEFINE id == Nth(members, n * limit + r)
             rank == n * limit + r
  <2>3. rank \in 1..total /\ rank \in Nat \ {0}
    BY <1>1, <2>2
  <2>4. id \in members /\ Rank(members, id) = rank
    BY <1>1, <2>3, RanksOfMembers
  <2>5. place = <<n, r, id>> /\ place[3] = id
    BY <2>1, <2>2
  <2>6. n = (rank - 1) \div limit /\ r = rank - limit * ((rank - 1) \div limit)
    BY <1>1, <2>2, <2>3, PlacesOfMembers
  <2> HIDE DEF id, rank
  <2>7. Place(id) = <<n, r, id>>
    BY <2>4, <2>6 DEF PlaceOf
  <2>8. QED BY <2>4, <2>5, <2>7
<1> DEFINE f == [id \in members |-> Place(id)]
<1> HIDE DEF shown, Place
<1>7. {place[3] : place \in shown} = members
  BY <1>5, <1>6
<1>8. f \in Bijection(members, shown)
  <2>1. f \in Injection(members, shown)
    <3>1. f \in [members -> shown]
      BY <1>5
    <3>2. \A a, b \in members : f[a] = f[b] => a = b
      BY <1>5
    <3>3. QED BY <3>1, <3>2 DEF Injection, IsInjective
  <2>2. f \in Surjection(members, shown)
    BY <1>5, <1>6 DEF Surjection
  <2>3. QED BY <2>1, <2>2 DEF Bijection
<1>9. Cardinality(shown) = Cardinality(members)
  BY <1>1, <1>8, FS_Bijection DEF ExistsBijection
<1>10. QED BY <1>3, <1>7, <1>9 DEF shown, ListsMembers

-----------------------------------------------------------------------------
(* The counters. *)

ActiveIds == {id \in Ids : providers[id].isActive}
OfferingIds == {id \in Ids : providerProducts[id].isActive}

\* The counters that size the pages count the records that fill them.
CountInv ==
  /\ activeProviderCount = Cardinality(ActiveIds)
  /\ activeProductTypeProviderCount = Cardinality(OfferingIds)

LEMMA IdsAreFinite ==
  /\ IsFiniteSet(ActiveIds) /\ Cardinality(ActiveIds) \in Nat
  /\ IsFiniteSet(OfferingIds) /\ Cardinality(OfferingIds) \in Nat
<1>1. IsFiniteSet(Ids)
  BY FS_Interval, RegistryAssumption DEF Ids
<1>2. ActiveIds \in SUBSET Ids /\ OfferingIds \in SUBSET Ids
  BY DEF ActiveIds, OfferingIds
<1>3. QED BY <1>1, <1>2, FS_Subset, FS_CardinalityType

\* A record that comes to count raises the counter, one that ceases to lowers it.
LEMMA OneMore ==
  ASSUME NEW members, IsFiniteSet(members), NEW id, id \notin members
  PROVE  Cardinality(members \cup {id}) = Cardinality(members) + 1
BY FS_AddElement

LEMMA OneLess ==
  ASSUME NEW members, IsFiniteSet(members), NEW id \in members
  PROVE  Cardinality(members \ {id}) = Cardinality(members) - 1
BY FS_RemoveElement

LEMMA CountsKept ==
  ASSUME RegistryInv, CountInv, [RegistryNext]_registryVars
  PROVE  CountInv'
<1>1. /\ providers \in [Ids -> Providers] /\ providerProducts \in [Ids -> Products]
      /\ numProviders \in 0..MaxProviders
      /\ \A id \in Ids : providers[id].isActive => id <= numProviders
      /\ \A id \in Ids : providerProducts[id].isActive => providers[id].isActive
  BY DEF RegistryInv, RegistryTypeOK, CapabilitiesListed
<1>2. /\ activeProviderCount = Cardinality(ActiveIds)
      /\ activeProductTypeProviderCount = Cardinality(OfferingIds)
  BY DEF CountInv
<1>3. ASSUME NEW sender \in Addresses, NEW payee, NEW info, NEW keys, NEW values,
             RegisterProvider(sender, payee, info, keys, values)
      PROVE  CountInv'
  <2> DEFINE id == numProviders + 1
  <2>1. /\ id \in Ids /\ ~providers[id].isActive /\ ~providerProducts[id].isActive
        /\ providers' = [providers EXCEPT ![id] = [serviceProvider |-> sender, payee |-> payee,
                                                   info |-> info, isActive |-> TRUE]]
        /\ providerProducts' = [providerProducts EXCEPT
                                  ![id] = [capabilityKeys |-> keys, isActive |-> TRUE]]
        /\ activeProviderCount' = activeProviderCount + 1
        /\ activeProductTypeProviderCount' = activeProductTypeProviderCount + 1
    BY <1>1, <1>3, RegistryAssumption DEF RegisterProvider, NextId, ValidateAndStoreProduct, Ids
  <2> HIDE DEF id
  <2>2. ActiveIds' = ActiveIds \cup {id} /\ id \notin ActiveIds
    BY <1>1, <2>1 DEF ActiveIds, Ids
  <2>3. OfferingIds' = OfferingIds \cup {id} /\ id \notin OfferingIds
    BY <1>1, <2>1 DEF OfferingIds, Ids
  <2>4. QED BY <1>2, <2>1, <2>2, <2>3, IdsAreFinite, OneMore DEF CountInv
<1>4. ASSUME NEW sender \in Addresses, NEW keys, NEW values, AddProduct(sender, keys, values)
      PROVE  CountInv'
  <2> DEFINE id == addressToProviderId[sender]
  <2>1. /\ id \in Ids /\ ~providerProducts[id].isActive
        /\ providerProducts' = [providerProducts EXCEPT
                                  ![id] = [capabilityKeys |-> keys, isActive |-> TRUE]]
        /\ activeProductTypeProviderCount' = activeProductTypeProviderCount + 1
        /\ UNCHANGED <<providers, activeProviderCount>>
    BY <1>4, CallerIsRegistered DEF AddProduct, ValidateAndStoreProduct
  <2> HIDE DEF id
  <2>2. ActiveIds' = ActiveIds
    BY <2>1 DEF ActiveIds, Ids
  <2>3. OfferingIds' = OfferingIds \cup {id} /\ id \notin OfferingIds
    BY <1>1, <2>1 DEF OfferingIds, Ids
  <2>4. QED BY <1>2, <2>1, <2>2, <2>3, IdsAreFinite, OneMore DEF CountInv
<1>5. ASSUME NEW sender \in Addresses, NEW keys, NEW values, UpdateProduct(sender, keys, values)
      PROVE  CountInv'
  <2> DEFINE id == addressToProviderId[sender]
  <2>1. /\ id \in Ids /\ providerProducts[id].isActive
        /\ providerProducts' = [providerProducts EXCEPT
                                  ![id] = [capabilityKeys |-> keys, isActive |-> TRUE]]
        /\ UNCHANGED <<providers, activeProviderCount, activeProductTypeProviderCount>>
    BY <1>5, CallerIsRegistered DEF UpdateProduct
  <2> HIDE DEF id
  <2>2. ActiveIds' = ActiveIds
    BY <2>1 DEF ActiveIds, Ids
  <2>3. OfferingIds' = OfferingIds
    BY <1>1, <2>1 DEF OfferingIds, Ids
  <2>4. QED BY <1>2, <2>1, <2>2, <2>3 DEF CountInv
<1>6. ASSUME NEW sender \in Addresses, RemoveProduct(sender)
      PROVE  CountInv'
  <2> DEFINE id == addressToProviderId[sender]
  <2>1. /\ id \in Ids /\ providerProducts[id].isActive
        /\ providerProducts' = [providerProducts EXCEPT ![id] = NoProduct]
        /\ activeProductTypeProviderCount' = activeProductTypeProviderCount - 1
        /\ UNCHANGED <<providers, activeProviderCount>>
    BY <1>6, CallerIsRegistered DEF RemoveProduct
  <2> HIDE DEF id
  <2>2. ActiveIds' = ActiveIds
    BY <2>1 DEF ActiveIds, Ids
  <2>3. OfferingIds' = OfferingIds \ {id} /\ id \in OfferingIds
    BY <1>1, <2>1 DEF OfferingIds, Ids, NoProduct
  <2>4. QED BY <1>2, <2>1, <2>2, <2>3, IdsAreFinite, OneLess DEF CountInv
<1>7. ASSUME NEW sender \in Addresses, NEW info, UpdateProviderInfo(sender, info)
      PROVE  CountInv'
  <2> DEFINE id == addressToProviderId[sender]
  <2>1. /\ id \in Ids
        /\ providers' = [providers EXCEPT ![id].info = info]
        /\ UNCHANGED <<providerProducts, activeProviderCount, activeProductTypeProviderCount>>
    BY <1>7, CallerIsRegistered DEF UpdateProviderInfo
  <2> HIDE DEF id
  <2>2. ActiveIds' = ActiveIds
    <3>1. \A other \in Ids : providers'[other].isActive = providers[other].isActive
      BY <1>1, <2>1 DEF Providers
    <3>2. QED BY <3>1 DEF ActiveIds, Ids
  <2>3. OfferingIds' = OfferingIds
    BY <2>1 DEF OfferingIds, Ids
  <2>4. QED BY <1>2, <2>1, <2>2, <2>3 DEF CountInv
<1>8. ASSUME NEW sender \in Addresses, RemoveProvider(sender)
      PROVE  CountInv'
  <2> DEFINE id == addressToProviderId[sender]
  <2>1. /\ id \in Ids /\ providers[id].isActive
        /\ providers' = [providers EXCEPT ![id].isActive = FALSE]
        /\ activeProviderCount' = activeProviderCount - 1
        /\ IF providerProducts[id].isActive
           THEN /\ activeProductTypeProviderCount' = activeProductTypeProviderCount - 1
                /\ providerProducts' = [providerProducts EXCEPT ![id] = NoProduct]
           ELSE UNCHANGED <<activeProductTypeProviderCount, providerProducts>>
    BY <1>8, CallerIsRegistered DEF RemoveProvider
  <2> HIDE DEF id
  <2>2. ActiveIds' = ActiveIds \ {id} /\ id \in ActiveIds
    <3>1. \A other \in Ids : providers'[other].isActive = (other # id /\ providers[other].isActive)
      BY <1>1, <2>1 DEF Providers
    <3>2. QED BY <2>1, <3>1 DEF ActiveIds, Ids
  <2>3. activeProviderCount' = Cardinality(ActiveIds')
    BY <1>2, <2>1, <2>2, IdsAreFinite, OneLess
  <2>4. CASE providerProducts[id].isActive
    <3>1. OfferingIds' = OfferingIds \ {id} /\ id \in OfferingIds
      <4>1. providerProducts' = [providerProducts EXCEPT ![id] = NoProduct]
        BY <2>1, <2>4
      <4>2. \A other \in Ids \ {id} : providerProducts'[other] = providerProducts[other]
        BY <1>1, <4>1
      <4>3. providerProducts'[id] = NoProduct
        BY <1>1, <2>1, <4>1
      <4>4. ~providerProducts'[id].isActive
        BY <4>3 DEF NoProduct
      <4>5. QED BY <2>1, <2>4, <4>2, <4>4 DEF OfferingIds, Ids
    <3>2. QED BY <1>2, <2>1, <2>3, <2>4, <3>1, IdsAreFinite, OneLess DEF CountInv
  <2>5. CASE ~providerProducts[id].isActive
    <3>1. OfferingIds' = OfferingIds
      BY <2>1, <2>5 DEF OfferingIds, Ids
    <3>2. QED BY <1>2, <2>1, <2>3, <2>5, <3>1 DEF CountInv
  <2>6. QED BY <2>4, <2>5
<1>9. CASE UNCHANGED registryVars
  BY <1>2, <1>9 DEF CountInv, registryVars, ActiveIds, OfferingIds, Ids
<1>10. QED BY <1>3, <1>4, <1>5, <1>6, <1>7, <1>8, <1>9 DEF RegistryNext

LEMMA CountsHold == RegistrySpec => [](RegistryInv /\ CountInv)
<1>1. RegistryInit => CountInv
  <2> SUFFICES ASSUME RegistryInit PROVE CountInv
    OBVIOUS
  <2>1. ActiveIds = {} /\ OfferingIds = {}
    BY DEF RegistryInit, ActiveIds, OfferingIds, NoProvider, NoProduct
  <2>2. QED BY <2>1, FS_EmptySet DEF RegistryInit, CountInv
<1>2. RegistryInv /\ CountInv /\ [RegistryNext]_registryVars => CountInv'
  BY CountsKept
<1>3. QED BY <1>1, <1>2, RegistryInvHolds, PTL DEF RegistrySpec

(***************************************************************************)
(* Page after page of the active providers, and of those that offer the    *)
(* product, lists each of them once, whoever registered and left before.   *)
(* Registrations are taken to be fewer than half of what a request can     *)
(* number, so that no offset a client comes to overflows.                  *)
(***************************************************************************)
THEOREM PagesListEachProviderOnce ==
  ASSUME MaxUint \in Nat, 2 * MaxProviders <= MaxUint
  PROVE  RegistrySpec => []PagesListActiveProviders
<1>1. RegistryInv /\ CountInv => PagesListActiveProviders
  <2> SUFFICES ASSUME RegistryInv, CountInv PROVE PagesListActiveProviders
    OBVIOUS
  <2>1. /\ numProviders \in 0..MaxProviders
        /\ \A id \in Ids : providers[id].isActive => id <= numProviders
        /\ \A id \in Ids : providerProducts[id].isActive => providers[id].isActive
        /\ \A id \in 1..numProviders : id \in Ids /\ providers[id].serviceProvider \in Addresses
    BY RegistryAssumption DEF RegistryInv, RegistryTypeOK, CapabilitiesListed, Ids
  <2>2. ActiveProviders = ActiveIds
    BY <2>1, RegistryAssumption DEF ActiveProviders, ActiveIds, Ids
  <2>3. {id \in 1..numProviders : providerProducts[id].isActive} \cap ActiveProviders = OfferingIds
    BY <2>1, RegistryAssumption DEF ActiveProviders, OfferingIds, Ids
  <2>4. {id \in ActiveProviders : ProviderHasProduct(id) = TRUE} = OfferingIds
    <3>1. \A id \in ActiveProviders : Exists(id) /\ id \in Ids
      BY <2>1, RegistryAssumption DEF ActiveProviders, Exists
    <3>2. \A id \in ActiveProviders : ProviderHasProduct(id) = providerProducts[id].isActive
      BY <3>1 DEF ProviderHasProduct
    <3>3. \A id \in Ids : providerProducts[id].isActive \in BOOLEAN
      BY DEF RegistryInv, RegistryTypeOK, Products
    <3>4. \A id \in OfferingIds : id \in ActiveProviders
      BY <2>1, <2>2 DEF ActiveIds, OfferingIds
    <3>5. QED BY <3>1, <3>2, <3>3, <3>4 DEF OfferingIds
  <2>5. ActiveIds \in SUBSET Ids /\ OfferingIds \in SUBSET Ids
    BY DEF ActiveIds, OfferingIds
  <2>7. activeProviderCount = Cardinality(ActiveIds)
        /\ activeProductTypeProviderCount = Cardinality(OfferingIds)
    BY DEF CountInv
  <2> DEFINE offering == {id \in 1..numProviders : providerProducts[id].isActive}
             offered == offering \cap ActiveProviders
             found == {id \in ActiveProviders : ProviderHasProduct(id) = TRUE}
  <2>8. PagesReturnEachOnce(GetAllActiveProviders, ActiveProviders)
    <3>1. ASSUME NEW limit \in 1..MaxProviders
          PROVE  ListsMembers(ActiveProviders, activeProviderCount, limit)
      BY <2>2, <2>5, <2>7, PagesListMembers
    <3>2. QED BY <3>1 DEF PagesReturnEachOnce, ListsMembers, AllShown, GetAllActiveProviders
  <2>9. PagesReturnEachOnce(LAMBDA offset, limit : GetProvidersByProductType(TRUE, offset, limit), found)
    <3>1. ASSUME NEW limit \in 1..MaxProviders
          PROVE  ListsMembers(offered, activeProductTypeProviderCount, limit)
      BY <2>3, <2>5, <2>7, PagesListMembers
    <3>2. found = offered
      BY <2>3, <2>4
    <3>3. ASSUME NEW limit \in 1..MaxProviders, NEW n
          PROVE  GetProvidersByProductType(TRUE, n * limit, limit) =
                     Page(offered, activeProductTypeProviderCount, n * limit, limit)
      BY DEF GetProvidersByProductType
    <3> HIDE DEF offered, found
    <3>4. ASSUME NEW limit \in 1..MaxProviders
          PROVE  UNION {LET ids == GetProvidersByProductType(TRUE, n * limit, limit).ids
                        IN  {<<n, r, ids[r]>> : r \in DOMAIN ids} : n \in 0..MaxProviders} =
                 AllShown(offered, activeProductTypeProviderCount, limit)
      <4> DEFINE Asked(n) == GetProvidersByProductType(TRUE, n * limit, limit).ids
                 Answered(n) == Page(offered, activeProductTypeProviderCount, n * limit, limit).ids
      <4>1. ASSUME NEW n PROVE Asked(n) = Answered(n)
        BY <3>3
      <4> HIDE DEF Asked, Answered
      <4>2. ASSUME NEW n
            PROVE  {<<n, r, Asked(n)[r]>> : r \in DOMAIN Asked(n)} =
                   {<<n, r, Answered(n)[r]>> : r \in DOMAIN Answered(n)}
        <5>1. PICK ids : ids = Asked(n) /\ ids = Answered(n)
          BY <4>1
        <5>2. QED BY <5>1
      <4>3. UNION {{<<n, r, Asked(n)[r]>> : r \in DOMAIN Asked(n)} : n \in 0..MaxProviders} =
            UNION {{<<n, r, Answered(n)[r]>> : r \in DOMAIN Answered(n)} : n \in 0..MaxProviders}
        BY <4>2
      <4>4. QED BY <4>3 DEF AllShown, Asked, Answered
    <3>5. QED BY <3>1, <3>2, <3>3, <3>4 DEF PagesReturnEachOnce, ListsMembers
  <2>10. QED BY <2>8, <2>9 DEF PagesListActiveProviders
<1>2. QED BY <1>1, CountsHold, PTL

-----------------------------------------------------------------------------
(***************************************************************************)
(* Part 4.  What holds of a part holds when all parts run, since a         *)
(* transaction of one leaves the variables of the others alone.            *)
(***************************************************************************)

(***************************************************************************)
(* Every behaviour of the directory is a behaviour of the registry, of the *)
(* endorsed ids, of the approved ids and of the upgrade gate, which share  *)
(* no variable.                                                            *)
(***************************************************************************)
LEMMA EveryPartFollowsItsSpecification ==
  DirectorySpec => RegistrySpec /\ Spec /\ ApprovalSpec /\ UpgradeSpec
<1> USE DEF DirectoryNext
<1>1. DirectoryInit => RegistryInit /\ Init /\ ApprovalInit /\ UpgradeInit
  BY DEF DirectoryInit
<1>2. [DirectoryNext]_<<registryVars, list, approvalVars, upgradeVars>>
      => [RegistryNext]_registryVars
  OBVIOUS
<1>3. [DirectoryNext]_<<registryVars, list, approvalVars, upgradeVars>> => [Next]_list
  OBVIOUS
<1>4. [DirectoryNext]_<<registryVars, list, approvalVars, upgradeVars>>
      => [ApprovalNext]_approvalVars
  OBVIOUS
<1>5. [DirectoryNext]_<<registryVars, list, approvalVars, upgradeVars>>
      => [UpgradeNext]_upgradeVars
  OBVIOUS
<1>6. QED
  BY <1>1, <1>2, <1>3, <1>4, <1>5, PTL
     DEF DirectorySpec, RegistrySpec, Spec, ApprovalSpec, UpgradeSpec

(***************************************************************************)
(* So whatever order the transactions of the four parts come in, the       *)
(* lookups agree, capabilities and ids keep their meaning, every list has  *)
(* each id once, and the code changes only with notice; the conditions on  *)
(* the constants are those of the parts (ids start at 1, lists are far     *)
(* shorter than the largest integer).                                      *)
(***************************************************************************)
THEOREM DirectoryKeepsItsPromises ==
  ASSUME MaxUint \in Nat, 2 * MaxProviders <= MaxUint, 0 \notin ProviderIds
  PROVE  DirectorySpec =>
           /\ [](RegistrationsAgree /\ CapabilitiesMatchTheirKeys)
           /\ IdsNameOneProviderForGood
           /\ [](PagesListActiveProviders /\ ListedOnceWithoutGaps)
           /\ [](2 * Len(approvedProviderIds) <= LargestNumber => ApprovedOnExactlyOnePage)
           /\ UpgradesHaveNotice
<1>1. RegistrySpec => []PagesListActiveProviders
  BY PagesListEachProviderOnce
<1>2. Spec => []ListedOnceWithoutGaps
  BY ProviderIdsAreListedOnceWithoutGaps
<1>3. QED
  BY <1>1, <1>2, EveryPartFollowsItsSpecification, LookupsAgree, CapabilitiesStayTrue,
     IdsKeepTheirMeaning, ApprovedProvidersAreOnOnePage, UpgradesAreNoticed, PTL
=============================================================================
