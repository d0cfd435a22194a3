---------------------------- MODULE ClientProofs ----------------------------
(***************************************************************************)
(* What the Go packages promise, for any orders, metadata, pieces, networks*)
(* and messages: what the service stores is what was signed, and errors    *)
(* arrive as what they are.                                                *)
(***************************************************************************)
EXTENDS GoClient, ArithmeticLemmas, SequenceTheorems

-----------------------------------------------------------------------------
(***************************************************************************)
(* Part 1.  Orders.                                                        *)
(***************************************************************************)

\* The structs and the arrays of the same metadata have one hash.
LEMMA ArraysHashAsStructs ==
  ASSUME NEW metadata \in Metadata
  PROVE  HashMetadataEntries(MetadataToStringSlices(metadata)) = HashedEntries(metadata)
BY DEF HashMetadataEntries, HashMetadataEntry, MetadataToStringSlices, HashedEntries

LEMMA MetadataType ==
  ASSUME NEW metadata \in Metadata
  PROVE  \E m \in 0..MaxEntries : metadata \in [1..m -> MetadataEntry]
BY DEF Metadata, ListsUpTo

\* Metadata with one hash are one.
LEMMA HashTellsMetadata ==
  ASSUME NEW one \in Metadata, NEW other \in Metadata, HashedEntries(one) = HashedEntries(other)
  PROVE  one = other
<1>1. PICK m \in 0..MaxEntries : one \in [1..m -> MetadataEntry]
  BY MetadataType
<1>2. PICK n \in 0..MaxEntries : other \in [1..n -> MetadataEntry]
  BY MetadataType
<1>3. /\ DOMAIN HashedEntries(one) = DOMAIN one /\ DOMAIN HashedEntries(other) = DOMAIN other
      /\ \A i \in DOMAIN one : HashedEntries(one)[i] = <<"MetadataEntry", one[i].key, one[i].value>>
      /\ \A i \in DOMAIN other : HashedEntries(other)[i] = <<"MetadataEntry", other[i].key, other[i].value>>
  BY DEF HashedEntries
<1>4. ASSUME NEW i \in DOMAIN one
      PROVE  i \in DOMAIN other /\ one[i] = other[i]
  <2>1. i \in DOMAIN other /\ one[i].key = other[i].key /\ one[i].value = other[i].value
    BY <1>3
  <2>2. one[i] \in MetadataEntry /\ other[i] \in MetadataEntry
    BY <1>1, <1>2, <2>1
  <2>3. QED BY <2>1, <2>2 DEF MetadataEntry
<1>5. DOMAIN one = DOMAIN other
  BY <1>3
<1>6. QED BY <1>1, <1>2, <1>4, <1>5

\* The greatest of some of the first numbers.
LEMMA GreatestPlace ==
  ASSUME NEW m \in Nat, NEW at \in SUBSET (1..m), at # {}
  PROVE  Max(at) \in at /\ \A i \in at : i <= Max(at)
<1>1. at \in SUBSET Int /\ (\A x \in at : x <= m) /\ m \in Int
  OBVIOUS
<1>2. Max(at) \in at /\ \A x \in at : Max(at) >= x
  BY <1>1, MaxOfBoundedSet
<1>3. QED BY <1>1, <1>2

\* What faithfully stored metadata looks like.
Faithful(kept, metadata) ==
  /\ kept.keys = [j \in DOMAIN metadata |-> metadata[j].key]
  /\ \A j \in DOMAIN metadata : metadata[j].value # EmptyValue =>
        kept.values[metadata[j].key] = metadata[j].value
  /\ \A k \in MetadataKeys : kept.values[k] # EmptyValue =>
        [key |-> k, value |-> kept.values[k]] \in Range(metadata)

\* If no key comes again over a value, the last value of a key is its only one.
LEMMA StoredFaithfully ==
  ASSUME NEW metadata \in Metadata, ~DuplicateKey(MetadataToStringSlices(metadata))
  PROVE  Faithful(Stored(MetadataToStringSlices(metadata)), metadata)
<1> DEFINE slices == MetadataToStringSlices(metadata)
           kept == Stored(slices)
           at(k) == {i \in DOMAIN metadata : metadata[i].key = k}
<1>1. PICK m \in 0..MaxEntries : metadata \in [1..m -> MetadataEntry]
  BY MetadataType
<1>2. m \in Nat
  BY <1>1, OrderEncodingAssumption
<1>3. /\ DOMAIN slices.keys = DOMAIN metadata
      /\ \A i \in DOMAIN metadata : slices.keys[i] = metadata[i].key /\ slices.values[i] = metadata[i].value
      /\ slices.keys = [j \in DOMAIN metadata |-> metadata[j].key]
  BY DEF MetadataToStringSlices
<1>4. /\ kept.keys = slices.keys
      /\ \A k \in MetadataKeys : kept.values[k] = IF at(k) = {} THEN EmptyValue ELSE slices.values[Max(at(k))]
  <2> HIDE DEF slices
  <2>1. \A k : {i \in DOMAIN slices.keys : slices.keys[i] = k} = at(k)
    BY <1>3
  <2> HIDE DEF at
  <2>2. QED BY <2>1 DEF Stored
<1>5. ASSUME NEW k \in MetadataKeys, at(k) # {}
      PROVE  /\ Max(at(k)) \in at(k) /\ \A i \in at(k) : i <= Max(at(k))
             /\ kept.values[k] = metadata[Max(at(k))].value
  <2>1. at(k) \in SUBSET (1..m)
    BY <1>1
  <2>2. Max(at(k)) \in at(k) /\ \A i \in at(k) : i <= Max(at(k))
    <3> HIDE DEF at
    <3>1. QED BY <1>2, <1>5, <2>1, GreatestPlace
  <2>3. Max(at(k)) \in DOMAIN metadata
    BY <2>2
  <2> HIDE DEF at, slices, kept
  <2>4. QED BY <1>3, <1>4, <1>5, <2>2, <2>3
<1> HIDE DEF kept
<1>6. ASSUME NEW j \in DOMAIN metadata, metadata[j].value # EmptyValue
      PROVE  kept.values[metadata[j].key] = metadata[j].value
  <2> DEFINE k == metadata[j].key
             last == Max(at(k))
  <2>1. k \in MetadataKeys /\ j \in at(k)
    BY <1>1 DEF MetadataEntry
  <2>2. last \in at(k) /\ j <= last /\ kept.values[k] = metadata[last].value
    BY <1>5, <2>1
  <2>3. last \in DOMAIN metadata /\ metadata[last].key = k
    BY <2>2
  <2> HIDE DEF last, slices
  <2>4. ~(j < last)
    BY <1>3, <1>6, <2>3 DEF DuplicateKey, slices
  <2>5. j \in Int /\ last \in Int
    BY <1>1, <2>3
  <2>6. j = last
    BY <2>2, <2>4, <2>5
  <2>7. QED BY <2>2, <2>6
<1>7. ASSUME NEW k \in MetadataKeys, kept.values[k] # EmptyValue
      PROVE  [key |-> k, value |-> kept.values[k]] \in Range(metadata)
  <2>1. at(k) # {}
    BY <1>4, <1>7
  <2>2. PICK last \in at(k) : kept.values[k] = metadata[last].value
    BY <1>5, <2>1
  <2>3. last \in DOMAIN metadata /\ metadata[last].key = k /\ metadata[last] \in MetadataEntry
    BY <1>1, <2>2
  <2>4. metadata[last] = [key |-> k, value |-> kept.values[k]]
    BY <2>2, <2>3 DEF MetadataEntry
  <2>5. QED BY <2>3, <2>4 DEF Range
<1>8. QED BY <1>3, <1>4, <1>6, <1>7 DEF Faithful, kept

-----------------------------------------------------------------------------
(* The invariant of an order on its way. *)

\* What the provider may submit for an order of a kind.
SubmittedFor(kind, data) ==
  \/ /\ kind = "CreateDataSet"
     /\ \E metadata \in Metadata : data = EncodeCreateDataSetExtraData(metadata)
  \/ /\ kind = "AddPieces"
     /\ \E pieceData \in ListsUpTo(MaxAdded, Cids), metadata \in ListsUpTo(MaxAdded, Metadata) :
           data = EncodeAddPiecesExtraData(pieceData, metadata)
  \/ /\ kind = "SchedulePieceRemovals"
     /\ \E pieceIds \in ListsUpTo(MaxAdded, 0 .. MaxAdded - 1) :
           data = EncodeSchedulePieceRemovalsExtraData(pieceIds)

Orders == CreateDataSet \cup AddPieces \cup SchedulePieceRemovals

\* Order and extraData stay as long as something is stored for them.
OrderInv ==
  /\ order \in Orders \cup {Nothing}
  /\ extraData = Nothing \/ (order \in Orders /\ SubmittedFor(order.kind, extraData))
  /\ stored # <<>> \/ scheduled # <<>> => extraData # Nothing
  /\ WhatIsStoredWasSigned

LEMMA OrdersAreSomething ==
  /\ \A signed \in Orders : signed # Nothing
  /\ \A signed \in CreateDataSet : signed.kind = "CreateDataSet" /\ signed.metadata \in Metadata
  /\ \A signed \in AddPieces :
        /\ signed.kind = "AddPieces" /\ signed.pieceData \in ListsUpTo(MaxAdded, Cids)
        /\ signed.pieceMetadata \in ListsUpTo(MaxAdded, PieceMetadata)
  /\ \A signed \in SchedulePieceRemovals :
        /\ signed.kind = "SchedulePieceRemovals"
        /\ signed.pieceIds \in ListsUpTo(MaxAdded, 0 .. MaxAdded - 1)
BY DEF Orders, CreateDataSet, AddPieces, SchedulePieceRemovals, Nothing

LEMMA SubmittedIsSomething ==
  ASSUME NEW kind, NEW data, SubmittedFor(kind, data)
  PROVE  data # Nothing /\ data.kind = kind
BY DEF SubmittedFor, Nothing, EncodeCreateDataSetExtraData, EncodeAddPiecesExtraData,
       EncodeSchedulePieceRemovalsExtraData

\* The same order, so the same hash.
SignedAs(data, network, signed) ==
  /\ network = ThisChain
  /\ StructHash(data) = HashStruct(signed)
  /\ \A i \in DOMAIN SlicesOf(data) : ~DuplicateKey(SlicesOf(data)[i])

LEMMA TakenMeansSigned ==
  ASSUME NEW signed, NEW network, NEW data, Refusal(GetMessageHash(network, signed), data) = ""
  PROVE  SignedAs(data, network, signed)
<1>1. HashTypedDataV4(StructHash(data)) = GetMessageHash(network, signed)
  BY DEF Refusal
<1>2. \A i \in DOMAIN SlicesOf(data) : ~DuplicateKey(SlicesOf(data)[i])
  BY <1>1 DEF Refusal
<1>3. QED BY <1>1, <1>2 DEF SignedAs, HashTypedDataV4, GetMessageHash, GetDomain

\* What is kept for each of the slices of an accepted creation or addition was signed.
KeptAsSigned(signed, data) ==
  \A i \in DOMAIN SlicesOf(data) :
      \E metadata \in Metadata :
         /\ Faithful(Stored(SlicesOf(data)[i]), metadata)
         /\ signed.kind = "CreateDataSet" => metadata = signed.metadata
         /\ signed.kind = "AddPieces" =>
               \E p \in Range(signed.pieceMetadata) : p.pieceIndex = i - 1 /\ p.metadata = metadata
         /\ signed.kind # "SchedulePieceRemovals"

LEMMA CreationKeptAsSigned ==
  ASSUME NEW signed \in CreateDataSet, NEW data, SubmittedFor(signed.kind, data),
         StructHash(data) = HashStruct(signed),
         \A i \in DOMAIN SlicesOf(data) : ~DuplicateKey(SlicesOf(data)[i])
  PROVE  KeptAsSigned(signed, data)
<1>1. signed.kind = "CreateDataSet" /\ signed.metadata \in Metadata
  BY OrdersAreSomething
<1>2. PICK metadata \in Metadata : data = EncodeCreateDataSetExtraData(metadata)
  BY <1>1 DEF SubmittedFor
<1> DEFINE slices == MetadataToStringSlices(metadata)
<1>3. data.kind = "CreateDataSet" /\ data.slices = slices
  BY <1>2 DEF EncodeCreateDataSetExtraData
<1> HIDE DEF slices
<1>4. SlicesOf(data) = <<slices>>
  BY <1>3 DEF SlicesOf
<1>5. HashMetadataEntries(slices) = HashedEntries(signed.metadata)
  <2> DEFINE one == HashMetadataEntries(slices)
             other == HashedEntries(signed.metadata)
  <2>1. StructHash(data) = <<"CreateDataSet", one>>
    BY <1>3 DEF StructHash
  <2>2. HashStruct(signed) = <<"CreateDataSet", other>>
    BY <1>1 DEF HashStruct
  <2> HIDE DEF one, other
  <2>3. <<"CreateDataSet", one>> = <<"CreateDataSet", other>>
    BY <2>1, <2>2
  <2>4. one = other
    BY <2>3
  <2>5. QED BY <2>4 DEF one, other
<1>6. metadata = signed.metadata
  BY <1>1, <1>5, ArraysHashAsStructs, HashTellsMetadata DEF slices
<1>7. ~DuplicateKey(slices)
  BY <1>4
<1>8. Faithful(Stored(slices), metadata)
  BY <1>7, StoredFaithfully DEF slices
<1>9. \A i \in DOMAIN SlicesOf(data) : SlicesOf(data)[i] = slices
  BY <1>4
<1>10. QED BY <1>1, <1>6, <1>8, <1>9 DEF KeptAsSigned

LEMMA AdditionKeptAsSigned ==
  ASSUME NEW signed \in AddPieces, NEW data, SubmittedFor(signed.kind, data),
         StructHash(data) = HashStruct(signed),
         \A i \in DOMAIN SlicesOf(data) : ~DuplicateKey(SlicesOf(data)[i])
  PROVE  KeptAsSigned(signed, data)
<1>1. signed.kind = "AddPieces" /\ signed.pieceMetadata \in ListsUpTo(MaxAdded, PieceMetadata)
  BY OrdersAreSomething
<1>2. PICK pieceData \in ListsUpTo(MaxAdded, Cids), metadata \in ListsUpTo(MaxAdded, Metadata) :
         data = EncodeAddPiecesExtraData(pieceData, metadata)
  BY <1>1 DEF SubmittedFor
<1> DEFINE slices == [i \in DOMAIN metadata |-> MetadataToStringSlices(metadata[i])]
           pieces == signed.pieceMetadata
<1>3. data.kind = "AddPieces" /\ data.slices = slices
  BY <1>2 DEF EncodeAddPiecesExtraData
<1>4. DOMAIN slices = DOMAIN metadata
      /\ \A i \in DOMAIN metadata : slices[i] = MetadataToStringSlices(metadata[i])
  OBVIOUS
<1> HIDE DEF slices
<1>5. SlicesOf(data) = slices
  BY <1>3 DEF SlicesOf
<1>6. HashAllPieceMetadata(slices) = HashedPieces(pieces)
  <2> DEFINE one == HashAllPieceMetadata(slices)
             other == HashedPieces(pieces)
  <2>1. StructHash(data) = <<"AddPieces", data.pieceData, one>>
    BY <1>3 DEF StructHash
  <2>2. HashStruct(signed) = <<"AddPieces", signed.pieceData, other>>
    BY <1>1 DEF HashStruct
  <2> HIDE DEF one, other
  <2>3. <<"AddPieces", data.pieceData, one>> = <<"AddPieces", signed.pieceData, other>>
    BY <2>1, <2>2
  <2>4. one = other
    BY <2>3
  <2>5. QED BY <2>4 DEF one, other
<1>7. ASSUME NEW i \in DOMAIN slices
      PROVE  /\ i \in DOMAIN pieces /\ pieces[i].pieceIndex = i - 1
             /\ HashedEntries(pieces[i].metadata) = HashMetadataEntries(slices[i])
  <2>1. DOMAIN HashAllPieceMetadata(slices) = DOMAIN slices
        /\ HashAllPieceMetadata(slices)[i] = <<"PieceMetadata", i - 1, HashMetadataEntries(slices[i])>>
    BY DEF HashAllPieceMetadata
  <2>2. DOMAIN HashedPieces(pieces) = DOMAIN pieces
        /\ (i \in DOMAIN pieces => HashedPieces(pieces)[i] =
                <<"PieceMetadata", pieces[i].pieceIndex, HashedEntries(pieces[i].metadata)>>)
    BY DEF HashedPieces
  <2>3. QED BY <1>6, <2>1, <2>2
<1>8. ASSUME NEW i \in DOMAIN slices
      PROVE  /\ metadata[i] \in Metadata /\ pieces[i] \in PieceMetadata
             /\ pieces[i] \in Range(pieces)
  <2>1. metadata[i] \in Metadata
    BY <1>4 DEF ListsUpTo
  <2>2. pieces[i] \in PieceMetadata
    <3>1. PICK m \in 0..MaxAdded : pieces \in [1..m -> PieceMetadata]
      BY <1>1 DEF ListsUpTo
    <3> HIDE DEF pieces
    <3>2. QED BY <1>7, <3>1
  <2>3. QED BY <1>7, <2>1, <2>2 DEF Range
<1>9. ASSUME NEW i \in DOMAIN slices
      PROVE  pieces[i].metadata = metadata[i] /\ Faithful(Stored(slices[i]), metadata[i])
  <2>1. pieces[i].metadata \in Metadata
    BY <1>8 DEF PieceMetadata
  <2>2. HashedEntries(pieces[i].metadata) = HashedEntries(metadata[i])
    BY <1>4, <1>7, <1>8, ArraysHashAsStructs
  <2>3. ~DuplicateKey(MetadataToStringSlices(metadata[i]))
    BY <1>4, <1>5
  <2>4. QED BY <1>4, <1>8, <2>1, <2>2, <2>3, HashTellsMetadata, StoredFaithfully
<1>10. ASSUME NEW i \in DOMAIN slices
       PROVE  \E other \in Metadata :
                 /\ Faithful(Stored(slices[i]), other)
                 /\ \E p \in Range(pieces) : p.pieceIndex = i - 1 /\ p.metadata = other
  BY <1>7, <1>8, <1>9
<1>11. QED BY <1>1, <1>5, <1>10 DEF KeptAsSigned

LEMMA TakenKeeps ==
  ASSUME OrderInv, Taken
  PROVE  OrderInv'
<1>1. /\ extraData # Nothing /\ stored = <<>> /\ scheduled = <<>>
      /\ Refusal(GetMessageHash(chainId, order), extraData) = ""
      /\ stored' = [i \in DOMAIN SlicesOf(extraData) |-> Stored(SlicesOf(extraData)[i])]
      /\ scheduled' = IF extraData.kind = "SchedulePieceRemovals"
                      THEN scheduled \o extraData.pieceIds ELSE scheduled
      /\ order' = order /\ chainId' = chainId /\ extraData' = extraData
  BY DEF Taken, Submitted, RefusalNow
<1>2. order \in Orders /\ SubmittedFor(order.kind, extraData) /\ extraData.kind = order.kind
  BY <1>1, SubmittedIsSomething DEF OrderInv
<1>3. /\ chainId = ThisChain /\ StructHash(extraData) = HashStruct(order)
      /\ \A i \in DOMAIN SlicesOf(extraData) : ~DuplicateKey(SlicesOf(extraData)[i])
  <2>1. SignedAs(extraData, chainId, order)
    BY <1>1, TakenMeansSigned
  <2>2. QED BY <2>1 DEF SignedAs
<1>4. KeptAsSigned(order, extraData)
  <2>1. CASE order \in CreateDataSet
    BY <1>2, <1>3, <2>1, CreationKeptAsSigned
  <2>2. CASE order \in AddPieces
    BY <1>2, <1>3, <2>2, AdditionKeptAsSigned
  <2>3. CASE order \in SchedulePieceRemovals
    <3>1. SlicesOf(extraData) = <<>>
      BY <1>2, <2>3, OrdersAreSomething DEF SlicesOf
    <3>2. QED BY <3>1 DEF KeptAsSigned
  <2>4. QED BY <1>2, <2>1, <2>2, <2>3 DEF Orders
<1>5. ASSUME NEW i \in DOMAIN stored'
      PROVE  \E metadata \in SignedMetadata(i)' : Faithful(stored'[i], metadata)
  <2>1. i \in DOMAIN SlicesOf(extraData) /\ stored'[i] = Stored(SlicesOf(extraData)[i])
    BY <1>1
  <2>2. PICK metadata \in Metadata :
            /\ Faithful(stored'[i], metadata)
            /\ order.kind = "CreateDataSet" => metadata = order.metadata
            /\ order.kind = "AddPieces" =>
                  \E p \in Range(order.pieceMetadata) : p.pieceIndex = i - 1 /\ p.metadata = metadata
            /\ order.kind # "SchedulePieceRemovals"
    BY <1>4, <2>1 DEF KeptAsSigned
  <2>3. order.kind \in {"CreateDataSet", "AddPieces"}
    BY <1>2, <2>2, OrdersAreSomething DEF Orders
  <2>4. SignedMetadata(i)' = SignedMetadata(i)
    BY <1>1 DEF SignedMetadata
  <2>5. metadata \in SignedMetadata(i)
    BY <2>2, <2>3 DEF SignedMetadata
  <2>6. QED BY <2>2, <2>4, <2>5
<1>6. scheduled' # <<>> => scheduled' = order'.pieceIds
  <2>1. SUFFICES ASSUME scheduled' # <<>> PROVE scheduled' = order.pieceIds
    BY <1>1
  <2>2. extraData.kind = "SchedulePieceRemovals" /\ scheduled' = <<>> \o extraData.pieceIds
    BY <1>1, <2>1
  <2>3. PICK pieceIds \in ListsUpTo(MaxAdded, 0 .. MaxAdded - 1) :
            extraData = EncodeSchedulePieceRemovalsExtraData(pieceIds)
    BY <1>2, <2>2 DEF SubmittedFor
  <2>4. extraData.pieceIds = pieceIds
    BY <2>3 DEF EncodeSchedulePieceRemovalsExtraData
  <2>5. pieceIds \in Seq(Int)
    BY OrderEncodingAssumption DEF ListsUpTo
  <2>6. <<>> \o pieceIds = pieceIds
    BY <2>5
  <2>7. StructHash(extraData) = <<"SchedulePieceRemovals", pieceIds>>
    BY <2>2, <2>4 DEF StructHash
  <2>8. HashStruct(order) = <<"SchedulePieceRemovals", order.pieceIds>>
    BY <1>2, <2>2 DEF HashStruct
  <2>9. pieceIds = order.pieceIds
    <3> DEFINE ids == order.pieceIds
    <3>1. HashStruct(order) = <<"SchedulePieceRemovals", ids>>
      BY <2>8
    <3> HIDE DEF ids
    <3>2. <<"SchedulePieceRemovals", pieceIds>> = <<"SchedulePieceRemovals", ids>>
      BY <1>3, <2>7, <3>1
    <3>3. pieceIds = ids
      BY <3>2
    <3>4. QED BY <3>3 DEF ids
  <2>10. QED BY <2>2, <2>4, <2>6, <2>9
<1>7. WhatIsStoredWasSigned'
  BY <1>1, <1>3, <1>5, <1>6 DEF WhatIsStoredWasSigned, Faithful
<1>8. QED BY <1>1, <1>2, <1>7 DEF OrderInv

LEMMA NothingStored ==
  ASSUME stored = <<>>, scheduled = <<>>
  PROVE  WhatIsStoredWasSigned
BY DEF WhatIsStoredWasSigned

LEMMA OrderInvHolds == ClientSpec => []OrderInv
<1>1. ClientInit => OrderInv
  BY NothingStored DEF ClientInit, OrderInv
<1>2. ASSUME OrderInv, [ClientNext]_clientVars
      PROVE  OrderInv'
  <2>1. CASE Sign
    <3>1. /\ order = Nothing /\ order' \in Orders
          /\ extraData' = extraData /\ stored' = stored /\ scheduled' = scheduled
      BY <2>1 DEF Sign, Orders
    <3>2. extraData = Nothing /\ stored = <<>> /\ scheduled = <<>>
      BY <1>2, <3>1, OrdersAreSomething DEF OrderInv
    <3>3. WhatIsStoredWasSigned'
      BY <3>1, <3>2 DEF WhatIsStoredWasSigned
    <3>4. QED BY <3>1, <3>2, <3>3 DEF OrderInv
  <2>2. CASE Encode
    <3>1. /\ order # Nothing /\ extraData = Nothing
          /\ order' = order /\ stored' = stored /\ scheduled' = scheduled /\ chainId' = chainId
      BY <2>2 DEF Encode
    <3>2. stored = <<>> /\ scheduled = <<>> /\ order \in Orders
      BY <1>2, <3>1 DEF OrderInv
    <3>3. SubmittedFor(order.kind, extraData')
      <4>1. CASE /\ order.kind = "CreateDataSet"
                 /\ \E metadata \in Metadata : extraData' = EncodeCreateDataSetExtraData(metadata)
        BY <4>1 DEF SubmittedFor
      <4>2. CASE /\ order.kind = "AddPieces"
                 /\ \E pieceData \in ListsUpTo(MaxAdded, Cids) \ {<<>>},
                      metadata \in ListsUpTo(MaxAdded, Metadata) :
                          extraData' = EncodeAddPiecesExtraData(pieceData, metadata)
        BY <4>2 DEF SubmittedFor
      <4>3. CASE /\ order.kind = "SchedulePieceRemovals"
                 /\ \E signed \in SchedulePieceRemovals :
                        extraData' = EncodeSchedulePieceRemovalsExtraData(signed.pieceIds)
        BY <4>3, OrdersAreSomething DEF SubmittedFor
      <4>4. QED BY <2>2, <4>1, <4>2, <4>3 DEF Encode
    <3>4. WhatIsStoredWasSigned'
      BY <3>1, <3>2 DEF WhatIsStoredWasSigned
    <3>5. QED BY <3>1, <3>2, <3>3, <3>4 DEF OrderInv
  <2>3. CASE Taken
    BY <1>2, <2>3, TakenKeeps
  <2>4. CASE Refused
    <3>1. order' = Nothing /\ extraData' = Nothing /\ stored' = <<>> /\ scheduled' = <<>>
      BY <2>4 DEF Refused, Submitted
    <3>2. WhatIsStoredWasSigned'
      BY <3>1 DEF WhatIsStoredWasSigned
    <3>3. QED BY <3>1, <3>2 DEF OrderInv
  <2>5. CASE UNCHANGED orderVars
    <3>1. /\ order' = order /\ chainId' = chainId /\ extraData' = extraData
          /\ stored' = stored /\ scheduled' = scheduled
      BY <2>5 DEF orderVars
    <3>2. \A i : SignedMetadata(i)' = SignedMetadata(i)
      BY <3>1 DEF SignedMetadata
    <3>3. WhatIsStoredWasSigned' = WhatIsStoredWasSigned
      BY ZenonT(60), <3>1, <3>2 DEF WhatIsStoredWasSigned
    <3>4. QED BY <1>2, <3>1, <3>3 DEF OrderInv
  <2>6. QED BY <1>2, <2>1, <2>2, <2>3, <2>4, <2>5 DEF ClientNext, clientVars
<1>3. QED BY <1>1, <1>2, PTL DEF ClientSpec

(***************************************************************************)
(* Whatever the provider submits beside a client's signature, the service  *)
(* stores and schedules what was signed, for any number of keys, values,   *)
(* pieces and networks: equal hashes mean equal orders, although one side  *)
(* hashes structs and the other parallel arrays, and with no key repeated  *)
(* over a value, the last value of a key is the signed one.                *)
(***************************************************************************)
THEOREM StoredMetadataWasSigned == ClientSpec => []WhatIsStoredWasSigned
<1>1. OrderInv => WhatIsStoredWasSigned
  BY DEF OrderInv
<1>2. QED BY <1>1, OrderInvHolds, PTL

\* What the Go encoders make of an order is refused for a repeated key only.
LEMMA EncodedOrdersAreAuthentic ==
  ASSUME NEW signed \in Orders, InOrder(signed)
  PROVE  Refusal(GetMessageHash(ThisChain, signed), EncodingOf(signed)) \in {"", "DuplicateMetadataKey"}
<1> DEFINE data == EncodingOf(signed)
<1>1. StructHash(data) = HashStruct(signed)
      /\ ~(data.kind = "AddPieces" /\ Len(data.slices) # Len(data.pieceData))
  <2>1. CASE signed \in CreateDataSet
    <3>1. signed.kind = "CreateDataSet" /\ signed.metadata \in Metadata
      BY <2>1, OrdersAreSomething
    <3>2. data.kind = "CreateDataSet" /\ data.slices = MetadataToStringSlices(signed.metadata)
      BY <3>1 DEF EncodingOf, EncodeCreateDataSetExtraData
    <3> HIDE DEF data
    <3>3. QED BY <3>1, <3>2, ArraysHashAsStructs DEF StructHash, HashStruct
  <2>2. CASE signed \in AddPieces
    <3> DEFINE pieces == signed.pieceMetadata
               lists == [i \in DOMAIN pieces |-> pieces[i].metadata]
               slices == [i \in DOMAIN lists |-> MetadataToStringSlices(lists[i])]
    <3>1. signed.kind = "AddPieces" /\ pieces \in ListsUpTo(MaxAdded, PieceMetadata)
      BY <2>2, OrdersAreSomething
    <3>2. data.kind = "AddPieces" /\ data.slices = slices /\ data.pieceData = signed.pieceData
      BY <3>1 DEF EncodingOf, EncodeAddPiecesExtraData
    <3> HIDE DEF data
    <3>3. PICK m \in 0..MaxAdded : pieces \in [1..m -> PieceMetadata]
      BY <3>1 DEF ListsUpTo
    <3>4. m \in Nat /\ Len(pieces) = m
      BY <3>3, OrderEncodingAssumption
    <3>5. Len(slices) = m
      <4>1. DOMAIN pieces = 1..m /\ DOMAIN lists = DOMAIN pieces /\ DOMAIN slices = DOMAIN lists
        BY <3>3
      <4>2. slices = [i \in 1..m |-> MetadataToStringSlices(lists[i])]
        BY <4>1
      <4> HIDE DEF lists
      <4> DEFINE set == {MetadataToStringSlices(lists[i]) : i \in 1..m}
      <4>4. slices \in [1..m -> set]
        BY <4>2
      <4> HIDE DEF slices, set
      <4>5. slices \in Seq(set) /\ DOMAIN slices = 1..m
        BY <3>4, <4>4
      <4>6. QED BY <3>4, <4>5
    <3>6. Len(pieces) = Len(signed.pieceData) /\ \A i \in DOMAIN pieces : pieces[i].pieceIndex = i - 1
      BY <3>1 DEF InOrder
    <3>7. HashAllPieceMetadata(slices) = HashedPieces(pieces)
      <4>1. DOMAIN slices = DOMAIN pieces
            /\ \A i \in DOMAIN pieces : slices[i] = MetadataToStringSlices(pieces[i].metadata)
        OBVIOUS
      <4>2. ASSUME NEW i \in DOMAIN pieces
            PROVE  HashMetadataEntries(slices[i]) = HashedEntries(pieces[i].metadata)
        <5>1. pieces[i].metadata \in Metadata
          BY <3>3 DEF PieceMetadata
        <5>2. QED BY <4>1, <5>1, ArraysHashAsStructs
      <4> HIDE DEF slices
      <4>3. QED BY <3>6, <4>1, <4>2 DEF HashAllPieceMetadata, HashedPieces
    <3> HIDE DEF slices, lists
    <3>8. StructHash(data) = HashStruct(signed)
      BY <3>1, <3>2, <3>7 DEF StructHash, HashStruct
    <3>9. QED BY <3>2, <3>4, <3>5, <3>6, <3>8
  <2>3. CASE signed \in SchedulePieceRemovals
    <3>1. signed.kind = "SchedulePieceRemovals"
      BY <2>3, OrdersAreSomething
    <3>2. data.kind = "SchedulePieceRemovals" /\ data.pieceIds = signed.pieceIds
      BY <3>1 DEF EncodingOf, EncodeSchedulePieceRemovalsExtraData
    <3> HIDE DEF data
    <3>3. QED BY <3>1, <3>2 DEF StructHash, HashStruct
  <2>4. QED BY <2>1, <2>2, <2>3 DEF Orders
<1> HIDE DEF data
<1>2. HashTypedDataV4(StructHash(data)) = GetMessageHash(ThisChain, signed)
  BY <1>1 DEF HashTypedDataV4, GetMessageHash, GetDomain
<1>3. QED BY <1>1, <1>2 DEF Refusal, data

(***************************************************************************)
(* Orders survive their encoding: what the client signs as structs is what *)
(* the service hashes from the arrays the Go encoders make of it, for any  *)
(* number of pieces and entries.                                           *)
(***************************************************************************)
THEOREM EncodingsAreAccepted == ClientSpec => OrdersSurviveTheirEncoding
<1> DEFINE Survived == \/ raised' = raised \/ order = Nothing
                       \/ chainId = ThisChain /\ InOrder(order) /\ extraData = EncodingOf(order)
                          => raised'.name = "DuplicateMetadataKey"
<1>1. ASSUME OrderInv, [ClientNext]_clientVars
      PROVE  [Survived]_clientVars
  <2>1. SUFFICES ASSUME raised' # raised, order # Nothing, chainId = ThisChain, InOrder(order),
                        extraData = EncodingOf(order)
                 PROVE  raised'.name = "DuplicateMetadataKey"
    OBVIOUS
  <2>2. Refused
    BY <1>1, <2>1 DEF ClientNext, clientVars, vars, Sign, Encode, Taken
  <2>3. RefusalNow # "" /\ raised'.name = RefusalNow
    BY <2>2 DEF Refused, RevertWith
  <2>4. order \in Orders
    BY <1>1, <2>1 DEF OrderInv
  <2>5. QED BY <2>1, <2>3, <2>4, EncodedOrdersAreAuthentic DEF RefusalNow
<1>2. QED BY <1>1, OrderInvHolds, PTL DEF ClientSpec, OrdersSurviveTheirEncoding

-----------------------------------------------------------------------------
(***************************************************************************)
(* Part 2.  Errors.  What the generated files say about each other, row by *)
(* row: the structs, the decoders, the map of selectors and the helpers.   *)
(***************************************************************************)

LEMMA NamesTellErrors == \A t \in ErrorTypes, r \in ErrorTypes : t[1] = r[1] => t = r
BY SMTT(60) DEF ErrorTypes, Types1, Types2, Types3, Types4, Types5, Types6, Types7, Types8, Types9,
       Types10, Types11, Types12, Types13, Types14, Types15, Types16

LEMMA NamesTellDecoders == \A d \in ErrorDecoders, r \in ErrorDecoders : d[1] = r[1] => d = r
BY SMTT(60) DEF ErrorDecoders, Decoders1, Decoders2, Decoders3, Decoders4, Decoders5, Decoders6,
       Decoders7, Decoders8, Decoders9, Decoders10, Decoders11, Decoders12, Decoders13,
       Decoders14, Decoders15, Decoders16, Decoders17, Decoders18, Decoders19, Decoders20

LEMMA SelectorsTellDecoders == \A t \in ErrorTypes, r \in DecoderMap : t[1] = r[2] <=> t[2] = r[1]
BY SMTT(60) DEF DecoderMap, ErrorTypes, Types1, Types2, Types3, Types4, Types5, Types6, Types7, Types8,
       Types9, Types10, Types11, Types12, Types13, Types14, Types15, Types16

LEMMA EachHasASelector == \A t \in ErrorTypes : <<t[2], t[1]>> \in DecoderMap
BY SMTT(60) DEF DecoderMap, ErrorTypes, Types1, Types2, Types3, Types4, Types5, Types6, Types7, Types8,
       Types9, Types10, Types11, Types12, Types13, Types14, Types15, Types16

LEMMA EachHasAHelper == \A t \in ErrorTypes : t[1] \in IsHelpers
BY SMTT(60) DEF IsHelpers, Helpers1, Helpers2, Helpers3, Helpers4, Helpers5, Helpers6, Helpers7,
       Helpers8, ErrorTypes, Types1, Types2, Types3, Types4, Types5, Types6, Types7, Types8,
       Types9, Types10, Types11, Types12, Types13, Types14, Types15, Types16

LEMMA SelectorsAreNoWords == \A r \in DecoderMap : ~(r[1] = "none") /\ ~(r[1] = "other") /\ ~(r[1] = "missing")
BY DEF DecoderMap

LEMMA RowsOfDecoderMap == \A r \in DecoderMap : r = <<r[1], r[2]>>
BY DEF DecoderMap

\* The lists of parameters that occur, as ABI types and as Go types.
ParameterLists ==
  {<< <<>>, <<>> >>, << <<A>>, <<Adr>> >>, << <<B32>>, <<Bytes>> >>, << <<S>>, <<Str>> >>,
   << <<U>>, <<Big>> >>, << <<U8>>, <<Byte>> >>, << <<A, A>>, <<Adr, Adr>> >>,
   << <<A, U>>, <<Adr, Big>> >>, << <<U, S>>, <<Big, Str>> >>, << <<U, U>>, <<Big, Big>> >>,
   << <<A, U, U>>, <<Adr, Big, Big>> >>, << <<U, A, A>>, <<Big, Adr, Adr>> >>,
   << <<U, U, U>>, <<Big, Big, Big>> >>, << <<U8, U, U>>, <<Byte, Big, Big>> >>,
   << <<A, A, A, A>>, <<Adr, Adr, Adr, Adr>> >>, << <<A, A, U, U>>, <<Adr, Adr, Big, Big>> >>,
   << <<U, A, A, A>>, <<Big, Adr, Adr, Adr>> >>, << <<U, A, U, U>>, <<Big, Adr, Big, Big>> >>,
   << <<U, U, U, U>>, <<Big, Big, Big, Big>> >>,
   << <<A, A, U, U, U>>, <<Adr, Adr, Big, Big, Big>> >>,
   << <<U, A, A, U, U>>, <<Big, Adr, Adr, Big, Big>> >>,
   << <<U, A, B, U, U>>, <<Big, Adr, Bool, Big, Big>> >>}

\* Each of some errors has one of some decoders, with parameters for its fields.
DecodedBy(types, decoders) ==
  \A t \in types : /\ \E d \in decoders : t[1] = d[1]
                   /\ \A d \in decoders : t[1] = d[1] => <<d[2], t[3]>> \in ParameterLists

LEMMA EachHasADecoder ==
  \A t \in ErrorTypes : \E d \in ErrorDecoders : t[1] = d[1] /\ <<d[2], t[3]>> \in ParameterLists
<1>1. DecodedBy(Types1, Decoders1 \cup Decoders2)
  BY DEF DecodedBy, ParameterLists, Types1, Decoders1, Decoders2
<1>2. DecodedBy(Types2, Decoders2 \cup Decoders3)
  BY DEF DecodedBy, ParameterLists, Types2, Decoders2, Decoders3
<1>3. DecodedBy(Types3, Decoders3 \cup Decoders4)
  BY DEF DecodedBy, ParameterLists, Types3, Decoders3, Decoders4
<1>4. DecodedBy(Types4, Decoders5)
  BY DEF DecodedBy, ParameterLists, Types4, Decoders5
<1>5. DecodedBy(Types5, Decoders6 \cup Decoders7)
  BY DEF DecodedBy, ParameterLists, Types5, Decoders6, Decoders7
<1>6. DecodedBy(Types6, Decoders7 \cup Decoders8)
  BY DEF DecodedBy, ParameterLists, Types6, Decoders7, Decoders8
<1>7. DecodedBy(Types7, Decoders8 \cup Decoders9)
  BY DEF DecodedBy, ParameterLists, Types7, Decoders8, Decoders9
<1>8. DecodedBy(Types8, Decoders10 \cup Decoders11)
  BY DEF DecodedBy, ParameterLists, Types8, Decoders10, Decoders11
<1>9. DecodedBy(Types9, Decoders11 \cup Decoders12)
  BY DEF DecodedBy, ParameterLists, Types9, Decoders11, Decoders12
<1>10. DecodedBy(Types10, Decoders12 \cup Decoders13)
  BY DEF DecodedBy, ParameterLists, Types10, Decoders12, Decoders13
<1>11. DecodedBy(Types11, Decoders13 \cup Decoders14)
  BY DEF DecodedBy, ParameterLists, Types11, Decoders13, Decoders14
<1>12. DecodedBy(Types12, Decoders15 \cup Decoders16)
  BY DEF DecodedBy, ParameterLists, Types12, Decoders15, Decoders16
<1>13. DecodedBy(Types13, Decoders16 \cup Decoders17)
  BY DEF DecodedBy, ParameterLists, Types13, Decoders16, Decoders17
<1>14. DecodedBy(Types14, Decoders17 \cup Decoders18)
  BY DEF DecodedBy, ParameterLists, Types14, Decoders17, Decoders18
<1>15. DecodedBy(Types15, Decoders19 \cup Decoders20)
  BY DEF DecodedBy, ParameterLists, Types15, Decoders19, Decoders20
<1>16. DecodedBy(Types16, Decoders20)
  BY DEF DecodedBy, ParameterLists, Types16, Decoders20
<1>17. QED
  <2> SUFFICES ASSUME NEW t \in ErrorTypes
               PROVE  \E d \in ErrorDecoders : t[1] = d[1] /\ <<d[2], t[3]>> \in ParameterLists
    OBVIOUS
  <2>1. CASE t \in Types1
    BY <1>1, <2>1 DEF DecodedBy, ErrorDecoders
  <2>2. CASE t \in Types2
    BY <1>2, <2>2 DEF DecodedBy, ErrorDecoders
  <2>3. CASE t \in Types3
    BY <1>3, <2>3 DEF DecodedBy, ErrorDecoders
  <2>4. CASE t \in Types4
    BY <1>4, <2>4 DEF DecodedBy, ErrorDecoders
  <2>5. CASE t \in Types5
    BY <1>5, <2>5 DEF DecodedBy, ErrorDecoders
  <2>6. CASE t \in Types6
    BY <1>6, <2>6 DEF DecodedBy, ErrorDecoders
  <2>7. CASE t \in Types7
    BY <1>7, <2>7 DEF DecodedBy, ErrorDecoders
  <2>8. CASE t \in Types8
    BY <1>8, <2>8 DEF DecodedBy, ErrorDecoders
  <2>9. CASE t \in Types9
    BY <1>9, <2>9 DEF DecodedBy, ErrorDecoders
  <2>10. CASE t \in Types10
    BY <1>10, <2>10 DEF DecodedBy, ErrorDecoders
  <2>11. CASE t \in Types11
    BY <1>11, <2>11 DEF DecodedBy, ErrorDecoders
  <2>12. CASE t \in Types12
    BY <1>12, <2>12 DEF DecodedBy, ErrorDecoders
  <2>13. CASE t \in Types13
    BY <1>13, <2>13 DEF DecodedBy, ErrorDecoders
  <2>14. CASE t \in Types14
    BY <1>14, <2>14 DEF DecodedBy, ErrorDecoders
  <2>15. CASE t \in Types15
    BY <1>15, <2>15 DEF DecodedBy, ErrorDecoders
  <2>16. CASE t \in Types16
    BY <1>16, <2>16 DEF DecodedBy, ErrorDecoders
  <2>17. QED BY <2>1, <2>2, <2>3, <2>4, <2>5, <2>6, <2>7, <2>8, <2>9, <2>10, <2>11, <2>12, <2>13,
             <2>14, <2>15, <2>16 DEF ErrorTypes

LEMMA TypesGenerated ==
  /\ SolTypeToGoType(U) = Big /\ SolTypeToGoType(A) = Adr /\ SolTypeToGoType(U8) = Byte
  /\ SolTypeToGoType(S) = Str /\ SolTypeToGoType(B) = Bool /\ SolTypeToGoType(B32) = Bytes
BY DEF SolTypeToGoType, U, A, U8, S, B, B32, Big, Adr, Byte, Str, Bool, Bytes

\* All types but one are unpacked as what the decoder asserts.
LEMMA TypesAsserted == \A x \in {U, A, U8, S, B} : UnpackedType(x) = SolTypeToGoType(x)
BY DEF UnpackedType, SolTypeToGoType, U, A, U8, S, B

LEMMA ListsGenerated ==
  \A p \in ParameterLists :
      /\ p[2] = [i \in DOMAIN p[1] |-> SolTypeToGoType(p[1][i])]
      /\ p[2] = <<>> => p[1] = <<>>
      /\ p[1] = <<>> => p[2] = <<>>
      /\ p[1] = <<B32>> \/ \A i \in DOMAIN p[1] : p[1][i] \in {U, A, U8, S, B}
<1>1. \A p \in ParameterLists : p[2] = [i \in DOMAIN p[1] |-> SolTypeToGoType(p[1][i])]
  BY TypesGenerated DEF ParameterLists
<1>2. \A p \in ParameterLists : (p[2] = <<>> => p[1] = <<>>) /\ (p[1] = <<>> => p[2] = <<>>)
  BY DEF ParameterLists
<1>3. \A p \in ParameterLists : p[1] = <<B32>> \/ \A i \in DOMAIN p[1] : p[1][i] \in {U, A, U8, S, B}
  BY DEF ParameterLists
<1>4. QED BY <1>1, <1>2, <1>3

LEMMA OneHasBytes == \A d \in ErrorDecoders : d[2] = <<B32>> => d[1] = "UUPSUnsupportedProxiableUUID"
BY SMTT(60) DEF ErrorDecoders, Decoders1, Decoders2, Decoders3, Decoders4, Decoders5, Decoders6,
       Decoders7, Decoders8, Decoders9, Decoders10, Decoders11, Decoders12, Decoders13,
       Decoders14, Decoders15, Decoders16, Decoders17, Decoders18, Decoders19, Decoders20, U, A, U8, S, B, B32

\* What the package does with an error it lists: one struct, one decoder of the same name,
\* whose parameters are the fields, and one helper.
LEMMA ListedIsDecoded ==
  ASSUME NEW t \in ErrorTypes
  PROVE  /\ Struct(t[1]) = t
         /\ {r[2] : r \in {q \in DecoderMap : q[1] = t[2]}} = {t[1]}
         /\ t[1] \in IsHelpers
         /\ t[3] = FieldTypes(t[1])
         /\ AbiTypes(t[1]) = <<>> <=> t[3] = <<>>
         /\ t[1] = "UUPSUnsupportedProxiableUUID"
              \/ \A i \in DOMAIN AbiTypes(t[1]) :
                    UnpackedType(AbiTypes(t[1])[i]) = SolTypeToGoType(AbiTypes(t[1])[i])
<1>1. Struct(t[1]) = t
  BY NamesTellErrors DEF Struct
<1>2. {r[2] : r \in {q \in DecoderMap : q[1] = t[2]}} = {t[1]}
  <2>1. <<t[2], t[1]>> \in DecoderMap /\ <<t[2], t[1]>>[1] = t[2] /\ <<t[2], t[1]>>[2] = t[1]
    BY EachHasASelector
  <2>2. \A q \in DecoderMap : q[1] = t[2] => q[2] = t[1]
    BY SelectorsTellDecoders
  <2>3. QED BY <2>1, <2>2
<1>3. PICK d \in ErrorDecoders : t[1] = d[1] /\ <<d[2], t[3]>> \in ParameterLists
  BY EachHasADecoder
<1>4. AbiTypes(t[1]) = d[2]
  BY <1>3, NamesTellDecoders DEF AbiTypes
<1> DEFINE p == <<d[2], t[3]>>
<1>5. p \in ParameterLists /\ p[1] = d[2] /\ p[2] = t[3]
  BY <1>3
<1> HIDE DEF p
<1>6. /\ p[2] = [i \in DOMAIN p[1] |-> SolTypeToGoType(p[1][i])]
      /\ p[2] = <<>> <=> p[1] = <<>>
      /\ p[1] = <<B32>> \/ \A i \in DOMAIN p[1] : p[1][i] \in {U, A, U8, S, B}
  BY <1>5, ListsGenerated
<1>7. t[3] = FieldTypes(t[1])
  BY <1>4, <1>5, <1>6 DEF FieldTypes
<1>8. t[1] = "UUPSUnsupportedProxiableUUID"
        \/ \A i \in DOMAIN d[2] : UnpackedType(d[2][i]) = SolTypeToGoType(d[2][i])
  BY <1>3, <1>5, <1>6, OneHasBytes, TypesAsserted
<1>9. QED BY <1>1, <1>2, <1>4, <1>5, <1>6, <1>7, <1>8, EachHasAHelper

-----------------------------------------------------------------------------
(* Messages. *)

Plain        == {Words, OtherHex} \cup Range(Markers)
Data(params) == Hex(raised.selector, params)

\* A message with the data at one place, among other tokens.
CarriesAt(msg, at, params) ==
  /\ msg \in Seq(Plain \cup {Data("whole"), Data("cut")})
  /\ at \in DOMAIN msg /\ msg[at] = Data(params)
  /\ params = "whole" \/ (params = "cut" /\ ~raised.bare)
  /\ \A i \in DOMAIN msg : i # at => msg[i] \in Plain

\* Raised was an error of the catalogue, or one that the package does not list.
ListedRaised  == \E t \in ErrorTypes :
                    raised = [name |-> t[1], selector |-> t[2], bare |-> t[3] = <<>>]
MissingRaised == \E name \in MissingErrors :
                    raised = [name |-> name, selector |-> "missing", bare |-> FALSE]

ErrorInv ==
  /\ raised = NoRevert \/ ListedRaised \/ MissingRaised
  /\ message = <<>>
       \/ (raised # NoRevert /\ \E at \in Nat, params \in {"whole", "cut"} : CarriesAt(message, at, params))
  /\ result = NoResult \/ (message # <<>> /\ result = ParseRevert(ExtractHexData(message)))

LEMMA PlainTokens ==
  /\ Plain = {Words, OtherHex, Markers[1], Markers[2], Markers[3]}
  /\ \A x \in Plain : x.selector \in {"none", "other"}
  /\ \A s, params : Hex(s, params).selector = s /\ Hex(s, params).params = params /\ Hex(s, params).text = "0x"
  /\ \A i \in 1..3 : \A x \in Plain : x.text = Markers[i].text => x = Markers[i]
  /\ \A i \in 1..3 : Markers[i].text # "0x"
  /\ Markers[1] # Markers[2] /\ DOMAIN Markers = 1..3
<1>1. /\ DOMAIN Markers = 1..3
      /\ Markers[1] = Token("execution_reverted") /\ Markers[2] = Token("vm_error")
      /\ Markers[3] = Token("revert")
  BY DEF Markers
<1>2. Plain = {Words, OtherHex, Markers[1], Markers[2], Markers[3]}
  <2>1. Range(Markers) = {Markers[1], Markers[2], Markers[3]}
    BY <1>1 DEF Range
  <2>2. QED BY <2>1 DEF Plain
<1>3. /\ Markers[1].text = "execution_reverted" /\ Markers[1].selector = "none"
      /\ Markers[2].text = "vm_error" /\ Markers[2].selector = "none"
      /\ Markers[3].text = "revert" /\ Markers[3].selector = "none"
  BY <1>1 DEF Token
<1>4. /\ Words.text = "words" /\ Words.selector = "none"
      /\ OtherHex.text = "0x" /\ OtherHex.selector = "other"
  BY DEF Token, Hex, Words, OtherHex
<1>5. \A s, params : Hex(s, params).selector = s /\ Hex(s, params).params = params /\ Hex(s, params).text = "0x"
  BY DEF Hex
<1>6. \A x \in Plain : x.text = "execution_reverted" => x = Markers[1]
  BY <1>2, <1>3, <1>4
<1>7. \A x \in Plain : x.text = "vm_error" => x = Markers[2]
  BY <1>2, <1>3, <1>4
<1>8. \A x \in Plain : x.text = "revert" => x = Markers[3]
  BY <1>2, <1>3, <1>4
<1>9. Markers[1] # Markers[2]
  BY <1>3
<1>10. \A x \in Plain : x.selector \in {"none", "other"}
  BY <1>2, <1>3, <1>4
<1>11. \A i \in 1..3 : i = 1 \/ i = 2 \/ i = 3
  OBVIOUS
<1>12. \A i \in 1..3 : Markers[i].text # "0x" /\ \A x \in Plain : x.text = Markers[i].text => x = Markers[i]
  <2> TAKE i \in 1..3
  <2>1. CASE i = 1
    BY <1>3, <1>6, <2>1
  <2>2. CASE i = 2
    BY <1>3, <1>7, <2>2
  <2>3. CASE i = 3
    BY <1>3, <1>8, <2>3
  <2>4. QED BY <1>11, <2>1, <2>2, <2>3
<1>13. QED BY <1>1, <1>2, <1>5, <1>9, <1>10, <1>12

\* The first token with a text, if there is one.
LEMMA IndexIsFirst ==
  ASSUME NEW X, NEW msg \in Seq(X), NEW text
  PROVE  \/ Index(msg, text) = 0 /\ \A i \in DOMAIN msg : msg[i].text # text
         \/ /\ Index(msg, text) \in DOMAIN msg /\ msg[Index(msg, text)].text = text
            /\ \A i \in DOMAIN msg : msg[i].text = text => Index(msg, text) <= i
<1> DEFINE places == {i \in 1..Len(msg) : msg[i].text = text}
<1>1. Index(msg, text) = IF places # {} THEN Min(places) ELSE 0
  BY DEF Index, SelectInSeq
<1>2. DOMAIN msg = 1..Len(msg) /\ Len(msg) \in Nat
  OBVIOUS
<1>3. CASE places = {}
  BY <1>1, <1>2, <1>3
<1>4. CASE places # {}
  <2>1. places \in SUBSET Nat
    BY <1>2
  <2> DEFINE first == Min(places)
  <2>2. first \in places /\ \A i \in places : first <= i
    <3> HIDE DEF places
    <3>1. QED BY <1>4, <2>1, MinOfNaturals DEF first
  <2>3. Index(msg, text) = first
    BY <1>1, <1>4
  <2> HIDE DEF first
  <2>4. QED BY <1>2, <2>2, <2>3
<1>5. QED BY <1>3, <1>4

\* What stands at a place of the message, if it is a hex string.
LEMMA HexAtIsPart ==
  ASSUME NEW msg, NEW i
  PROVE  \/ HexAt(msg, i) = <<>> /\ (i \notin DOMAIN msg \/ msg[i].text # "0x")
         \/ i \in DOMAIN msg /\ msg[i].text = "0x" /\ HexAt(msg, i) = <<msg[i]>>
BY DEF HexAt

\* Each pattern finds nothing or one hex string of the message.
PartOf(hex, msg) == hex = <<>> \/ \E i \in DOMAIN msg : hex = <<msg[i]>>

LEMMA PatternsFindParts ==
  ASSUME NEW msg
  PROVE  /\ Len(Patterns(msg)) = 4 /\ DOMAIN Patterns(msg) = 1..4
         /\ \A i \in 1..3 : Patterns(msg)[i] = HexAfter(msg, Markers[i])
         /\ \A i \in 1..4 : PartOf(Patterns(msg)[i], msg)
<1> DEFINE after == [i \in 1..3 |-> HexAfter(msg, Markers[i])]
           last == HexAt(msg, Index(msg, "0x"))
           some == {after[i] : i \in 1..3} \cup {last}
<1>1. after \in Seq(some) /\ Len(after) = 3 /\ <<last>> \in Seq(some)
  <2>1. after \in [1..3 -> some]
    OBVIOUS
  <2> HIDE DEF after, some
  <2>2. after \in Seq(some)
    <3>1. \A n \in Nat : [1..n -> some] \subseteq Seq(some)
      OBVIOUS
    <3>2. PICK n \in Nat : n = 3
      OBVIOUS
    <3>3. QED BY <2>1, <3>1, <3>2
  <2>3. DOMAIN after = 1..3
    BY <2>1
  <2>4. Len(after) = 3
    BY <2>2, <2>3
  <2>5. last \in some
    BY DEF some
  <2>6. QED BY <2>2, <2>4, <2>5
<1>2. Patterns(msg) = after \o <<last>>
  BY DEF Patterns
<1>3. \A hex : \A m, i : hex = HexAt(m, i) /\ m = msg => PartOf(hex, msg)
  BY HexAtIsPart DEF PartOf
<1>4. PartOf(last, msg)
  BY <1>3
<1>5. \A i \in 1..3 : PartOf(HexAfter(msg, Markers[i]), msg)
  BY <1>3 DEF HexAfter, PartOf
<1>6. \A i \in 1..3 : after[i] = HexAfter(msg, Markers[i])
  OBVIOUS
<1> HIDE DEF after, last, some
<1>7. /\ Patterns(msg) \in Seq(some) /\ Len(Patterns(msg)) = 3 + 1
       /\ \A i \in 1..3 + 1 : Patterns(msg)[i] = IF i <= 3 THEN after[i] ELSE <<last>>[i - 3]
  <2> DEFINE one == <<last>>
  <2>1. one \in Seq(some) /\ Len(one) = 1
    BY <1>1
  <2> HIDE DEF one
  <2>2. /\ after \o one \in Seq(some)
        /\ Len(after \o one) = Len(after) + Len(one)
        /\ \A i \in 1..Len(after) + Len(one) :
             (after \o one)[i] = IF i <= Len(after) THEN after[i] ELSE one[i - Len(after)]
    BY <1>1, <2>1, ConcatProperties
  <2>3. Patterns(msg) = after \o one
    BY <1>2 DEF one
  <2>4. QED BY <1>1, <2>1, <2>2, <2>3 DEF one
<1>8. 3 + 1 = 4 /\ 4 \in 1..4 /\ ~(4 <= 3) /\ 4 - 3 = 1
  OBVIOUS
<1>9. Len(Patterns(msg)) = 4 /\ DOMAIN Patterns(msg) = 1..4
  BY <1>7, <1>8
<1>10. (\A i \in 1..3 : Patterns(msg)[i] = after[i]) /\ Patterns(msg)[4] = last
  <2>1. \A i \in 1..3 : i \in 1..4 /\ i <= 3
    OBVIOUS
  <2>2. Patterns(msg)[4] = <<last>>[1]
    BY <1>7, <1>8
  <2>3. QED BY <1>7, <1>8, <2>1, <2>2
<1>11. \A i \in 1..4 : i \in 1..3 \/ i = 4
  OBVIOUS
<1>12. QED BY <1>4, <1>5, <1>6, <1>9, <1>10, <1>11

\* The pattern whose result is taken.
LEMMA FirstThatFinds ==
  ASSUME NEW msg, HexAt(msg, 1) = <<>>
  PROVE  \/ ExtractHexData(msg) = <<>> /\ \A i \in 1..4 : Patterns(msg)[i] = <<>>
         \/ \E i \in 1..4 : /\ Patterns(msg)[i] # <<>> /\ ExtractHexData(msg) = Patterns(msg)[i]
                            /\ \A j \in 1..4 : Patterns(msg)[j] # <<>> => i <= j
<1> DEFINE found == SelectInSeq(Patterns(msg), LAMBDA hex : hex # <<>>)
           places == {i \in 1..4 : Patterns(msg)[i] # <<>>}
<1>1. ExtractHexData(msg) = IF found = 0 THEN <<>> ELSE Patterns(msg)[found]
  BY DEF ExtractHexData
<1>2. found = IF places # {} THEN Min(places) ELSE 0
  BY PatternsFindParts DEF SelectInSeq
<1> HIDE DEF found
<1>3. CASE places = {}
  BY <1>1, <1>2, <1>3
<1>4. CASE places # {}
  <2>1. places \in SUBSET Nat
    OBVIOUS
  <2>2. found \in places /\ \A i \in places : found <= i
    <3> HIDE DEF places
    <3>1. QED BY <1>2, <1>4, <2>1, MinOfNaturals
  <2>3. found # 0
    BY <2>2
  <2>4. QED BY <1>1, <2>2, <2>3
<1>5. QED BY <1>3, <1>4

\* What is extracted is nothing, the whole message, or one token of it.
LEMMA ExtractedFromMessage ==
  ASSUME NEW msg
  PROVE  ExtractHexData(msg) = msg \/ PartOf(ExtractHexData(msg), msg)
<1>1. CASE HexAt(msg, 1) # <<>>
  BY <1>1 DEF ExtractHexData
<1>2. CASE HexAt(msg, 1) = <<>>
  <2>1. CASE ExtractHexData(msg) = <<>>
    BY <2>1 DEF PartOf
  <2>2. CASE \E i \in 1..4 : ExtractHexData(msg) = Patterns(msg)[i]
    BY <2>2, PatternsFindParts
  <2>3. QED BY <1>2, <2>1, <2>2, FirstThatFinds
<1>3. QED BY <1>1, <1>2

\* What is raised has a selector of its own, so that its data can be told from other tokens.
LEMMA RaisedHasASelector ==
  ASSUME ListedRaised \/ MissingRaised
  PROVE  raised.selector \notin {"none", "other"} /\ raised # NoRevert
<1>1. CASE ListedRaised
  <2>1. PICK t \in ErrorTypes : raised = [name |-> t[1], selector |-> t[2], bare |-> t[3] = <<>>]
    BY <1>1 DEF ListedRaised
  <2>2. <<t[2], t[1]>> \in DecoderMap /\ <<t[2], t[1]>>[1] = t[2]
    BY EachHasASelector
  <2>3. t[2] \notin {"none", "other"}
    BY <2>2, SelectorsAreNoWords
  <2>4. raised.selector = t[2]
    BY <2>1
  <2>5. QED BY <2>3, <2>4 DEF NoRevert
<1>2. CASE MissingRaised
  <2>1. raised.selector = "missing"
    BY <1>2 DEF MissingRaised
  <2>2. QED BY <2>1 DEF NoRevert
<1>3. QED BY <1>1, <1>2

LEMMA DataIsAt ==
  ASSUME ListedRaised \/ MissingRaised, NEW msg, NEW at, NEW params, CarriesAt(msg, at, params)
  PROVE  /\ DataAt(msg) = at
         /\ \A i \in DOMAIN msg : msg[i].selector \notin {"none", "other"} => i = at
         /\ msg[at].selector = raised.selector /\ msg[at].params = params /\ msg[at].text = "0x"
<1>1. raised.selector \notin {"none", "other"} /\ raised # NoRevert
  BY RaisedHasASelector
<1>2. at \in DOMAIN msg /\ msg[at] = Hex(raised.selector, params)
      /\ \A i \in DOMAIN msg : i # at => msg[i] \in Plain
  BY DEF CarriesAt, Data
<1>3. msg[at].selector = raised.selector /\ msg[at].params = params /\ msg[at].text = "0x"
  BY <1>2, PlainTokens
<1>4. \A i \in DOMAIN msg : i # at => msg[i].selector \in {"none", "other"}
  BY <1>2, PlainTokens
<1>5. \A i \in DOMAIN msg : msg[i].selector = raised.selector /\ raised # NoRevert <=> i = at
  BY <1>1, <1>2, <1>3, <1>4
<1>6. DataAt(msg) = at
  BY <1>2, <1>5 DEF DataAt
<1>7. QED BY <1>3, <1>4, <1>6

\* Whatever stands around the data.
LEMMA Wrapped ==
  ASSUME NEW before \in Seq(Plain), NEW after \in Seq(Plain), NEW params \in {"whole", "cut"},
         params = "whole" \/ ~raised.bare
  PROVE  /\ Len(before) + 1 \in Nat
         /\ CarriesAt(before \o <<Data(params)>> \o after, Len(before) + 1, params)
<1> DEFINE x == Data(params)
           tokens == Plain \cup {Data("whole"), Data("cut")}
           head == before \o <<x>>
           msg == head \o after
           n == Len(before)
           m == Len(after)
<1>1. before \in Seq(tokens) /\ after \in Seq(tokens) /\ n \in Nat /\ m \in Nat
      /\ (\A i \in 1..n : before[i] \in Plain) /\ (\A i \in 1..m : after[i] \in Plain)
  <2>1. Plain \subseteq tokens
    OBVIOUS
  <2> HIDE DEF tokens
  <2>2. QED BY <2>1
<1>2. x \in tokens
  OBVIOUS
<1>3. <<x>> \in Seq(tokens) /\ Len(<<x>>) = 1 /\ <<x>>[1] = x
  <2> HIDE DEF x, tokens
  <2>1. QED BY <1>2
<1> HIDE DEF x, tokens, n, m
<1>4. /\ head \in Seq(tokens) /\ Len(head) = n + 1
      /\ \A i \in 1..n + 1 : head[i] = IF i <= n THEN before[i] ELSE <<x>>[i - n]
  BY <1>1, <1>3, ConcatProperties DEF n
<1> HIDE DEF head
<1>5. /\ msg \in Seq(tokens) /\ Len(msg) = n + 1 + m
      /\ \A i \in 1..(n + 1 + m) : msg[i] = IF i <= n + 1 THEN head[i] ELSE after[i - (n + 1)]
  <2>1. /\ msg \in Seq(tokens) /\ Len(msg) = Len(head) + Len(after)
        /\ \A i \in 1..Len(head) + Len(after) :
              msg[i] = IF i <= Len(head) THEN head[i] ELSE after[i - Len(head)]
    BY <1>1, <1>4, ConcatProperties
  <2> HIDE DEF msg
  <2>2. Len(head) = n + 1 /\ Len(after) = m
    BY <1>4 DEF m
  <2>3. QED BY <2>1, <2>2
<1> HIDE DEF msg
<1>6. DOMAIN msg = 1..(n + 1 + m) /\ n + 1 \in DOMAIN msg
  BY <1>1, <1>5
<1>7. msg[n + 1] = x
  BY <1>1, <1>3, <1>4, <1>5, <1>6
<1>8. ASSUME NEW i \in DOMAIN msg, i # n + 1
      PROVE  msg[i] \in Plain
  <2>1. CASE i <= n
    <3>1. i \in 1..n /\ i \in 1..n + 1 /\ i <= n + 1
      BY <1>1, <1>6, <2>1
    <3>2. QED BY <1>1, <1>4, <1>5, <1>6, <2>1, <3>1
  <2>2. CASE ~(i <= n)
    <3>1. i - (n + 1) \in 1..m /\ ~(i <= n + 1)
      BY <1>1, <1>6, <1>8, <2>2
    <3>2. QED BY <1>1, <1>5, <1>6, <3>1
  <2>3. QED BY <2>1, <2>2
<1>9. CarriesAt(msg, n + 1, params)
  BY <1>5, <1>6, <1>7, <1>8 DEF CarriesAt, x, tokens
<1>10. QED BY <1>1, <1>9 DEF n, msg, head, x

-----------------------------------------------------------------------------
(* The invariant. *)

LEMMA RevertKeeps ==
  ASSUME ErrorInv, NEW name \in Listed, RevertWith(name)
  PROVE  ErrorInv'
<1>1. raised = NoRevert /\ message' = message /\ result' = result
      /\ raised' = [name |-> name, selector |-> Struct(name)[2], bare |-> Struct(name)[3] = <<>>]
  BY DEF RevertWith
<1>2. message = <<>> /\ result = NoResult
  BY <1>1 DEF ErrorInv
<1>3. PICK t \in ErrorTypes : name = t[1]
  BY DEF Listed
<1>4. Struct(name) = t
  BY <1>3, NamesTellErrors DEF Struct
<1>5. ListedRaised'
  BY <1>1, <1>3, <1>4 DEF ListedRaised
<1>6. QED BY <1>1, <1>2, <1>5 DEF ErrorInv

LEMMA ReportKeeps ==
  ASSUME ErrorInv, Report
  PROVE  ErrorInv'
<1> DEFINE P == {Words, OtherHex} \cup Range(Markers)
<1>1. PICK prefix \in UNION {[1 .. n -> P] : n \in 0 .. MaxPrefix},
           marker \in {<<>>} \cup {<<Markers[i]>> : i \in DOMAIN Markers},
           params \in IF raised.bare THEN {"whole"} ELSE {"whole", "cut"},
           suffix \in {<<>>, <<Words>>, <<OtherHex>>} :
              message' = prefix \o marker \o <<Hex(raised.selector, params)>> \o suffix
  BY DEF Report
<1>2. raised # NoRevert /\ message = <<>> /\ raised' = raised /\ result' = result
  BY DEF Report
<1>3. params \in {"whole", "cut"} /\ (params = "whole" \/ ~raised.bare)
  BY <1>1
<1>4. P = Plain
  BY DEF Plain
<1> HIDE DEF P
<1>5. prefix \in Seq(Plain)
  <2>1. PICK n \in 0 .. MaxPrefix : prefix \in [1 .. n -> Plain]
    BY <1>1, <1>4
  <2>2. n \in Nat
    BY ErrorParsingAssumption
  <2>3. QED BY <2>1, <2>2
<1>6. Words \in Plain /\ OtherHex \in Plain /\ \A i \in DOMAIN Markers : Markers[i] \in Plain
  BY <1>4 DEF P, Range
<1>7. marker \in Seq(Plain)
  <2>1. \A x \in Plain : <<x>> \in Seq(Plain)
    OBVIOUS
  <2>2. <<>> \in Seq(Plain)
    OBVIOUS
  <2>3. marker = <<>> \/ \E i \in DOMAIN Markers : marker = <<Markers[i]>>
    BY <1>1
  <2>4. QED BY <1>6, <2>1, <2>2, <2>3
<1>8. suffix \in Seq(Plain)
  <2>1. \A x \in Plain : <<x>> \in Seq(Plain)
    OBVIOUS
  <2>2. <<>> \in Seq(Plain)
    OBVIOUS
  <2>3. suffix = <<>> \/ suffix = <<Words>> \/ suffix = <<OtherHex>>
    BY <1>1
  <2>4. QED BY <1>6, <2>1, <2>2, <2>3
<1> DEFINE before == prefix \o marker
<1>9. before \in Seq(Plain)
  BY <1>5, <1>7
<1>10. message' = before \o <<Data(params)>> \o suffix
  BY <1>1 DEF Data
<1> HIDE DEF before
<1>11. Len(before) + 1 \in Nat /\ CarriesAt(before \o <<Data(params)>> \o suffix, Len(before) + 1, params)
  BY <1>3, <1>8, <1>9, Wrapped
<1>12. PICK at \in Nat : CarriesAt(message', at, params)
  BY <1>10, <1>11
<1>13. CarriesAt(message, at, params)'
  BY <1>2, <1>12 DEF CarriesAt, Data
<1>14. result = NoResult
  BY <1>2 DEF ErrorInv
<1>15. (raised = NoRevert \/ ListedRaised \/ MissingRaised)'
  BY <1>2 DEF ErrorInv, ListedRaised, MissingRaised
<1>16. QED BY <1>2, <1>3, <1>13, <1>14, <1>15 DEF ErrorInv

LEMMA ErrorNextKeeps ==
  ASSUME ErrorInv, Next
  PROVE  ErrorInv'
<1>1. ASSUME NEW name \in Listed, RevertWith(name)
      PROVE  ErrorInv'
  BY <1>1, RevertKeeps
<1>2. ASSUME NEW name \in MissingErrors, RevertUnlisted(name)
      PROVE  ErrorInv'
  <2>1. raised = NoRevert /\ message' = message /\ result' = result
        /\ raised' = [name |-> name, selector |-> "missing", bare |-> FALSE]
    BY <1>2 DEF RevertUnlisted
  <2>2. message = <<>> /\ result = NoResult
    BY <2>1 DEF ErrorInv
  <2>3. MissingRaised'
    BY <2>1 DEF MissingRaised
  <2>4. QED BY <2>1, <2>2, <2>3 DEF ErrorInv
<1>3. CASE Report
  BY <1>3, ReportKeeps
<1>4. CASE ParseRevertFromError
  <2>1. message # <<>> /\ result' = ParseRevert(ExtractHexData(message))
        /\ raised' = raised /\ message' = message
    BY <1>4 DEF ParseRevertFromError
  <2>2. \A at, params : CarriesAt(message, at, params)' <=> CarriesAt(message, at, params)
    BY <2>1 DEF CarriesAt, Data
  <2>3. (ListedRaised \/ MissingRaised)' <=> (ListedRaised \/ MissingRaised)
    BY <2>1 DEF ListedRaised, MissingRaised
  <2>4. QED BY <2>1, <2>2, <2>3 DEF ErrorInv
<1>5. QED BY <1>1, <1>2, <1>3, <1>4 DEF Next

LEMMA ErrorStutterKeeps ==
  ASSUME ErrorInv, UNCHANGED vars
  PROVE  ErrorInv'
<1>1. raised' = raised /\ message' = message /\ result' = result
  BY DEF vars
<1>2. \A at, params : CarriesAt(message, at, params)' <=> CarriesAt(message, at, params)
  BY <1>1 DEF CarriesAt, Data
<1>3. (ListedRaised \/ MissingRaised)' <=> (ListedRaised \/ MissingRaised)
  BY <1>1 DEF ListedRaised, MissingRaised
<1>4. QED BY <1>1, <1>2, <1>3 DEF ErrorInv

\* The service refuses orders with errors that the package lists.
LEMMA RefusalsAreListed ==
  ASSUME NEW digest, NEW data, Refusal(digest, data) # ""
  PROVE  Refusal(digest, data) \in Listed
<1>1. Refusal(digest, data) \in {"MetadataArrayCountMismatch", "InvalidSignature", "DuplicateMetadataKey"}
  BY Zenon DEF Refusal
<1>2. /\ \E t \in ErrorTypes : t[1] = "MetadataArrayCountMismatch"
      /\ \E t \in ErrorTypes : t[1] = "InvalidSignature"
      /\ \E t \in ErrorTypes : t[1] = "DuplicateMetadataKey"
  <2>1. \E t \in Types9 : t[1] = "MetadataArrayCountMismatch"
    BY DEF Types9
  <2>2. \E t \in Types7 : t[1] = "InvalidSignature"
    BY DEF Types7
  <2>3. \E t \in Types3 : t[1] = "DuplicateMetadataKey"
    BY DEF Types3
  <2>4. QED BY <2>1, <2>2, <2>3 DEF ErrorTypes
<1>3. QED BY <1>1, <1>2 DEF Listed

LEMMA ErrorInvHolds == ClientSpec => []ErrorInv
<1>1. ClientInit => ErrorInv
  BY DEF ClientInit, Init, ErrorInv
<1>2. ASSUME ErrorInv, [ClientNext]_clientVars
      PROVE  ErrorInv'
  <2>1. CASE UNCHANGED vars
    BY <1>2, <2>1, ErrorStutterKeeps
  <2>2. CASE Refused
    <3>1. RevertWith(RefusalNow) /\ RefusalNow # ""
      BY <2>2 DEF Refused
    <3>2. RefusalNow \in Listed
      BY <3>1, RefusalsAreListed DEF RefusalNow
    <3>3. QED BY <1>2, <3>1, <3>2, RevertKeeps
  <2>3. CASE Next
    BY <1>2, <2>3, ErrorNextKeeps
  <2>4. Sign \/ Encode \/ Taken \/ UNCHANGED clientVars => UNCHANGED vars
    BY DEF Sign, Encode, Taken, clientVars
  <2>5. QED BY <1>2, <2>1, <2>2, <2>3, <2>4 DEF ClientNext
<1>3. QED BY <1>1, <1>2, PTL DEF ClientSpec

-----------------------------------------------------------------------------
(* What the parser answers. *)

LEMMA ListedIsParsed ==
  ASSUME NEW t \in ErrorTypes, NEW token, token.selector = t[2]
  PROVE  ParseRevert(<<token>>) = Decode(t[1], token.params)
<1> DEFINE hexData == <<token>>
           decoders == {r[2] : r \in {q \in DecoderMap : q[1] = hexData[1].selector}}
<1>1. hexData # <<>> /\ ~(Len(hexData) > 1) /\ hexData[1] = token
  OBVIOUS
<1> HIDE DEF hexData
<1>2. decoders = {t[1]}
  <2>1. hexData[1].selector = t[2]
    BY <1>1
  <2>2. QED BY <2>1, ListedIsDecoded
<1>3. ParseRevert(hexData) = Decode(CHOOSE name \in decoders : TRUE, hexData[1].params)
  BY <1>1, <1>2 DEF ParseRevert
<1>4. (CHOOSE name \in decoders : TRUE) = t[1]
  BY <1>2
<1>5. QED BY <1>1, <1>3, <1>4 DEF hexData

LEMMA DecodedListed ==
  ASSUME NEW t \in ErrorTypes, NEW params
  PROVE  \/ t[3] # <<>> /\ params # "whole" /\ Decode(t[1], params) = Failed
         \/ /\ t[3] = <<>> \/ params = "whole"
            /\ \/ Decode(t[1], params) = Result("typed", t[1])
               \/ /\ Decode(t[1], params) = Result("panicked", t[1])
                  /\ t[1] = "UUPSUnsupportedProxiableUUID"
<1> DEFINE types == AbiTypes(t[1])
           Odd == \E i \in DOMAIN types : UnpackedType(types[i]) # SolTypeToGoType(types[i])
<1>1. types = <<>> <=> t[3] = <<>>
  BY ListedIsDecoded
<1>2. Odd => t[1] = "UUPSUnsupportedProxiableUUID"
  BY ListedIsDecoded
<1>3. Decode(t[1], params) = IF types # <<>> /\ params # "whole" THEN Failed
                             ELSE IF Odd THEN Result("panicked", t[1]) ELSE Result("typed", t[1])
  BY DEF Decode
<1> HIDE DEF types, Odd
<1>4. QED BY <1>1, <1>2, <1>3

LEMMA Kinds ==
  /\ Failed.kind = "failed" /\ NoResult.kind = "none"
  /\ \A kind, name : Result(kind, name).kind = kind /\ Result(kind, name).error = name
BY DEF Failed, NoResult, Result

\* A result that is none of the failures comes from the data of a listed error.
LEMMA ResultFromData ==
  ASSUME ErrorInv, result # NoResult, result # Failed
  PROVE  \E t \in ErrorTypes, at \in Nat, params \in {"whole", "cut"} :
            /\ raised = [name |-> t[1], selector |-> t[2], bare |-> t[3] = <<>>]
            /\ CarriesAt(message, at, params)
            /\ result = Decode(t[1], params)
<1> DEFINE hexData == ExtractHexData(message)
           decoders == {r[2] : r \in {q \in DecoderMap : q[1] = hexData[1].selector}}
<1>1. message # <<>> /\ result = ParseRevert(hexData) /\ raised # NoRevert
  BY DEF ErrorInv
<1>2. ListedRaised \/ MissingRaised
  BY <1>1 DEF ErrorInv
<1>3. PICK at \in Nat, params \in {"whole", "cut"} : CarriesAt(message, at, params)
  BY <1>1 DEF ErrorInv
<1>4. hexData = message \/ PartOf(hexData, message)
  BY ExtractedFromMessage
<1> HIDE DEF hexData
<1>5. hexData # <<>> /\ ~(Len(hexData) > 1) /\ decoders # {}
  BY <1>1 DEF ParseRevert
<1>6. PICK q \in DecoderMap : q[1] = hexData[1].selector
  BY <1>5
<1>7. PICK i \in DOMAIN message : hexData = <<message[i]>>
  <2>1. CASE hexData = message
    <3> DEFINE tokens == Plain \cup {Data("whole"), Data("cut")}
    <3>1. message \in Seq(tokens)
      BY <1>3 DEF CarriesAt
    <3> HIDE DEF tokens
    <3>2. Len(message) = 1
      <4> DEFINE n == Len(message)
      <4>1. n \in Nat /\ n # 0
        BY <1>1, <3>1, EmptySeq
      <4>2. ~(n > 1)
        BY <1>5, <2>1
      <4> HIDE DEF n
      <4>3. n = 1
        BY <4>1, <4>2
      <4>4. QED BY <4>3 DEF n
    <3>3. message = <<message[1]>> /\ 1 \in DOMAIN message
      BY <3>1, <3>2
    <3>4. QED BY <2>1, <3>3
  <2>2. CASE PartOf(hexData, message)
    BY <1>5, <2>2 DEF PartOf
  <2>3. QED BY <1>4, <2>1, <2>2
<1>8. hexData[1] = message[i]
  BY <1>7
<1>9. q[1] \notin {"none", "other"} /\ q[1] # "missing"
  BY SelectorsAreNoWords
<1>10. i = at /\ message[at].selector = raised.selector /\ message[at].params = params
  BY <1>2, <1>3, <1>6, <1>8, <1>9, DataIsAt
<1>11. raised.selector = q[1]
  BY <1>6, <1>8, <1>10
<1>12. ~MissingRaised
  BY <1>9, <1>11 DEF MissingRaised
<1>13. PICK t \in ErrorTypes : raised = [name |-> t[1], selector |-> t[2], bare |-> t[3] = <<>>]
  BY <1>2, <1>12 DEF ListedRaised
<1>14. message[at].selector = t[2]
  BY <1>10, <1>13
<1>15. ParseRevert(<<message[at]>>) = Decode(t[1], params)
  BY <1>10, <1>14, ListedIsParsed
<1>16. QED BY <1>1, <1>3, <1>7, <1>10, <1>13, <1>15

LEMMA TypedFromInvariant ==
  ASSUME ErrorInv
  PROVE  TypedErrorsAreTrue
<1>1. SUFFICES ASSUME result.kind \in {"typed", "panicked"}
               PROVE  TypedErrorsAreTrue
  BY DEF TypedErrorsAreTrue
<1>2. result # NoResult /\ result # Failed
  BY <1>1, Kinds
<1>3. PICK t \in ErrorTypes, at \in Nat, params \in {"whole", "cut"} :
            /\ raised = [name |-> t[1], selector |-> t[2], bare |-> t[3] = <<>>]
            /\ CarriesAt(message, at, params)
            /\ result = Decode(t[1], params)
  BY <1>2, ResultFromData
<1>4. raised.name = t[1] /\ raised.selector = t[2] /\ raised.bare = (t[3] = <<>>)
  BY <1>3
<1>5. t[3] = <<>> \/ params = "whole"
  BY <1>2, <1>3, DecodedListed
<1>6. CASE result = Result("panicked", t[1]) /\ t[1] = "UUPSUnsupportedProxiableUUID"
  BY <1>4, <1>6, Kinds DEF TypedErrorsAreTrue
<1>7. CASE result = Result("typed", t[1])
  <2>1. result.kind = "typed" /\ result.error = t[1]
    BY <1>7, Kinds
  <2>2. Struct(t[1]) = t /\ t[1] \in IsHelpers /\ t[3] = FieldTypes(t[1])
    BY ListedIsDecoded
  <2>3. GetErrorName(result) = t[1]
    BY <2>1, <2>2 DEF GetErrorName
  <2>4. GetErrorSelector(result) = Struct(result.error)[2]
    BY <2>1, Zenon DEF GetErrorSelector
  <2>5. raised.bare \/ message[DataAt(message)].params = "whole"
    <3>1. ListedRaised
      BY <1>3 DEF ListedRaised
    <3>2. DataAt(message) = at /\ message[at].params = params
      BY <1>3, <3>1, DataIsAt
    <3>3. QED BY <1>4, <1>5, <3>2
  <2>6. {name \in IsHelpers : IsError(name, result)} = {t[1]}
    <3>1. \A name : IsError(name, result) <=> name \in IsHelpers /\ result = Result("typed", name)
      BY DEF IsError
    <3>2. \A name : result = Result("typed", name) <=> name = t[1]
      BY <1>7, Kinds
    <3>3. QED BY <2>2, <3>1, <3>2
  <2>7. result.kind # "panicked"
    BY <2>1
  <2>8. QED BY <1>4, <2>1, <2>2, <2>3, <2>4, <2>5, <2>6, <2>7 DEF TypedErrorsAreTrue
<1>8. QED BY <1>2, <1>3, <1>6, <1>7, DecodedListed

\* Behind the only marker that could be meant, the data is what is extracted.
LEMMA DocumentedIsExtracted ==
  ASSUME ListedRaised, NEW msg, NEW at \in Nat, NEW params, CarriesAt(msg, at, params), Documented(msg)
  PROVE  ExtractHexData(msg) = <<msg[at]>>
<1> DEFINE tokens == Plain \cup {Data("whole"), Data("cut")}
<1>1. msg \in Seq(tokens) /\ at \in DOMAIN msg /\ \A i \in DOMAIN msg : i # at => msg[i] \in Plain
  BY DEF CarriesAt
<1> HIDE DEF tokens
<1>2. DataAt(msg) = at /\ msg[at].text = "0x"
  BY DataIsAt
<1>3. HexAt(msg, at) = <<msg[at]>>
  BY <1>1, <1>2 DEF HexAt
<1>4. CASE Len(msg) = 1
  <2>1. at = 1 /\ msg = <<msg[1]>>
    BY <1>1, <1>4
  <2>2. HexAt(msg, 1) # <<>>
    BY <1>3, <2>1
  <2>3. ExtractHexData(msg) = msg
    BY <2>2 DEF ExtractHexData
  <2>4. QED BY <2>1, <2>3
<1>5. CASE Len(msg) # 1
  <2> DEFINE markers == {i \in DOMAIN msg : msg[i] \in {Markers[1], Markers[2]}}
  <2>1. at > 1 /\ markers = {at - 1} /\ msg[1].text # "0x"
    BY <1>2, <1>5 DEF Documented
  <2>2. /\ at - 1 \in DOMAIN msg /\ msg[at - 1] \in {Markers[1], Markers[2]}
        /\ \A i \in DOMAIN msg : msg[i] \in {Markers[1], Markers[2]} => i = at - 1
    BY <2>1
  <2>3. HexAt(msg, 1) = <<>>
    BY <2>1 DEF HexAt
  <2>4. ASSUME NEW k \in 1..2, NEW i \in DOMAIN msg, msg[i].text = Markers[k].text
        PROVE  i = at - 1 /\ msg[i] = Markers[k]
    <3>1. k \in 1..3 /\ (k = 1 \/ k = 2)
      OBVIOUS
    <3>2. i # at
      BY <1>2, <2>4, <3>1, PlainTokens
    <3>3. msg[i] = Markers[k]
      BY <1>1, <2>4, <3>1, <3>2, PlainTokens
    <3>4. QED BY <2>2, <3>1, <3>3
  <2>5. ASSUME NEW k \in 1..2, msg[at - 1] = Markers[k]
        PROVE  HexAfter(msg, Markers[k]) = <<msg[at]>>
    <3> DEFINE found == Index(msg, Markers[k].text)
    <3>1. found \in DOMAIN msg /\ msg[found].text = Markers[k].text
      BY <1>1, <2>2, <2>5, IndexIsFirst
    <3> HIDE DEF found
    <3>2. found = at - 1
      BY <2>4, <3>1
    <3>3. found # 0 /\ found + 1 = at
      BY <2>1, <3>2
    <3>4. QED BY <1>3, <3>3 DEF HexAfter, found
  <2>6. ASSUME msg[at - 1] # Markers[1]
        PROVE  HexAfter(msg, Markers[1]) = <<>>
    <3> DEFINE found == Index(msg, Markers[1].text)
    <3>1. found = 0 \/ (found \in DOMAIN msg /\ msg[found].text = Markers[1].text)
      BY <1>1, IndexIsFirst
    <3> HIDE DEF found
    <3>2. 1 \in 1..2
      OBVIOUS
    <3>3. found = 0
      BY <2>4, <2>6, <3>1, <3>2
    <3>4. QED BY <3>3 DEF HexAfter, found
  <2> HIDE DEF markers
  <2>7. Patterns(msg)[1] = HexAfter(msg, Markers[1]) /\ Patterns(msg)[2] = HexAfter(msg, Markers[2])
    BY PatternsFindParts
  <2>8. <<msg[at]>> # <<>>
    OBVIOUS
  <2>9. CASE msg[at - 1] = Markers[1]
    <3>1. Patterns(msg)[1] = <<msg[at]>>
      BY <2>5, <2>7, <2>9
    <3>2. PICK i \in 1..4 : i <= 1 /\ ExtractHexData(msg) = Patterns(msg)[i]
      BY <2>3, <2>8, <3>1, FirstThatFinds
    <3>3. i = 1
      BY <3>2
    <3>4. QED BY <3>1, <3>2, <3>3
  <2>10. CASE msg[at - 1] # Markers[1]
    <3>1. Patterns(msg)[1] = <<>> /\ Patterns(msg)[2] = <<msg[at]>>
      BY <2>2, <2>5, <2>6, <2>7, <2>10
    <3>2. PICK i \in 1..4 : /\ i <= 2 /\ Patterns(msg)[i] # <<>>
                            /\ ExtractHexData(msg) = Patterns(msg)[i]
      BY <2>3, <2>8, <3>1, FirstThatFinds
    <3>3. i = 1 \/ i = 2
      BY <3>2
    <3>4. QED BY <3>1, <3>2, <3>3
  <2>11. QED BY <2>9, <2>10
<1>6. QED BY <1>4, <1>5

LEMMA ParsedFromInvariant ==
  ASSUME ErrorInv
  PROVE  DocumentedFormatsAreParsed
<1>1. SUFFICES ASSUME result # NoResult, raised.name \in Listed, Documented(message),
                      message[DataAt(message)].params = "whole",
                      raised.name # "UUPSUnsupportedProxiableUUID"
               PROVE  result = Result("typed", raised.name)
  BY DEF DocumentedFormatsAreParsed
<1>2. message # <<>> /\ result = ParseRevert(ExtractHexData(message)) /\ raised # NoRevert
  BY <1>1 DEF ErrorInv
<1>3. PICK at \in Nat, params \in {"whole", "cut"} : CarriesAt(message, at, params)
  BY <1>2 DEF ErrorInv
<1>4. ~MissingRaised
  <2>1. SUFFICES ASSUME MissingRaised PROVE FALSE
    OBVIOUS
  <2>2. raised.name \in MissingErrors
    BY <2>1 DEF MissingRaised
  <2>3. QED BY <1>1, <2>2, MissingErrorsAreNotListed
<1>5. ListedRaised
  BY <1>2, <1>4 DEF ErrorInv
<1>6. PICK t \in ErrorTypes : raised = [name |-> t[1], selector |-> t[2], bare |-> t[3] = <<>>]
  BY <1>5 DEF ListedRaised
<1>7. DataAt(message) = at /\ message[at].selector = raised.selector /\ message[at].params = params
  BY <1>3, <1>5, DataIsAt
<1>8. params = "whole" /\ message[at].selector = t[2]
  BY <1>1, <1>6, <1>7
<1>9. ExtractHexData(message) = <<message[at]>>
  BY <1>1, <1>3, <1>5, DocumentedIsExtracted
<1>10. result = Decode(t[1], "whole")
  BY <1>2, <1>7, <1>8, <1>9, ListedIsParsed
<1>11. raised.name = t[1] /\ t[1] # "UUPSUnsupportedProxiableUUID"
  BY <1>1, <1>6
<1>12. Decode(t[1], "whole") = Result("typed", t[1])
  BY <1>11, DecodedListed
<1>13. QED BY <1>10, <1>11, <1>12

(***************************************************************************)
(* Whatever a node wraps around the data, a typed error is the one that    *)
(* was raised, for messages of any length and whichever errors the package *)
(* does not list: the invariant is that a message carries the data at one  *)
(* place, and the rows of the four generated files are compared one by one.*)
(***************************************************************************)
THEOREM TypedErrorsWereRaised == ClientSpec => []TypedErrorsAreTrue
<1>1. ErrorInv => TypedErrorsAreTrue
  BY TypedFromInvariant
<1>2. QED BY <1>1, ErrorInvHolds, PTL

(***************************************************************************)
(* Whole data of a listed error, alone or behind the marker of Geth or the *)
(* FVM, comes back as that error, typed, among any number of other tokens: *)
(* every decoder but that of UUPSUnsupportedProxiableUUID, which panics,   *)
(* is shown to find its types as it expects them.                          *)
(***************************************************************************)
THEOREM DocumentedDataIsFound == ClientSpec => []DocumentedFormatsAreParsed
<1>1. ErrorInv => DocumentedFormatsAreParsed
  BY ParsedFromInvariant
<1>2. QED BY <1>1, ErrorInvHolds, PTL
=============================================================================
