--------------------------- MODULE OrderEncoding ---------------------------
(***************************************************************************)
(* An order takes two ways from the client to the service: hashed into the *)
(* digest that is signed (go/eip712, types.go), and as what the provider   *)
(* submits: pieces, piece ids and, in extraData, metadata split into       *)
(* arrays of keys and values (extradata.go). The service hashes what       *)
(* arrives again (SignatureVerificationLib) and stores what it says.       *)
(*                                                                         *)
(* A hash is the sequence of what is hashed. Numbers, payees and           *)
(* signatures are the subject of Authorization.                            *)
(***************************************************************************)
EXTENDS Naturals, Sequences, SequencesExt

CONSTANTS Chains,        \* networks that run the service
          ThisChain,     \* the one of this deployment
          MetadataKeys, MetadataValues,
          EmptyValue,    \* the empty string
          Cids,
          MaxEntries,    \* bound on the entries of a data set or a piece
          MaxAdded       \* bound on the pieces of an order, and on piece ids

ASSUME OrderEncodingAssumption ==
    /\ ThisChain \in Chains
    /\ EmptyValue \notin MetadataValues
    /\ MaxEntries \in Nat
    /\ MaxAdded \in Nat

----------------------------------------------------------------------------
(* Messages of the Go client *)

ListsUpTo(n, S) == UNION {[1 .. m -> S] : m \in 0 .. n}

MetadataEntry == [key : MetadataKeys, value : MetadataValues \cup {EmptyValue}]
Metadata      == ListsUpTo(MaxEntries, MetadataEntry)

PieceMetadata == [pieceIndex : 0 .. MaxAdded - 1, metadata : Metadata]

CreateDataSet == [kind : {"CreateDataSet"}, metadata : Metadata]
AddPieces     == [kind : {"AddPieces"}, pieceData : ListsUpTo(MaxAdded, Cids) \ {<<>>},
                  pieceMetadata : ListsUpTo(MaxAdded, PieceMetadata)]
SchedulePieceRemovals == [kind : {"SchedulePieceRemovals"},
                          pieceIds : ListsUpTo(MaxAdded, 0 .. MaxAdded - 1) \ {<<>>}]

\* HashStruct of EIP712Types: arrays element by element, structs by type and field.
HashedEntries(metadata) ==
    [i \in DOMAIN metadata |-> <<"MetadataEntry", metadata[i].key, metadata[i].value>>]

HashedPieces(pieceMetadata) ==
    [i \in DOMAIN pieceMetadata |->
        <<"PieceMetadata", pieceMetadata[i].pieceIndex, HashedEntries(pieceMetadata[i].metadata)>>]

HashStruct(signed) ==
    CASE signed.kind = "CreateDataSet" -> <<signed.kind, HashedEntries(signed.metadata)>>
      [] signed.kind = "AddPieces" ->
             <<signed.kind, signed.pieceData, HashedPieces(signed.pieceMetadata)>>
      [] signed.kind = "SchedulePieceRemovals" -> <<signed.kind, signed.pieceIds>>

\* Name and version are fixed, and a chain has one contract.
GetDomain(chainId) == <<"EIP712Domain", chainId>>

GetMessageHash(chainId, signed) == <<GetDomain(chainId), HashStruct(signed)>>

----------------------------------------------------------------------------
(* Extra data *)

MetadataToStringSlices(metadata) ==
    [keys   |-> [i \in DOMAIN metadata |-> metadata[i].key],
     values |-> [i \in DOMAIN metadata |-> metadata[i].value]]

EncodeCreateDataSetExtraData(metadata) ==
    [kind |-> "CreateDataSet", slices |-> MetadataToStringSlices(metadata)]

\* One list of entries per piece. The pieces themselves go to PDPVerifier beside it,
\* and so do the ids of pieces to be removed.
EncodeAddPiecesExtraData(pieceData, metadata) ==
    [kind |-> "AddPieces", pieceData |-> pieceData,
     slices |-> [i \in DOMAIN metadata |-> MetadataToStringSlices(metadata[i])]]

EncodeSchedulePieceRemovalsExtraData(pieceIds) ==
    [kind |-> "SchedulePieceRemovals", pieceIds |-> pieceIds]

----------------------------------------------------------------------------
(* The service's hashes *)

HashMetadataEntry(key, value) == <<"MetadataEntry", key, value>>

HashMetadataEntries(slices) ==
    [i \in DOMAIN slices.keys |-> HashMetadataEntry(slices.keys[i], slices.values[i])]

\* Defect: pieces are counted from 1.
CountedFromOne(slices) ==
    [i \in DOMAIN slices |-> <<"PieceMetadata", i, HashMetadataEntries(slices[i])>>]

HashAllPieceMetadata(slices) ==
    [i \in DOMAIN slices |-> <<"PieceMetadata", i - 1, HashMetadataEntries(slices[i])>>]

\* createDataSetStructHash, addPiecesStructHash, and the hash of a removal
StructHash(extraData) ==
    CASE extraData.kind = "CreateDataSet" ->
             <<extraData.kind, HashMetadataEntries(extraData.slices)>>
      [] extraData.kind = "AddPieces" ->
             <<extraData.kind, extraData.pieceData, HashAllPieceMetadata(extraData.slices)>>
      [] extraData.kind = "SchedulePieceRemovals" -> <<extraData.kind, extraData.pieceIds>>

HashTypedDataV4(structHash) == <<<<"EIP712Domain", ThisChain>>, structHash>>

----------------------------------------------------------------------------
(* What the service does with it *)

\* Defect: a key may come again, its last value counts.
LastOneCounts(slices) == FALSE

\* A key comes again while its stored value is not empty.
DuplicateKey(slices) ==
    \E i, j \in DOMAIN slices.keys :
        j < i /\ slices.keys[j] = slices.keys[i] /\ slices.values[j] # EmptyValue

\* The keys in the order given, and the value that was written last for each.
Stored(slices) ==
    [keys   |-> slices.keys,
     values |-> [k \in MetadataKeys |->
                   LET at == {i \in DOMAIN slices.keys : slices.keys[i] = k}
                   IN IF at = {} THEN EmptyValue ELSE slices.values[Max(at)]]]

\* Per data set or piece, the arrays of its metadata.
SlicesOf(extraData) ==
    CASE extraData.kind = "CreateDataSet" -> <<extraData.slices>>
      [] extraData.kind = "AddPieces" -> extraData.slices
      [] extraData.kind = "SchedulePieceRemovals" -> <<>>

\* Why the callback of PDPVerifier reverts, given a signature of the digest, "" if it does not.
Refusal(digest, extraData) ==
    IF extraData.kind = "AddPieces" /\ Len(extraData.slices) # Len(extraData.pieceData)
    THEN "MetadataArrayCountMismatch"
    ELSE IF HashTypedDataV4(StructHash(extraData)) # digest
    THEN "InvalidSignature"
    ELSE IF \E i \in DOMAIN SlicesOf(extraData) : DuplicateKey(SlicesOf(extraData)[i])
    THEN "DuplicateMetadataKey"
    ELSE ""
=============================================================================
