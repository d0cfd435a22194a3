------------------------------ MODULE GoClient ------------------------------
(***************************************************************************)
(* The Go packages around one transaction: a client signs an order, the    *)
(* provider encodes it as extraData and submits it with the pieces it has, *)
(* and the service takes it or reverts. After a revert only its data is    *)
(* left, in the node's message, and ErrorParsing goes on from there.       *)
(***************************************************************************)
EXTENDS ErrorParsing, OrderEncoding

VARIABLES order,      \* what the client signed
          chainId,    \* and for which network
          extraData,  \* what the provider submits
          stored,     \* metadata that the service stored, per data set or piece
          scheduled   \* scheduledPieceMetadataRemovals

orderVars  == <<order, chainId, extraData, stored, scheduled>>
clientVars == <<vars, orderVars>>

Nothing == [kind |-> "none"]

ClientInit ==
    /\ Init
    /\ order = Nothing
    /\ chainId = ThisChain
    /\ extraData = Nothing
    /\ stored = <<>>
    /\ scheduled = <<>>

Sign ==
    /\ order = Nothing /\ raised = NoRevert
    /\ order' \in CreateDataSet \cup AddPieces \cup SchedulePieceRemovals
    /\ chainId' \in Chains
    /\ UNCHANGED <<vars, extraData, stored, scheduled>>

\* The provider splits whatever metadata it was given for the pieces it holds.
Encode ==
    /\ order # Nothing /\ extraData = Nothing
    /\ \/ /\ order.kind = "CreateDataSet"
          /\ \E metadata \in Metadata : extraData' = EncodeCreateDataSetExtraData(metadata)
       \/ /\ order.kind = "AddPieces"
          /\ \E pieceData \in ListsUpTo(MaxAdded, Cids) \ {<<>>},
                metadata \in ListsUpTo(MaxAdded, Metadata) :
                    extraData' = EncodeAddPiecesExtraData(pieceData, metadata)
       \/ /\ order.kind = "SchedulePieceRemovals"
          /\ \E signed \in SchedulePieceRemovals :
                 extraData' = EncodeSchedulePieceRemovalsExtraData(signed.pieceIds)
    /\ UNCHANGED <<vars, order, chainId, stored, scheduled>>

\* Why the submission reverts.
RefusalNow == Refusal(GetMessageHash(chainId, order), extraData)

Submitted == extraData # Nothing /\ stored = <<>> /\ scheduled = <<>>

Taken ==
    /\ Submitted
    /\ RefusalNow = ""
    /\ stored' = [i \in DOMAIN SlicesOf(extraData) |-> Stored(SlicesOf(extraData)[i])]
    /\ scheduled' = IF extraData.kind = "SchedulePieceRemovals"
                    THEN scheduled \o extraData.pieceIds ELSE scheduled
    /\ UNCHANGED <<vars, order, chainId, extraData>>

Refused ==
    /\ Submitted
    /\ RefusalNow # ""
    /\ RevertWith(RefusalNow)
    /\ order' = Nothing /\ chainId' = ThisChain /\ extraData' = Nothing
    /\ UNCHANGED <<stored, scheduled>>

ClientNext ==
    \/ Sign \/ Encode \/ Taken \/ Refused
    \/ order = Nothing /\ Next /\ UNCHANGED orderVars

ClientSpec == ClientInit /\ [][ClientNext]_clientVars

----------------------------------------------------------------------------
(* Properties *)

\* The order names its pieces one by one and in their order, as the service counts them.
InOrder(signed) ==
    signed.kind = "AddPieces" =>
        /\ Len(signed.pieceMetadata) = Len(signed.pieceData)
        /\ \A i \in DOMAIN signed.pieceMetadata : signed.pieceMetadata[i].pieceIndex = i - 1

EncodingOf(signed) ==
    CASE signed.kind = "CreateDataSet" -> EncodeCreateDataSetExtraData(signed.metadata)
      [] signed.kind = "AddPieces" ->
             EncodeAddPiecesExtraData(signed.pieceData,
                 [i \in DOMAIN signed.pieceMetadata |-> signed.pieceMetadata[i].metadata])
      [] signed.kind = "SchedulePieceRemovals" ->
             EncodeSchedulePieceRemovalsExtraData(signed.pieceIds)

\* What the Go encoders make of an order for this network that lists its pieces in order
\* hashes to what was signed, although one side hashes structs and the other parallel arrays: the service refuses
\* it for a repeated key only (CONTRACT_ABI_INTEGRATION.md is about an encoder that did not).
OrdersSurviveTheirEncoding ==
    [][\/ raised' = raised \/ order = Nothing
       \/ chainId = ThisChain /\ InOrder(order) /\ extraData = EncodingOf(order)
          => raised'.name = "DuplicateMetadataKey"]_clientVars

SignedMetadata(i) ==
    CASE order.kind = "CreateDataSet" -> {order.metadata}
      [] order.kind = "AddPieces" ->
             {p.metadata : p \in {q \in Range(order.pieceMetadata) : q.pieceIndex = i - 1}}
      [] OTHER -> {}

\* However the provider arranges keys, values, pieces and ids, the service stores for the
\* data set and for each piece what was signed for it: all keys in order, no value but a
\* signed one, and no signed value overwritten by a later entry. It schedules the removals
\* that were signed, and nothing that was signed for another network.
WhatIsStoredWasSigned ==
    /\ \A i \in DOMAIN stored :
          \E metadata \in SignedMetadata(i) :
             /\ stored[i].keys = [j \in DOMAIN metadata |-> metadata[j].key]
             /\ \A j \in DOMAIN metadata : metadata[j].value # EmptyValue =>
                    stored[i].values[metadata[j].key] = metadata[j].value
             /\ \A k \in MetadataKeys : stored[i].values[k] # EmptyValue =>
                    [key |-> k, value |-> stored[i].values[k]] \in Range(metadata)
    /\ scheduled # <<>> => scheduled = order.pieceIds
    /\ stored # <<>> \/ scheduled # <<>> => chainId = ThisChain
=============================================================================
