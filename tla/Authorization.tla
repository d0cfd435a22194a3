--------------------------- MODULE Authorization ---------------------------
(***************************************************************************)
(* Who may order what of FilecoinWarmStorageService. A client, or a        *)
(* session key it authorized, signs typed data off chain (go/eip712); the  *)
(* storage provider submits it later, perhaps again, perhaps with other    *)
(* parameters; the service recomputes the digest, recovers the signer      *)
(* (SignatureVerificationLib), and asks the SessionKeyRegistry.            *)
(*                                                                         *)
(* Prices, proofs and rails are not repeated here: of a data set there is  *)
(* what the checks of the signed operations read and write.                *)
(***************************************************************************)
EXTENDS Naturals, FiniteSets

CONSTANTS Payers, SessionKeys, Payees,
          Numbers,        \* clientDataSetIds and nonces: one space per payer
          Contents,       \* what is added: piece data with its metadata
          Nobody,         \* whoever a signature of something else is recovered to
          PermissionSets, \* sets of permissions that are given or taken together
          MaxDataSets, MaxPieces, MaxExpiry, MaxTime, MaxSignatures   \* bounds

ASSUME AuthorizationAssumption ==
    /\ Nobody \notin Payers \cup SessionKeys
    /\ Payers \cap SessionKeys = {}
    /\ Numbers # {}
    /\ MaxDataSets \in Nat
    /\ MaxPieces \in Nat
    /\ PermissionSets \subseteq SUBSET {"CreateDataSet", "AddPieces", "SchedulePieceRemovals"}
    /\ MaxExpiry \in Nat
    /\ MaxTime \in Nat
    /\ MaxSignatures \in Nat

ASSUME ContentsAssumption == "no piece" \notin Contents /\ "gone" \notin Contents

VARIABLES
    timestamp,            \* block.timestamp
    authorizationExpiry,  \* of SessionKeyRegistry, per payer, session key and type hash
    signatures,           \* what was signed so far: nothing is ever unsigned
    clientNonces,         \* numbers in use, per payer
    dataSetInfo,          \* payer, payee and clientDataSetId of a data set, and its stage
    pieces,               \* per data set and piece id: its content (PDPVerifier)
    removals,             \* piece ids scheduled for removal (PDPVerifier)
    grants,               \* every permission ever given (a history)
    carriedOut            \* how often each order was carried out (a history)

consent   == <<authorizationExpiry, grants>>
dataSets  == <<dataSetInfo, pieces, removals>>
contracts == <<clientNonces, dataSets>>
vars      == <<timestamp, consent, signatures, contracts, carriedOut>>

DataSetIds == 1 .. MaxDataSets
PieceIds   == 0 .. MaxPieces - 1
Signers    == Payers \cup SessionKeys

----------------------------------------------------------------------------
(* Typed data *)

CreateDataSetOps == [kind : {"CreateDataSet"}, clientDataSetId : Numbers, payee : Payees]
AddPiecesOps == [kind : {"AddPieces"}, clientDataSetId : Numbers, nonce : Numbers,
                 content : Contents]
SchedulePieceRemovalsOps == [kind : {"SchedulePieceRemovals"}, clientDataSetId : Numbers,
                             pieceIds : (SUBSET PieceIds) \ {{}}]

Ops    == CreateDataSetOps \cup AddPiecesOps \cup SchedulePieceRemovalsOps
Kinds  == {"CreateDataSet", "AddPieces", "SchedulePieceRemovals"}
Orders == Payers \X Ops

Signatures == [signer : Signers, op : Ops]

\* Defect: the struct hash of AddPieces leaves out the data set.
DigestWithoutDataSet(op) ==
    CASE op.kind = "CreateDataSet" -> <<op.kind, op.clientDataSetId, op.payee>>
      [] op.kind = "AddPieces"     -> <<op.kind, op.nonce, op.content>>
      [] op.kind = "SchedulePieceRemovals" -> <<op.kind, op.clientDataSetId, op.pieceIds>>

\* The digest that is signed and recomputed: type and fields, but not the payer.
Digest(op) ==
    CASE op.kind = "CreateDataSet" -> <<op.kind, op.clientDataSetId, op.payee>>
      [] op.kind = "AddPieces"     -> <<op.kind, op.clientDataSetId, op.nonce, op.content>>
      [] op.kind = "SchedulePieceRemovals" -> <<op.kind, op.clientDataSetId, op.pieceIds>>

----------------------------------------------------------------------------
(* The bytes of a signature, whose V is 27 or 28 or, from some wallets, 0 or 1 *)

\* An AuthSignature comes with its 65 bytes, with R, S and V, or with neither. Which of two
\* keys R and S recover to is the parity, from which a wallet counts V from 0 or from 27.
Forms == [given : {"bytes", "rsv", "neither"}, parity : {0, 1}, base : {0, 27}]

\* Marshal: 65 bytes in any case, r || s || v. Without R and S they recover to somebody else.
Marshal(form) == [length |-> 65, ours |-> form.given # "neither", parity |-> form.parity,
                  v |-> form.base + form.parity]

\* Bytes that did not come from this encoder.
OtherBytes == [length : {64, 65}, ours : {TRUE}, parity : {0}, v : {1, 28, 29}]

\* Defect: recoverSigner takes v as it comes.
UnadjustedV(v) == v

\* recoverSigner: a v below 27 counts from 0.
AdjustedV(v) == IF v < 27 THEN v + 27 ELSE v

\* recoverSigner reverts.
Malformed(bytes) == bytes.length # 65 \/ AdjustedV(bytes.v) \notin {27, 28}

\* ecrecover, given the digest of op.
RecoverSigner(op, signature, bytes) ==
    IF /\ bytes.ours /\ AdjustedV(bytes.v) = 27 + bytes.parity
       /\ Digest(signature.op) = Digest(op)
    THEN signature.signer ELSE Nobody

----------------------------------------------------------------------------
(* Verification *)

\* Defect: verifyAddPiecesSignature asks for the permission to create data sets.
CreationPermission(op) == IF op.kind = "AddPieces" THEN "CreateDataSet" ELSE op.kind

\* The type hash that each of the three verify functions asks the registry for.
Permission(op) == op.kind

\* verifyCreateDataSetSignature, verifyAddPiecesSignature, verifySchedulePieceRemovalsSignature
Verified(payer, op, signature, bytes) ==
    LET signer == RecoverSigner(op, signature, bytes) IN
    /\ ~Malformed(bytes)
    /\ \/ signer = payer
       \/ /\ signer \in SessionKeys
          /\ authorizationExpiry[payer][signer][Permission(op)] >= timestamp

\* The provider has bytes that the service takes for an order of the payer.
Authorized(payer, op) ==
    \E signature \in signatures, bytes \in {Marshal(f) : f \in Forms} \cup OtherBytes :
        Verified(payer, op, signature, bytes)

----------------------------------------------------------------------------
(* State of the contracts *)

NoDataSet == [payer |-> Nobody, payee |-> Nobody, clientDataSetId |-> 0, stage |-> "none"]
Running   == [payer : Payers, payee : Payees, clientDataSetId : Numbers,
              stage : {"live", "terminated", "ended"}]
DataSetInfos == Running \cup {NoDataSet, [NoDataSet EXCEPT !.stage = "deleted"]}

NoPiece   == "no piece"
Gone      == "gone"

Init ==
    /\ timestamp = 1
    /\ authorizationExpiry = [p \in Payers |-> [k \in SessionKeys |-> [t \in Kinds |-> 0]]]
    /\ signatures = {}
    /\ clientNonces = [p \in Payers |-> {}]
    /\ dataSetInfo = [d \in DataSetIds |-> NoDataSet]
    /\ pieces = [d \in DataSetIds |-> [i \in PieceIds |-> NoPiece]]
    /\ removals = [d \in DataSetIds |-> {}]
    /\ grants = {}
    /\ carriedOut = [o \in Orders |-> 0]

CarriedOut(payer, op) == carriedOut' = [carriedOut EXCEPT ![<<payer, op>>] = @ + 1]

----------------------------------------------------------------------------
(* Clients, their session keys, and the clock *)

NewBlock ==
    /\ timestamp < MaxTime
    /\ timestamp' = timestamp + 1
    /\ UNCHANGED <<consent, signatures, contracts, carriedOut>>

\* SessionKeyRegistry.login: a new expiry replaces the old one, whichever is later.
Login(payer, key, kinds, expiry) ==
    /\ authorizationExpiry' = [authorizationExpiry EXCEPT ![payer][key] =
                                 [t \in Kinds |-> IF t \in kinds THEN expiry ELSE @[t]]]
    /\ grants' = grants \cup {<<payer, key, t>> : t \in kinds}
    /\ UNCHANGED <<timestamp, signatures, contracts, carriedOut>>

Revoke(payer, key, kinds) ==
    /\ authorizationExpiry' = [authorizationExpiry EXCEPT ![payer][key] =
                                 [t \in Kinds |-> IF t \in kinds THEN 0 ELSE @[t]]]
    /\ UNCHANGED <<timestamp, grants, signatures, contracts, carriedOut>>

\* GetMessageHash and a signature of it.
Sign(signer, op) ==
    /\ Cardinality(signatures) < MaxSignatures
    /\ signatures' = signatures \cup {[signer |-> signer, op |-> op]}
    /\ UNCHANGED <<timestamp, consent, contracts, carriedOut>>

----------------------------------------------------------------------------
(* The signed operations *)

\* Defect: only the data sets that exist are looked at.
UnusedByDataSets(payer, number) ==
    \A d \in DataSetIds : dataSetInfo[d].payer = payer => dataSetInfo[d].clientDataSetId # number

NonceUnused(payer, number) == number \notin clientNonces[payer]

UseNonce(payer, number) ==
    /\ NonceUnused(payer, number)
    /\ clientNonces' = [clientNonces EXCEPT ![payer] = @ \cup {number}]

\* PDPVerifier gives out the ids of data sets and pieces in order, and none twice.
\* A deleted data set keeps its pieces here as gone.
NewDataSet(d) == dataSetInfo[d].stage = "none" /\ \A e \in 1 .. d - 1 : dataSetInfo[e].stage # "none"
NewPiece(d, i) == pieces[d][i] = NoPiece /\ \A j \in 0 .. i - 1 : pieces[d][j] # NoPiece

DataSetCreated(d, payer, op) ==
    /\ NewDataSet(d)
    /\ UseNonce(payer, op.clientDataSetId)
    /\ Authorized(payer, op)
    /\ dataSetInfo' = [dataSetInfo EXCEPT ![d] =
                         [payer |-> payer, payee |-> op.payee,
                          clientDataSetId |-> op.clientDataSetId, stage |-> "live"]]
    /\ CarriedOut(payer, op)
    /\ UNCHANGED <<timestamp, consent, signatures, pieces, removals>>

PiecesAdded(d, op) ==
    LET payer == dataSetInfo[d].payer IN
    /\ dataSetInfo[d].stage = "live"
    /\ op.clientDataSetId = dataSetInfo[d].clientDataSetId
    /\ UseNonce(payer, op.nonce)
    /\ Authorized(payer, op)
    /\ \E i \in PieceIds : /\ NewPiece(d, i)
                           /\ pieces' = [pieces EXCEPT ![d][i] = op.content]
    /\ CarriedOut(payer, op)
    /\ UNCHANGED <<timestamp, consent, signatures, dataSetInfo, removals>>

\* PDPVerifier schedules pieces that are there, once.
Removable(d) == {i \in PieceIds : pieces[d][i] \notin {NoPiece, Gone}} \ removals[d]

PiecesScheduledRemove(d, op) ==
    LET payer == dataSetInfo[d].payer IN
    /\ dataSetInfo[d].stage \in {"live", "terminated"}
    /\ op.clientDataSetId = dataSetInfo[d].clientDataSetId
    /\ op.pieceIds \subseteq Removable(d)
    /\ Authorized(payer, op)
    /\ removals' = [removals EXCEPT ![d] = @ \cup op.pieceIds]
    /\ CarriedOut(payer, op)
    /\ UNCHANGED <<timestamp, consent, signatures, clientNonces, dataSetInfo, pieces>>

----------------------------------------------------------------------------
(* The rest of a data set's life *)

\* nextProvingPeriod: scheduled pieces leave.
RemovalsTakeEffect(d) ==
    /\ dataSetInfo[d].stage \in {"live", "terminated", "ended"}
    /\ removals[d] # {}
    /\ pieces' = [pieces EXCEPT ![d] = [i \in PieceIds |-> IF i \in removals[d] THEN Gone ELSE @[i]]]
    /\ removals' = [removals EXCEPT ![d] = {}]
    /\ UNCHANGED <<timestamp, consent, signatures, clientNonces, dataSetInfo, carriedOut>>

\* terminateService, and the end epoch that it sets.
StageAfter(stage) == [live |-> "terminated", terminated |-> "ended"][stage]

EndComesNearer(d) ==
    /\ dataSetInfo[d].stage \in {"live", "terminated"}
    /\ dataSetInfo' = [dataSetInfo EXCEPT ![d].stage = StageAfter(@)]
    /\ UNCHANGED <<timestamp, consent, signatures, clientNonces, pieces, removals, carriedOut>>

\* dataSetDeleted, once the rail is settled. Nonces stay, and extraData is not looked at.
DataSetDeleted(d) ==
    /\ dataSetInfo[d].stage = "ended"
    /\ dataSetInfo' = [dataSetInfo EXCEPT ![d] = [NoDataSet EXCEPT !.stage = "deleted"]]
    /\ UNCHANGED <<timestamp, consent, signatures, clientNonces, pieces, removals, carriedOut>>

----------------------------------------------------------------------------
Client ==
    \/ \E p \in Payers, k \in SessionKeys, kinds \in PermissionSets :
           \/ \E expiry \in timestamp .. MaxExpiry : Login(p, k, kinds, expiry)
           \/ Revoke(p, k, kinds)
    \/ \E signer \in Signers, op \in Ops : Sign(signer, op)

Service ==
    \E d \in DataSetIds :
        \/ \E p \in Payers, op \in CreateDataSetOps : DataSetCreated(d, p, op)
        \/ \E op \in AddPiecesOps : PiecesAdded(d, op)
        \/ \E op \in SchedulePieceRemovalsOps : PiecesScheduledRemove(d, op)
        \/ RemovalsTakeEffect(d)
        \/ EndComesNearer(d)
        \/ DataSetDeleted(d)

Next == NewBlock \/ Client \/ Service

Spec == Init /\ [][Next]_vars

----------------------------------------------------------------------------
(* Properties *)

TypeOK ==
    /\ timestamp \in Nat
    /\ authorizationExpiry \in [Payers -> [SessionKeys -> [Kinds -> Nat]]]
    /\ signatures \subseteq Signatures
    /\ clientNonces \in [Payers -> SUBSET Numbers]
    /\ dataSetInfo \in [DataSetIds -> DataSetInfos]
    /\ pieces \in [DataSetIds -> [PieceIds -> Contents \cup {NoPiece, Gone}]]
    /\ removals \in [DataSetIds -> SUBSET PieceIds]
    /\ grants \subseteq Payers \X SessionKeys \X Kinds
    /\ carriedOut \in [Orders -> Nat]

\* Whose order a signed operation is: its signer's, and everybody's who ever gave the
\* signing key that permission.
Wanted == {o \in Orders : \E s \in signatures :
               /\ s.op = o[2]
               /\ s.signer = o[1] \/ <<o[1], s.signer, o[2].kind>> \in grants}

\* The number that an operation uses up.
NumberOf(op) == IF op.kind = "CreateDataSet" THEN op.clientDataSetId ELSE op.nonce

SingleUse == CreateDataSetOps \cup AddPiecesOps

Conflicts == {c \in Orders \X Orders :
                 /\ c[1][1] = c[2][1]
                 /\ c[1][2] \in SingleUse /\ c[2][2] \in SingleUse
                 /\ NumberOf(c[1][2]) = NumberOf(c[2][2])}

Promise == INSTANCE Consent WITH wanted <- Wanted

\* Whatever is submitted, when, and how often: the service carries out an order only if the
\* payer or a key with the payer's permission for it signed it, each order at most
\* once, in the life of its data set and after, and never two that share a number.
ImplementsConsent == Promise!Spec

\* A key's signature counts while the payer's permission for this kind of operation runs,
\* at the time of submission: not after it expired or was revoked, whenever it was given.
KeysSpeakWithinTheirPermission ==
    [][\A o \in Orders : carriedOut'[o] > carriedOut[o] =>
          \E s \in signatures :
              /\ s.op = o[2]
              /\ \/ s.signer = o[1]
                 \/ /\ s.signer \in SessionKeys
                    /\ authorizationExpiry[o[1]][s.signer][o[2].kind] >= timestamp]_vars

\* A signed operation names its data set by a number of the client's choice. It means one
\* data set only: what lies in a data set was ordered for it, and it pays whom the client named.
DataSetsHoldWhatWasOrdered ==
    \A d \in DataSetIds :
        LET info == dataSetInfo[d] IN
        info.payer \in Payers =>
            /\ \E op \in CreateDataSetOps :
                   /\ op.clientDataSetId = info.clientDataSetId /\ op.payee = info.payee
                   /\ <<info.payer, op>> \in Wanted
            /\ \A i \in PieceIds : pieces[d][i] \in Contents =>
                   \E op \in AddPiecesOps :
                       /\ op.clientDataSetId = info.clientDataSetId
                       /\ op.content = pieces[d][i]
                       /\ <<info.payer, op>> \in Wanted

\* Whatever form a wallet gives its signature, the bytes that the Go client marshals are
\* taken for the payer's (signature.go:18 'the format expected by the smart contract').
MarshaledSignaturesAreAccepted ==
    \A s \in signatures, f \in Forms :
        s.signer \in Payers /\ f.given # "neither" => Verified(s.signer, s.op, s, Marshal(f))
=============================================================================
