------------------------- MODULE AuthorizationProofs -------------------------
(***************************************************************************)
(* The service carries out what payers ordered, for any number of payers,  *)
(* session keys, data sets, pieces, and signatures.                        *)
(***************************************************************************)
EXTENDS Authorization, TLAPS

USE AuthorizationAssumption

----------------------------------------------------------------------------
(* Digests *)

\* A digest binds every field of an operation (SignatureVerificationLib's struct hashes).
LEMMA DigestBinds ==
    ASSUME NEW a \in Ops, NEW b \in Ops, Digest(a) = Digest(b)
    PROVE  a = b
<1>1. a.kind = b.kind
  BY DEF Digest, Ops, CreateDataSetOps, AddPiecesOps, SchedulePieceRemovalsOps
<1>2. CASE a.kind = "CreateDataSet"
  <2>1. a \in CreateDataSetOps /\ b \in CreateDataSetOps
    BY <1>1, <1>2 DEF Ops, CreateDataSetOps, AddPiecesOps, SchedulePieceRemovalsOps
  <2>2. a.clientDataSetId = b.clientDataSetId /\ a.payee = b.payee
    BY <1>1, <1>2 DEF Digest
  <2> QED BY <1>1, <2>1, <2>2 DEF CreateDataSetOps
<1>3. CASE a.kind = "AddPieces"
  <2>1. a \in AddPiecesOps /\ b \in AddPiecesOps
    BY <1>1, <1>3 DEF Ops, CreateDataSetOps, AddPiecesOps, SchedulePieceRemovalsOps
  <2>2. a.clientDataSetId = b.clientDataSetId /\ a.nonce = b.nonce /\ a.content = b.content
    BY <1>1, <1>3 DEF Digest
  <2> QED BY <1>1, <2>1, <2>2 DEF AddPiecesOps
<1>4. CASE a.kind = "SchedulePieceRemovals"
  <2>1. a \in SchedulePieceRemovalsOps /\ b \in SchedulePieceRemovalsOps
    BY <1>1, <1>4 DEF Ops, CreateDataSetOps, AddPiecesOps, SchedulePieceRemovalsOps
  <2>2. a.clientDataSetId = b.clientDataSetId /\ a.pieceIds = b.pieceIds
    BY <1>1, <1>4 DEF Digest
  <2> QED BY <1>1, <2>1, <2>2 DEF SchedulePieceRemovalsOps
<1> QED BY <1>2, <1>3, <1>4 DEF Ops, CreateDataSetOps, AddPiecesOps, SchedulePieceRemovalsOps

\* The signer of exactly this operation for this payer, if its permission runs.
SignedFor(payer, op) ==
    \E s \in signatures :
        /\ s.op = op
        /\ \/ s.signer = payer
           \/ /\ s.signer \in SessionKeys
              /\ authorizationExpiry[payer][s.signer][op.kind] >= timestamp

\* Whatever bytes are submitted, the service takes them for an order only if somebody who
\* may speak for the payer signed exactly it.
LEMMA AuthorizedMeansSigned ==
    ASSUME signatures \subseteq Signatures,
           NEW payer \in Payers, NEW op \in Ops, Authorized(payer, op)
    PROVE  SignedFor(payer, op)
<1>1. PICK s \in signatures, bytes \in {Marshal(f) : f \in Forms} \cup OtherBytes :
          Verified(payer, op, s, bytes)
  BY DEF Authorized
<1>2. s.op \in Ops
  BY DEF Signatures
<1>3. RecoverSigner(op, s, bytes) # Nobody
  BY <1>1 DEF Verified
<1>4. Digest(s.op) = Digest(op) /\ RecoverSigner(op, s, bytes) = s.signer
  BY <1>3 DEF RecoverSigner
<1>5. s.op = op
  BY <1>2, <1>4, DigestBinds
<1> QED BY <1>1, <1>4, <1>5 DEF Verified, Permission, SignedFor

----------------------------------------------------------------------------
(* Types *)

\* The constants of the state are told apart.
LEMMA Stages ==
    /\ NoDataSet.stage = "none" /\ NoDataSet.payer = Nobody
    /\ \A info \in DataSetInfos :
           /\ info.stage \in {"live", "terminated", "ended"} <=> info \in Running
           /\ info \in Running => info.payer \in Payers /\ info.clientDataSetId \in Numbers
           /\ info.payer \in Payers <=> info \in Running
BY DEF NoDataSet, DataSetInfos, Running

LEMMA TypeInit == Init => TypeOK
BY DEF Init, TypeOK, DataSetInfos, Orders

LEMMA ClientKeepsTypes ==
    ASSUME TypeOK, Client
    PROVE  TypeOK'
<1>1. ASSUME NEW p \in Payers, NEW k \in SessionKeys, NEW kinds \in PermissionSets,
             NEW expiry \in timestamp .. MaxExpiry, Login(p, k, kinds, expiry)
      PROVE  TypeOK'
  <2>1. kinds \subseteq Kinds
    BY DEF Kinds
  <2>2. expiry \in Nat
    BY DEF TypeOK
  <2>3. authorizationExpiry' \in [Payers -> [SessionKeys -> [Kinds -> Nat]]]
    BY <1>1, <2>2 DEF Login, TypeOK
  <2>4. grants' \subseteq Payers \X SessionKeys \X Kinds
    BY <1>1, <2>1 DEF Login, TypeOK
  <2> QED BY <1>1, <2>3, <2>4 DEF Login, TypeOK, contracts, dataSets
<1>2. ASSUME NEW p \in Payers, NEW k \in SessionKeys, NEW kinds \in PermissionSets,
             Revoke(p, k, kinds)
      PROVE  TypeOK'
  <2>1. authorizationExpiry' \in [Payers -> [SessionKeys -> [Kinds -> Nat]]]
    BY <1>2 DEF Revoke, TypeOK
  <2> QED BY <1>2, <2>1 DEF Revoke, TypeOK, contracts, dataSets
<1>3. ASSUME NEW signer \in Signers, NEW op \in Ops, Sign(signer, op)
      PROVE  TypeOK'
  <2>1. signatures' \subseteq Signatures
    BY <1>3 DEF Sign, TypeOK, Signatures
  <2> QED BY <1>3, <2>1 DEF Sign, TypeOK, contracts, dataSets, consent
<1> QED BY <1>1, <1>2, <1>3 DEF Client

LEMMA ServiceKeepsTypes ==
    ASSUME TypeOK, Service
    PROVE  TypeOK'
<1> SUFFICES ASSUME NEW d \in DataSetIds,
                    \/ \E p \in Payers, op \in CreateDataSetOps : DataSetCreated(d, p, op)
                    \/ \E op \in AddPiecesOps : PiecesAdded(d, op)
                    \/ \E op \in SchedulePieceRemovalsOps : PiecesScheduledRemove(d, op)
                    \/ RemovalsTakeEffect(d)
                    \/ EndComesNearer(d)
                    \/ DataSetDeleted(d)
             PROVE  TypeOK'
  BY DEF Service
<1>1. ASSUME NEW p \in Payers, NEW op \in CreateDataSetOps, DataSetCreated(d, p, op)
      PROVE  TypeOK'
  <2>1. <<p, op>> \in Orders /\ op.clientDataSetId \in Numbers /\ op.payee \in Payees
    BY DEF Orders, Ops, CreateDataSetOps
  <2>2. dataSetInfo' \in [DataSetIds -> DataSetInfos]
    BY <1>1, <2>1 DEF DataSetCreated, TypeOK, DataSetInfos, Running
  <2>3. clientNonces' \in [Payers -> SUBSET Numbers]
    BY <1>1, <2>1 DEF DataSetCreated, UseNonce, TypeOK
  <2>4. carriedOut' \in [Orders -> Nat]
    BY <1>1, <2>1 DEF DataSetCreated, CarriedOut, TypeOK
  <2> QED BY <1>1, <2>2, <2>3, <2>4 DEF DataSetCreated, TypeOK, consent
<1>2. ASSUME NEW op \in AddPiecesOps, PiecesAdded(d, op)
      PROVE  TypeOK'
  <2>1. dataSetInfo[d].payer \in Payers
    BY <1>2, Stages DEF PiecesAdded, TypeOK
  <2>2. <<dataSetInfo[d].payer, op>> \in Orders /\ op.nonce \in Numbers /\ op.content \in Contents
    BY <2>1 DEF Orders, Ops, AddPiecesOps
  <2>3. clientNonces' \in [Payers -> SUBSET Numbers]
    BY <1>2, <2>1, <2>2 DEF PiecesAdded, UseNonce, TypeOK
  <2>4. carriedOut' \in [Orders -> Nat]
    BY <1>2, <2>2 DEF PiecesAdded, CarriedOut, TypeOK
  <2>5. pieces' \in [DataSetIds -> [PieceIds -> Contents \cup {NoPiece, Gone}]]
    BY <1>2, <2>2 DEF PiecesAdded, TypeOK
  <2> QED BY <1>2, <2>3, <2>4, <2>5 DEF PiecesAdded, TypeOK, consent
<1>3. ASSUME NEW op \in SchedulePieceRemovalsOps, PiecesScheduledRemove(d, op)
      PROVE  TypeOK'
  <2>1. dataSetInfo[d].payer \in Payers
    BY <1>3, Stages DEF PiecesScheduledRemove, TypeOK
  <2>2. <<dataSetInfo[d].payer, op>> \in Orders /\ op.pieceIds \subseteq PieceIds
    BY <2>1 DEF Orders, Ops, SchedulePieceRemovalsOps
  <2>3. carriedOut' \in [Orders -> Nat]
    BY <1>3, <2>2 DEF PiecesScheduledRemove, CarriedOut, TypeOK
  <2>4. removals' \in [DataSetIds -> SUBSET PieceIds]
    BY <1>3, <2>2 DEF PiecesScheduledRemove, TypeOK
  <2> QED BY <1>3, <2>3, <2>4 DEF PiecesScheduledRemove, TypeOK, consent
<1>4. ASSUME RemovalsTakeEffect(d)
      PROVE  TypeOK'
  <2>1. pieces' \in [DataSetIds -> [PieceIds -> Contents \cup {NoPiece, Gone}]]
    BY <1>4 DEF RemovalsTakeEffect, TypeOK
  <2>2. removals' \in [DataSetIds -> SUBSET PieceIds]
    BY <1>4 DEF RemovalsTakeEffect, TypeOK
  <2> QED BY <1>4, <2>1, <2>2 DEF RemovalsTakeEffect, TypeOK, consent
<1>5. ASSUME EndComesNearer(d)
      PROVE  TypeOK'
  <2>1. dataSetInfo[d] \in Running /\ StageAfter(dataSetInfo[d].stage) \in {"terminated", "ended"}
    BY <1>5, Stages DEF EndComesNearer, TypeOK, StageAfter
  <2>2. dataSetInfo' \in [DataSetIds -> DataSetInfos]
    BY <1>5, <2>1 DEF EndComesNearer, TypeOK, DataSetInfos, Running
  <2> QED BY <1>5, <2>2 DEF EndComesNearer, TypeOK, consent
<1>6. ASSUME DataSetDeleted(d)
      PROVE  TypeOK'
  <2>1. dataSetInfo' \in [DataSetIds -> DataSetInfos]
    BY <1>6 DEF DataSetDeleted, TypeOK, DataSetInfos
  <2> QED BY <1>6, <2>1 DEF DataSetDeleted, TypeOK, consent
<1> QED BY <1>1, <1>2, <1>3, <1>4, <1>5, <1>6

\* Every variable keeps its type: in particular, each signed operation is counted for a payer.
THEOREM AuthorizationTypeCorrect == Spec => []TypeOK
<1>1. TypeOK /\ [Next]_vars => TypeOK'
  <2> SUFFICES ASSUME TypeOK, [Next]_vars
               PROVE  TypeOK'
    OBVIOUS
  <2>1. CASE NewBlock
    BY <2>1 DEF NewBlock, TypeOK, consent, contracts, dataSets
  <2>2. CASE UNCHANGED vars
    BY <2>2 DEF TypeOK, vars, consent, contracts, dataSets
  <2> QED BY <2>1, <2>2, ClientKeepsTypes, ServiceKeepsTypes DEF Next
<1> QED BY <1>1, TypeInit, PTL DEF Spec

----------------------------------------------------------------------------
(* Permissions *)

\* Only the order that was submitted is counted, and only when it was authorized.
LEMMA CountsFollowSubmissions ==
    ASSUME TypeOK, Next, NEW o \in Orders, carriedOut'[o] > carriedOut[o]
    PROVE  Authorized(o[1], o[2])
<1>1. ASSUME carriedOut' = carriedOut
      PROVE  FALSE
  BY <1>1 DEF TypeOK
<1>2. ASSUME NEW p \in Payers, NEW op \in Ops, CarriedOut(p, op), Authorized(p, op)
      PROVE  Authorized(o[1], o[2])
  <2>1. o = <<p, op>>
    BY <1>2 DEF CarriedOut, TypeOK
  <2> QED BY <1>2, <2>1
<1>3. ASSUME NEW d \in DataSetIds, NEW p \in Payers, NEW op \in CreateDataSetOps,
             DataSetCreated(d, p, op)
      PROVE  Authorized(o[1], o[2])
  BY <1>2, <1>3 DEF DataSetCreated, Ops
<1>4. ASSUME NEW d \in DataSetIds, NEW op \in AddPiecesOps, PiecesAdded(d, op)
      PROVE  Authorized(o[1], o[2])
  <2>1. dataSetInfo[d].payer \in Payers
    BY <1>4, Stages DEF PiecesAdded, TypeOK
  <2> QED BY <1>2, <1>4, <2>1 DEF PiecesAdded, Ops
<1>5. ASSUME NEW d \in DataSetIds, NEW op \in SchedulePieceRemovalsOps,
             PiecesScheduledRemove(d, op)
      PROVE  Authorized(o[1], o[2])
  <2>1. dataSetInfo[d].payer \in Payers
    BY <1>5, Stages DEF PiecesScheduledRemove, TypeOK
  <2> QED BY <1>2, <1>5, <2>1 DEF PiecesScheduledRemove, Ops
<1>6. CASE NewBlock \/ Client
  BY <1>1, <1>6 DEF NewBlock, Client, Login, Revoke, Sign
<1>7. ASSUME NEW d \in DataSetIds, RemovalsTakeEffect(d) \/ EndComesNearer(d) \/ DataSetDeleted(d)
      PROVE  FALSE
  BY <1>1, <1>7 DEF RemovalsTakeEffect, EndComesNearer, DataSetDeleted
<1> QED BY <1>3, <1>4, <1>5, <1>6, <1>7 DEF Next, Service

\* No signature of a key counts outside the permission that its payer gave it.
THEOREM PermissionsAreKept == Spec => KeysSpeakWithinTheirPermission
<1>1. ASSUME TypeOK, [Next]_vars
      PROVE  [\A o \in Orders : carriedOut'[o] > carriedOut[o] => SignedFor(o[1], o[2])]_vars
  <2> SUFFICES ASSUME Next, NEW o \in Orders, carriedOut'[o] > carriedOut[o]
               PROVE  SignedFor(o[1], o[2])
    BY <1>1
  <2>1. o[1] \in Payers /\ o[2] \in Ops
    BY DEF Orders
  <2> QED BY <1>1, <2>1, CountsFollowSubmissions, AuthorizedMeansSigned DEF TypeOK
<1>2. TypeOK /\ [Next]_vars =>
        [\A o \in Orders : carriedOut'[o] > carriedOut[o] =>
            \E s \in signatures :
                /\ s.op = o[2]
                /\ \/ s.signer = o[1]
                   \/ /\ s.signer \in SessionKeys
                      /\ authorizationExpiry[o[1]][s.signer][o[2].kind] >= timestamp]_vars
  BY <1>1 DEF SignedFor
<1> QED BY <1>2, AuthorizationTypeCorrect, PTL DEF Spec, KeysSpeakWithinTheirPermission

----------------------------------------------------------------------------
(* The inductive invariant behind the promise *)

Owned(d) == dataSetInfo[d].payer \in Payers

\* Expiry 0 means no permission: time has left it behind.
TimeRuns == timestamp >= 1

GrantsAreKept ==
    \A p \in Payers, k \in SessionKeys, t \in Kinds :
        authorizationExpiry[p][k][t] > 0 => <<p, k, t>> \in grants

SpentNumbersStaySpent ==
    \A p \in Payers, op \in SingleUse :
        carriedOut[<<p, op>>] > 0 => NumberOf(op) \in clientNonces[p]

DataSetsSpendTheirNumber ==
    \A d \in DataSetIds :
        Owned(d) => dataSetInfo[d].clientDataSetId \in clientNonces[dataSetInfo[d].payer]

OneDataSetPerNumber ==
    \A d, e \in DataSetIds :
        /\ Owned(d) /\ dataSetInfo[d].payer = dataSetInfo[e].payer
        /\ dataSetInfo[d].clientDataSetId = dataSetInfo[e].clientDataSetId
        => d = e

\* A piece that was ordered away is on its way out or gone.
Leaving(d, i) == i \in removals[d] \/ pieces[d][i] = Gone

RemovalDone(p, op) ==
    /\ op.clientDataSetId \in clientNonces[p]
    /\ \A d \in DataSetIds :
           dataSetInfo[d].payer = p /\ dataSetInfo[d].clientDataSetId = op.clientDataSetId
           => \A i \in op.pieceIds : Leaving(d, i)

RemovalsAreDoneForGood ==
    \A p \in Payers, op \in SchedulePieceRemovalsOps :
        carriedOut[<<p, op>>] > 0 => RemovalDone(p, op)

ConsentInv ==
    /\ TypeOK
    /\ TimeRuns
    /\ GrantsAreKept
    /\ SpentNumbersStaySpent
    /\ DataSetsSpendTheirNumber
    /\ OneDataSetPerNumber
    /\ RemovalsAreDoneForGood

----------------------------------------------------------------------------
(* Operations *)

\* Removals use up no number, additions and creations do.
LEMMA KindsOfOps ==
    /\ SingleUse \subseteq Ops /\ SchedulePieceRemovalsOps \subseteq Ops
    /\ \A op \in SchedulePieceRemovalsOps : op \notin SingleUse
    /\ \A op \in SingleUse : NumberOf(op) \in Numbers
    /\ \A op \in CreateDataSetOps : op \in SingleUse /\ NumberOf(op) = op.clientDataSetId
    /\ \A op \in AddPiecesOps : op \in SingleUse /\ NumberOf(op) = op.nonce
    /\ Ops = SingleUse \cup SchedulePieceRemovalsOps
BY DEF SingleUse, Ops, NumberOf, CreateDataSetOps, AddPiecesOps, SchedulePieceRemovalsOps

\* What is authorized is wanted: it was signed, and the permission that runs was given.
LEMMA AuthorizedMeansWanted ==
    ASSUME TypeOK, TimeRuns, GrantsAreKept,
           NEW p \in Payers, NEW op \in Ops, Authorized(p, op)
    PROVE  <<p, op>> \in Wanted
<1>1. SignedFor(p, op)
  BY AuthorizedMeansSigned DEF TypeOK
<1>2. PICK s \in signatures :
          /\ s.op = op
          /\ \/ s.signer = p
             \/ /\ s.signer \in SessionKeys
                /\ authorizationExpiry[p][s.signer][op.kind] >= timestamp
  BY <1>1 DEF SignedFor
<1>3. op.kind \in Kinds
  BY DEF Kinds, Ops, CreateDataSetOps, AddPiecesOps, SchedulePieceRemovalsOps
<1>4. s.signer = p \/ <<p, s.signer, op.kind>> \in grants
  <2>1. CASE s.signer \in SessionKeys /\ authorizationExpiry[p][s.signer][op.kind] >= timestamp
    <3>1. authorizationExpiry[p][s.signer][op.kind] \in Nat
      BY <1>3, <2>1 DEF TypeOK
    <3>2. authorizationExpiry[p][s.signer][op.kind] > 0
      BY <2>1, <3>1 DEF TimeRuns, TypeOK
    <3> QED BY <1>3, <2>1, <3>2 DEF GrantsAreKept
  <2> QED BY <1>2, <2>1
<1> QED BY <1>2, <1>4 DEF Wanted, Orders

\* Nothing is ever unsigned and no grant forgotten.
LEMMA WantedGrows ==
    ASSUME signatures \subseteq signatures', grants \subseteq grants'
    PROVE  Wanted \subseteq Wanted' /\ Wanted' \subseteq Orders
BY DEF Wanted

\* How far the parts that speak of contracts only are kept when the contracts stay.
LEMMA ContractsUnchanged ==
    ASSUME ConsentInv, UNCHANGED <<clientNonces, dataSetInfo, pieces, removals, carriedOut>>
    PROVE  /\ SpentNumbersStaySpent' /\ DataSetsSpendTheirNumber'
           /\ OneDataSetPerNumber' /\ RemovalsAreDoneForGood'
<1>1. SpentNumbersStaySpent'
  BY DEF ConsentInv, SpentNumbersStaySpent
<1>2. DataSetsSpendTheirNumber' /\ OneDataSetPerNumber'
  BY DEF ConsentInv, DataSetsSpendTheirNumber, OneDataSetPerNumber, Owned
<1>3. RemovalsAreDoneForGood'
  BY DEF ConsentInv, RemovalsAreDoneForGood, RemovalDone, Leaving
<1> QED BY <1>1, <1>2, <1>3

\* The client only adds to what is wanted.
LEMMA ClientKeepsConsentInv ==
    ASSUME ConsentInv, Client
    PROVE  ConsentInv' /\ signatures \subseteq signatures' /\ grants \subseteq grants'
           /\ carriedOut' = carriedOut
<1>0. TypeOK /\ TypeOK'
  BY ClientKeepsTypes DEF ConsentInv
<1>1. ASSUME NEW p \in Payers, NEW k \in SessionKeys, NEW kinds \in PermissionSets,
             NEW expiry \in timestamp .. MaxExpiry, Login(p, k, kinds, expiry)
      PROVE  GrantsAreKept' /\ grants \subseteq grants'
  BY <1>0, <1>1 DEF Login, GrantsAreKept, ConsentInv, TypeOK
<1>2. ASSUME NEW p \in Payers, NEW k \in SessionKeys, NEW kinds \in PermissionSets,
             Revoke(p, k, kinds)
      PROVE  GrantsAreKept' /\ grants \subseteq grants'
  BY <1>0, <1>2 DEF Revoke, GrantsAreKept, ConsentInv, TypeOK
<1>3. ASSUME NEW signer \in Signers, NEW op \in Ops, Sign(signer, op)
      PROVE  GrantsAreKept' /\ grants \subseteq grants'
  BY <1>3 DEF Sign, consent, GrantsAreKept, ConsentInv
<1>4. GrantsAreKept' /\ grants \subseteq grants'
  BY <1>1, <1>2, <1>3 DEF Client
<1>5. TimeRuns' /\ signatures \subseteq signatures'
      /\ UNCHANGED <<clientNonces, dataSetInfo, pieces, removals, carriedOut>>
  BY DEF Client, Login, Revoke, Sign, contracts, dataSets, ConsentInv, TimeRuns
<1> QED BY <1>0, <1>4, <1>5, ContractsUnchanged DEF ConsentInv

LEMMA NewBlockKeepsConsentInv ==
    ASSUME ConsentInv, NewBlock
    PROVE  ConsentInv'
<1>1. TypeOK' /\ TimeRuns' /\ GrantsAreKept'
  BY DEF NewBlock, ConsentInv, TypeOK, TimeRuns, GrantsAreKept, consent, contracts, dataSets
<1>2. UNCHANGED <<clientNonces, dataSetInfo, pieces, removals, carriedOut>>
  BY DEF NewBlock, contracts, dataSets
<1> QED BY <1>1, <1>2, ContractsUnchanged DEF ConsentInv

\* What every operation of the service leaves alone.
LEMMA ServiceKeepsConsent ==
    ASSUME ConsentInv, Service
    PROVE  /\ TypeOK' /\ TimeRuns' /\ GrantsAreKept'
           /\ UNCHANGED <<signatures, grants>> /\ Wanted' = Wanted
<1>1. UNCHANGED <<timestamp, consent, signatures>>
  BY DEF Service, DataSetCreated, PiecesAdded, PiecesScheduledRemove, RemovalsTakeEffect,
         EndComesNearer, DataSetDeleted
<1>2. TypeOK'
  BY ServiceKeepsTypes DEF ConsentInv
<1>3. TimeRuns' /\ GrantsAreKept'
  BY <1>1 DEF consent, ConsentInv, TimeRuns, GrantsAreKept
<1>4. Wanted' = Wanted
  BY <1>1 DEF consent, Wanted
<1> QED BY <1>1, <1>2, <1>3, <1>4 DEF consent

----------------------------------------------------------------------------
(* The three operations that carry out an order *)

\* The promise for the order, as the abstract specification states it.
Fresh(p, op) ==
    /\ <<p, op>> \in Wanted
    /\ carriedOut[<<p, op>>] = 0
    /\ \A other \in Orders : <<<<p, op>>, other>> \in Conflicts => carriedOut[other] = 0

\* A single-use operation whose number was unused is fresh.
LEMMA UnusedMeansFresh ==
    ASSUME ConsentInv, NEW p \in Payers, NEW op \in SingleUse,
           NumberOf(op) \notin clientNonces[p], Authorized(p, op)
    PROVE  Fresh(p, op)
<1>1. <<p, op>> \in Wanted
  BY KindsOfOps, AuthorizedMeansWanted DEF ConsentInv
<1>2. \A q \in SingleUse : NumberOf(q) = NumberOf(op) => carriedOut[<<p, q>>] = 0
  <2> SUFFICES ASSUME NEW q \in SingleUse, NumberOf(q) = NumberOf(op)
               PROVE  carriedOut[<<p, q>>] = 0
    OBVIOUS
  <2>1. carriedOut[<<p, q>>] \in Nat
    BY KindsOfOps DEF ConsentInv, TypeOK, Orders
  <2> QED BY <2>1 DEF ConsentInv, SpentNumbersStaySpent
<1>3. ASSUME NEW other \in Orders, <<<<p, op>>, other>> \in Conflicts
      PROVE  carriedOut[other] = 0
  <2>1. other[1] = p /\ other[2] \in SingleUse /\ NumberOf(other[2]) = NumberOf(op)
    BY <1>3 DEF Conflicts
  <2>2. other = <<p, other[2]>>
    BY <2>1 DEF Orders
  <2> QED BY <1>2, <2>1, <2>2
<1> QED BY <1>1, <1>2, <1>3 DEF Fresh

\* Of pieces that are leaving none is removable, so an order to remove them is not carried
\* out again although it has no number.
LEMMA RemovableMeansFresh ==
    ASSUME ConsentInv, NEW d \in DataSetIds, NEW op \in SchedulePieceRemovalsOps,
           PiecesScheduledRemove(d, op)
    PROVE  Owned(d) /\ Fresh(dataSetInfo[d].payer, op)
<1> DEFINE p == dataSetInfo[d].payer
<1>1. p \in Payers
  BY Stages DEF PiecesScheduledRemove, ConsentInv, TypeOK
<1>2. <<p, op>> \in Wanted
  BY <1>1, KindsOfOps, AuthorizedMeansWanted DEF ConsentInv, PiecesScheduledRemove
<1>3. carriedOut[<<p, op>>] = 0
  <2>1. carriedOut[<<p, op>>] \in Nat
    BY <1>1, KindsOfOps DEF ConsentInv, TypeOK, Orders
  <2>2. PICK i : i \in op.pieceIds
    <3>1. op.pieceIds \in (SUBSET PieceIds) \ {{}}
      BY DEF SchedulePieceRemovalsOps
    <3>2. op.pieceIds # {}
      BY <3>1
    <3> QED BY <3>2
  <2>3. ~Leaving(d, i)
    BY <2>2 DEF PiecesScheduledRemove, Removable, Leaving
  <2>4. dataSetInfo[d].clientDataSetId = op.clientDataSetId
    BY DEF PiecesScheduledRemove
  <2>5. ~RemovalDone(p, op)
    BY <2>2, <2>3, <2>4 DEF RemovalDone
  <2> QED BY <1>1, <2>1, <2>5 DEF ConsentInv, RemovalsAreDoneForGood
<1>4. \A other \in Orders : <<<<p, op>>, other>> \notin Conflicts
  BY KindsOfOps DEF Conflicts
<1> QED BY <1>1, <1>2, <1>3, <1>4 DEF Owned, Fresh

\* The count of one order rises by one.
LEMMA OneMoreCarriedOut ==
    ASSUME ConsentInv, NEW p \in Payers, NEW op \in Ops, CarriedOut(p, op),
           NEW q \in Payers, NEW other \in Ops, carriedOut'[<<q, other>>] > 0
    PROVE  carriedOut[<<q, other>>] > 0 \/ (q = p /\ other = op)
<1>1. <<q, other>> \in Orders /\ <<p, op>> \in Orders
  BY DEF Orders
<1>2. CASE <<q, other>> # <<p, op>>
  BY <1>1, <1>2 DEF CarriedOut, ConsentInv, TypeOK
<1> QED BY <1>2

LEMMA CreationKeepsConsentInv ==
    ASSUME ConsentInv, NEW d \in DataSetIds, NEW p \in Payers, NEW op \in CreateDataSetOps,
           DataSetCreated(d, p, op)
    PROVE  ConsentInv' /\ Fresh(p, op) /\ CarriedOut(p, op)
<1>1. op \in SingleUse /\ op \in Ops /\ NumberOf(op) = op.clientDataSetId
  BY KindsOfOps
<1>2. Fresh(p, op) /\ CarriedOut(p, op)
  BY <1>1, UnusedMeansFresh DEF DataSetCreated, UseNonce, NonceUnused
<1>3. TypeOK' /\ TimeRuns' /\ GrantsAreKept'
  BY ServiceKeepsConsent DEF Service
<1>4. /\ clientNonces' = [clientNonces EXCEPT ![p] = @ \cup {op.clientDataSetId}]
      /\ op.clientDataSetId \notin clientNonces[p]
      /\ dataSetInfo' = [dataSetInfo EXCEPT ![d] =
             [payer |-> p, payee |-> op.payee, clientDataSetId |-> op.clientDataSetId, stage |-> "live"]]
      /\ pieces' = pieces /\ removals' = removals
      /\ clientNonces \in [Payers -> SUBSET Numbers] /\ dataSetInfo \in [DataSetIds -> DataSetInfos]
  BY DEF DataSetCreated, UseNonce, NonceUnused, ConsentInv, TypeOK
<1>5. \A q \in Payers : clientNonces[q] \subseteq clientNonces'[q]
  BY <1>4
<1>6. op.clientDataSetId \in clientNonces'[p]
  BY <1>4
<1>7. SpentNumbersStaySpent'
  <2> SUFFICES ASSUME NEW q \in Payers, NEW other \in SingleUse, carriedOut'[<<q, other>>] > 0
               PROVE  NumberOf(other) \in clientNonces'[q]
    BY DEF SpentNumbersStaySpent
  <2>1. carriedOut[<<q, other>>] > 0 \/ (q = p /\ other = op)
    BY <1>1, <1>2, KindsOfOps, OneMoreCarriedOut
  <2> QED BY <1>1, <1>5, <1>6, <2>1 DEF ConsentInv, SpentNumbersStaySpent
<1>8. DataSetsSpendTheirNumber'
  <2> SUFFICES ASSUME NEW e \in DataSetIds, Owned(e)'
               PROVE  dataSetInfo'[e].clientDataSetId \in clientNonces'[dataSetInfo'[e].payer]
    BY DEF DataSetsSpendTheirNumber
  <2>1. CASE e = d
    BY <1>4, <1>6, <2>1
  <2>2. CASE e # d
    BY <1>4, <1>5, <2>2 DEF ConsentInv, DataSetsSpendTheirNumber, Owned
  <2> QED BY <2>1, <2>2
<1>9. \A e \in DataSetIds : dataSetInfo[e].payer = p => dataSetInfo[e].clientDataSetId # op.clientDataSetId
  BY <1>4 DEF ConsentInv, DataSetsSpendTheirNumber, Owned
<1>10. OneDataSetPerNumber'
  BY <1>4, <1>9 DEF OneDataSetPerNumber, ConsentInv, Owned
<1>11. RemovalsAreDoneForGood'
  <2> SUFFICES ASSUME NEW q \in Payers, NEW other \in SchedulePieceRemovalsOps,
                      carriedOut'[<<q, other>>] > 0
               PROVE  RemovalDone(q, other)'
    BY DEF RemovalsAreDoneForGood
  <2>1. carriedOut[<<q, other>>] > 0
    BY <1>1, <1>2, KindsOfOps, OneMoreCarriedOut
  <2>2. RemovalDone(q, other)
    BY <2>1 DEF ConsentInv, RemovalsAreDoneForGood
  <2>3. ~(q = p /\ other.clientDataSetId = op.clientDataSetId)
    BY <1>4, <2>2 DEF RemovalDone
  <2> QED BY <1>4, <1>5, <2>2, <2>3 DEF RemovalDone, Leaving
<1> QED BY <1>2, <1>3, <1>7, <1>8, <1>10, <1>11 DEF ConsentInv

LEMMA AdditionKeepsConsentInv ==
    ASSUME ConsentInv, NEW d \in DataSetIds, NEW op \in AddPiecesOps, PiecesAdded(d, op),
           NEW p, p = dataSetInfo[d].payer
    PROVE  ConsentInv' /\ p \in Payers /\ Fresh(p, op) /\ CarriedOut(p, op)
<1>0. p \in Payers
  BY Stages DEF PiecesAdded, ConsentInv, TypeOK
<1>1. op \in SingleUse /\ op \in Ops /\ NumberOf(op) = op.nonce
  BY KindsOfOps
<1>2. Fresh(p, op) /\ CarriedOut(p, op)
  BY <1>0, <1>1, UnusedMeansFresh DEF PiecesAdded, UseNonce, NonceUnused
<1>3. TypeOK' /\ TimeRuns' /\ GrantsAreKept'
  BY ServiceKeepsConsent DEF Service
<1>4. /\ clientNonces' = [clientNonces EXCEPT ![p] = @ \cup {op.nonce}]
      /\ dataSetInfo' = dataSetInfo /\ removals' = removals
      /\ clientNonces \in [Payers -> SUBSET Numbers]
  BY DEF PiecesAdded, UseNonce, ConsentInv, TypeOK
<1>5. \A q \in Payers : clientNonces[q] \subseteq clientNonces'[q]
  BY <1>4
<1>6. \A e \in DataSetIds, i \in PieceIds : pieces[e][i] = Gone => pieces'[e][i] = Gone
  <2>1. PICK n \in PieceIds : NewPiece(d, n) /\ pieces' = [pieces EXCEPT ![d][n] = op.content]
    BY DEF PiecesAdded
  <2>2. pieces[d][n] # Gone
    BY <2>1 DEF NewPiece, NoPiece, Gone
  <2>3. pieces \in [DataSetIds -> [PieceIds -> Contents \cup {NoPiece, Gone}]]
    BY DEF ConsentInv, TypeOK
  <2> QED BY <2>1, <2>2, <2>3
<1>7. SpentNumbersStaySpent'
  <2> SUFFICES ASSUME NEW q \in Payers, NEW other \in SingleUse, carriedOut'[<<q, other>>] > 0
               PROVE  NumberOf(other) \in clientNonces'[q]
    BY DEF SpentNumbersStaySpent
  <2>1. carriedOut[<<q, other>>] > 0 \/ (q = p /\ other = op)
    BY <1>0, <1>1, <1>2, KindsOfOps, OneMoreCarriedOut
  <2> QED BY <1>0, <1>1, <1>4, <1>5, <2>1 DEF ConsentInv, SpentNumbersStaySpent
<1>8. DataSetsSpendTheirNumber' /\ OneDataSetPerNumber'
  BY <1>4, <1>5 DEF ConsentInv, DataSetsSpendTheirNumber, OneDataSetPerNumber, Owned
<1>9. RemovalsAreDoneForGood'
  <2> SUFFICES ASSUME NEW q \in Payers, NEW other \in SchedulePieceRemovalsOps,
                      carriedOut'[<<q, other>>] > 0
               PROVE  RemovalDone(q, other)'
    BY DEF RemovalsAreDoneForGood
  <2>1. carriedOut[<<q, other>>] > 0
    BY <1>0, <1>1, <1>2, KindsOfOps, OneMoreCarriedOut
  <2>2. RemovalDone(q, other)
    BY <2>1 DEF ConsentInv, RemovalsAreDoneForGood
  <2>3. other.pieceIds \subseteq PieceIds
    BY DEF SchedulePieceRemovalsOps
  <2> QED BY <1>4, <1>5, <1>6, <2>2, <2>3 DEF RemovalDone, Leaving
<1> QED BY <1>0, <1>2, <1>3, <1>7, <1>8, <1>9 DEF ConsentInv

LEMMA RemovalKeepsConsentInv ==
    ASSUME ConsentInv, NEW d \in DataSetIds, NEW op \in SchedulePieceRemovalsOps,
           PiecesScheduledRemove(d, op), NEW p, p = dataSetInfo[d].payer
    PROVE  ConsentInv' /\ p \in Payers /\ Fresh(p, op) /\ CarriedOut(p, op)
<1>1. p \in Payers /\ op \in Ops /\ Fresh(p, op) /\ CarriedOut(p, op)
  BY RemovableMeansFresh, KindsOfOps DEF Owned, PiecesScheduledRemove
<1>2. TypeOK' /\ TimeRuns' /\ GrantsAreKept'
  BY ServiceKeepsConsent DEF Service
<1>3. /\ clientNonces' = clientNonces /\ dataSetInfo' = dataSetInfo /\ pieces' = pieces
      /\ removals' = [removals EXCEPT ![d] = @ \cup op.pieceIds]
      /\ removals \in [DataSetIds -> SUBSET PieceIds]
      /\ op.clientDataSetId = dataSetInfo[d].clientDataSetId
  BY DEF PiecesScheduledRemove, ConsentInv, TypeOK
<1>4. SpentNumbersStaySpent'
  <2> SUFFICES ASSUME NEW q \in Payers, NEW other \in SingleUse, carriedOut'[<<q, other>>] > 0
               PROVE  NumberOf(other) \in clientNonces'[q]
    BY DEF SpentNumbersStaySpent
  <2>1. carriedOut[<<q, other>>] > 0
    BY <1>1, KindsOfOps, OneMoreCarriedOut
  <2> QED BY <1>3, <2>1 DEF ConsentInv, SpentNumbersStaySpent
<1>5. DataSetsSpendTheirNumber' /\ OneDataSetPerNumber'
  BY <1>3 DEF ConsentInv, DataSetsSpendTheirNumber, OneDataSetPerNumber, Owned
<1>6. \A e \in DataSetIds, i \in PieceIds : Leaving(e, i) => Leaving(e, i)'
  BY <1>3 DEF Leaving
<1>7. RemovalDone(p, op)'
  <2>1. op.clientDataSetId \in clientNonces'[p]
    BY <1>1, <1>3 DEF ConsentInv, DataSetsSpendTheirNumber, Owned
  <2>2. ASSUME NEW e \in DataSetIds, dataSetInfo'[e].payer = p,
               dataSetInfo'[e].clientDataSetId = op.clientDataSetId
        PROVE  e = d
    BY <1>1, <1>3, <2>2 DEF ConsentInv, OneDataSetPerNumber, Owned
  <2>3. \A i \in op.pieceIds : Leaving(d, i)'
    BY <1>3 DEF Leaving
  <2> QED BY <2>1, <2>2, <2>3 DEF RemovalDone
<1>8. RemovalsAreDoneForGood'
  <2> SUFFICES ASSUME NEW q \in Payers, NEW other \in SchedulePieceRemovalsOps,
                      carriedOut'[<<q, other>>] > 0
               PROVE  RemovalDone(q, other)'
    BY DEF RemovalsAreDoneForGood
  <2>1. CASE q = p /\ other = op
    BY <1>7, <2>1
  <2>2. CASE carriedOut[<<q, other>>] > 0
    <3>1. RemovalDone(q, other)
      BY <2>2 DEF ConsentInv, RemovalsAreDoneForGood
    <3>2. other.pieceIds \subseteq PieceIds
      BY DEF SchedulePieceRemovalsOps
    <3> QED BY <1>3, <1>6, <3>1, <3>2 DEF RemovalDone
  <2> QED BY <1>1, <2>1, <2>2, KindsOfOps, OneMoreCarriedOut
<1> QED BY <1>1, <1>2, <1>4, <1>5, <1>8 DEF ConsentInv

----------------------------------------------------------------------------
(* The rest of a data set's life *)

LEMMA LifeKeepsConsentInv ==
    ASSUME ConsentInv, NEW d \in DataSetIds,
           RemovalsTakeEffect(d) \/ EndComesNearer(d) \/ DataSetDeleted(d)
    PROVE  ConsentInv' /\ carriedOut' = carriedOut
<1>1. carriedOut' = carriedOut /\ clientNonces' = clientNonces
  BY DEF RemovalsTakeEffect, EndComesNearer, DataSetDeleted
<1>2. TypeOK' /\ TimeRuns' /\ GrantsAreKept'
  BY ServiceKeepsConsent DEF Service
<1>3. SpentNumbersStaySpent'
  BY <1>1 DEF ConsentInv, SpentNumbersStaySpent
<1>4. \A e \in DataSetIds : Owned(e)' =>
          Owned(e) /\ dataSetInfo'[e].payer = dataSetInfo[e].payer
          /\ dataSetInfo'[e].clientDataSetId = dataSetInfo[e].clientDataSetId
  <2>0. dataSetInfo \in [DataSetIds -> DataSetInfos]
    BY DEF ConsentInv, TypeOK
  <2>1. CASE RemovalsTakeEffect(d)
    BY <2>1 DEF RemovalsTakeEffect, Owned
  <2>2. CASE EndComesNearer(d)
    <3>1. \E stage : dataSetInfo' = [dataSetInfo EXCEPT ![d] = [dataSetInfo[d] EXCEPT !.stage = stage]]
      BY <2>2 DEF EndComesNearer
    <3>2. dataSetInfo[d] \in Running
      BY <2>0, <2>2, Stages DEF EndComesNearer
    <3> QED BY <2>0, <3>1, <3>2 DEF Owned, Running
  <2>3. CASE DataSetDeleted(d)
    <3>1. dataSetInfo' = [dataSetInfo EXCEPT ![d] = [NoDataSet EXCEPT !.stage = "deleted"]]
      BY <2>3 DEF DataSetDeleted
    <3>2. [NoDataSet EXCEPT !.stage = "deleted"].payer \notin Payers
      BY DEF NoDataSet
    <3> QED BY <2>0, <3>1, <3>2 DEF Owned
  <2> QED BY <2>1, <2>2, <2>3
<1>5. DataSetsSpendTheirNumber'
  BY <1>1, <1>4 DEF ConsentInv, DataSetsSpendTheirNumber
<1>6. OneDataSetPerNumber'
  <2> SUFFICES ASSUME NEW e \in DataSetIds, NEW g \in DataSetIds, Owned(e)',
                      dataSetInfo'[e].payer = dataSetInfo'[g].payer,
                      dataSetInfo'[e].clientDataSetId = dataSetInfo'[g].clientDataSetId
               PROVE  e = g
    BY DEF OneDataSetPerNumber
  <2>1. Owned(g)'
    BY DEF Owned
  <2> QED BY <1>4, <2>1 DEF ConsentInv, OneDataSetPerNumber
<1>7. \A e \in DataSetIds, i \in PieceIds : Leaving(e, i) => Leaving(e, i)'
  <2>1. CASE RemovalsTakeEffect(d)
    <3>1. /\ pieces \in [DataSetIds -> [PieceIds -> Contents \cup {NoPiece, Gone}]]
          /\ removals \in [DataSetIds -> SUBSET PieceIds]
      BY DEF ConsentInv, TypeOK
    <3>2. \A e \in DataSetIds \ {d} : pieces'[e] = pieces[e] /\ removals'[e] = removals[e]
      BY <2>1, <3>1 DEF RemovalsTakeEffect
    <3>3. \A i \in PieceIds : Leaving(d, i) => pieces'[d][i] = Gone
      BY <2>1, <3>1 DEF RemovalsTakeEffect, Leaving
    <3> QED BY <3>2, <3>3 DEF Leaving
  <2>2. CASE EndComesNearer(d) \/ DataSetDeleted(d)
    BY <2>2 DEF EndComesNearer, DataSetDeleted, Leaving
  <2> QED BY <2>1, <2>2
<1>8. RemovalsAreDoneForGood'
  <2> SUFFICES ASSUME NEW q \in Payers, NEW other \in SchedulePieceRemovalsOps,
                      carriedOut'[<<q, other>>] > 0
               PROVE  RemovalDone(q, other)'
    BY DEF RemovalsAreDoneForGood
  <2>1. RemovalDone(q, other)
    BY <1>1 DEF ConsentInv, RemovalsAreDoneForGood
  <2>2. other.pieceIds \subseteq PieceIds
    BY DEF SchedulePieceRemovalsOps
  <2>3. ASSUME NEW e \in DataSetIds, dataSetInfo'[e].payer = q,
               dataSetInfo'[e].clientDataSetId = other.clientDataSetId, NEW i \in other.pieceIds
        PROVE  Leaving(e, i)'
    <3>1. dataSetInfo[e].payer = q /\ dataSetInfo[e].clientDataSetId = other.clientDataSetId
      BY <1>4, <2>3 DEF Owned
    <3> QED BY <1>7, <2>1, <2>2, <3>1 DEF RemovalDone
  <2> QED BY <1>1, <2>1, <2>3 DEF RemovalDone
<1> QED BY <1>1, <1>2, <1>3, <1>5, <1>6, <1>8 DEF ConsentInv

----------------------------------------------------------------------------
(* The promise *)

LEMMA ConsentInvInit == Init => ConsentInv
<1> SUFFICES ASSUME Init
             PROVE  ConsentInv
  OBVIOUS
<1>1. TimeRuns /\ GrantsAreKept
  BY DEF Init, TimeRuns, GrantsAreKept
<1>2. \A o \in Orders : ~(carriedOut[o] > 0)
  BY DEF Init
<1>3. SpentNumbersStaySpent /\ RemovalsAreDoneForGood
  BY <1>2, KindsOfOps DEF SpentNumbersStaySpent, RemovalsAreDoneForGood, Orders
<1>4. DataSetsSpendTheirNumber /\ OneDataSetPerNumber
  BY Stages DEF Init, DataSetsSpendTheirNumber, OneDataSetPerNumber, Owned
<1> QED BY <1>1, <1>3, <1>4, TypeInit DEF ConsentInv

\* A fresh order that is counted is a step of the abstract specification.
LEMMA FreshIsCarryOut ==
    ASSUME NEW p \in Payers, NEW op \in Ops, Fresh(p, op), CarriedOut(p, op), Wanted' = Wanted
    PROVE  Promise!Next
<1>1. <<p, op>> \in Orders
  BY DEF Orders
<1>2. Promise!CarryOut(<<p, op>>)
  BY DEF Promise!CarryOut, Fresh, CarriedOut
<1> QED BY <1>1, <1>2 DEF Promise!Next

\* Every step keeps the invariant, and is a step of the promise or none at all.
LEMMA StepKeepsPromise ==
    ASSUME ConsentInv, [Next]_vars
    PROVE  ConsentInv' /\ [Promise!Next]_<<Wanted, carriedOut>>
<1>1. CASE UNCHANGED vars
  <2>1. ConsentInv'
    BY <1>1, ContractsUnchanged DEF ConsentInv, vars, consent, contracts, dataSets, TypeOK,
           TimeRuns, GrantsAreKept
  <2>2. Wanted' = Wanted /\ carriedOut' = carriedOut
    BY <1>1 DEF vars, consent, Wanted
  <2> QED BY <2>1, <2>2
<1>2. CASE NewBlock
  <2>1. Wanted' = Wanted /\ carriedOut' = carriedOut
    BY <1>2 DEF NewBlock, consent, Wanted
  <2> QED BY <1>2, <2>1, NewBlockKeepsConsentInv
<1>3. CASE Client
  <2>1. ConsentInv' /\ signatures \subseteq signatures' /\ grants \subseteq grants'
        /\ carriedOut' = carriedOut
    BY <1>3, ClientKeepsConsentInv
  <2>2. Promise!Want
    BY <2>1, WantedGrows DEF Promise!Want
  <2> QED BY <2>1, <2>2 DEF Promise!Next
<1>4. CASE Service
  <2>1. Wanted' = Wanted
    BY <1>4, ServiceKeepsConsent
  <2>2. ASSUME NEW d \in DataSetIds, NEW p \in Payers, NEW op \in CreateDataSetOps,
               DataSetCreated(d, p, op)
        PROVE  ConsentInv' /\ Promise!Next
    BY <2>1, <2>2, CreationKeepsConsentInv, KindsOfOps, FreshIsCarryOut
  <2>3. ASSUME NEW d \in DataSetIds, NEW op \in AddPiecesOps, PiecesAdded(d, op)
        PROVE  ConsentInv' /\ Promise!Next
    BY <2>1, <2>3, AdditionKeepsConsentInv, KindsOfOps, FreshIsCarryOut
  <2>4. ASSUME NEW d \in DataSetIds, NEW op \in SchedulePieceRemovalsOps,
               PiecesScheduledRemove(d, op)
        PROVE  ConsentInv' /\ Promise!Next
    BY <2>1, <2>4, RemovalKeepsConsentInv, KindsOfOps, FreshIsCarryOut
  <2>5. ASSUME NEW d \in DataSetIds,
               RemovalsTakeEffect(d) \/ EndComesNearer(d) \/ DataSetDeleted(d)
        PROVE  ConsentInv' /\ carriedOut' = carriedOut
    BY <2>5, LifeKeepsConsentInv
  <2> QED BY <1>4, <2>1, <2>2, <2>3, <2>4, <2>5 DEF Service
<1> QED BY <1>1, <1>2, <1>3, <1>4 DEF Next

\* For any number of payers, keys, data sets and signatures, and whatever is submitted when
\* and how often, the service carries out what was ordered, once: it implements Consent.
THEOREM ServiceImplementsConsent == Spec => ImplementsConsent
<1>1. Init => Promise!Init
  BY DEF Init, Promise!Init, Wanted
<1>2. ConsentInv /\ [Next]_vars => ConsentInv' /\ [Promise!Next]_<<Wanted, carriedOut>>
  BY StepKeepsPromise
<1> QED BY <1>1, <1>2, ConsentInvInit, PTL DEF Spec, ImplementsConsent, Promise!Spec

----------------------------------------------------------------------------
(* What data sets hold *)

WantedFor(d, content) ==
    \E op \in AddPiecesOps :
        /\ op.clientDataSetId = dataSetInfo[d].clientDataSetId
        /\ op.content = content
        /\ <<dataSetInfo[d].payer, op>> \in Wanted

CreationWanted(d) ==
    \E op \in CreateDataSetOps :
        /\ op.clientDataSetId = dataSetInfo[d].clientDataSetId /\ op.payee = dataSetInfo[d].payee
        /\ <<dataSetInfo[d].payer, op>> \in Wanted

Holdings(d) ==
    /\ Owned(d) => CreationWanted(d)
    /\ Owned(d) => \A i \in PieceIds : pieces[d][i] \in Contents => WantedFor(d, pieces[d][i])
    /\ dataSetInfo[d].stage = "none" => \A i \in PieceIds : pieces[d][i] = NoPiece

HoldingsInv == ConsentInv /\ \A d \in DataSetIds : Holdings(d)

\* A step that may add to what is wanted and takes or renames nothing.
LEMMA NothingNewHeld ==
    ASSUME NEW d \in DataSetIds, Holdings(d), Wanted \subseteq Wanted',
           Owned(d)' => /\ Owned(d) /\ dataSetInfo'[d].payer = dataSetInfo[d].payer
                        /\ dataSetInfo'[d].payee = dataSetInfo[d].payee
                        /\ dataSetInfo'[d].clientDataSetId = dataSetInfo[d].clientDataSetId,
           dataSetInfo'[d].stage = "none" => dataSetInfo[d].stage = "none" /\ pieces'[d] = pieces[d],
           \A i \in PieceIds : pieces'[d][i] \in {pieces[d][i], Gone}
    PROVE  Holdings(d)'
<1>1. Owned(d)' => CreationWanted(d)'
  BY DEF Holdings, CreationWanted
<1>2. ASSUME Owned(d)', NEW i \in PieceIds, pieces'[d][i] \in Contents
      PROVE  WantedFor(d, pieces[d][i])' /\ pieces'[d][i] = pieces[d][i]
  <2>1. pieces'[d][i] = pieces[d][i]
    BY <1>2, ContentsAssumption DEF Gone
  <2>2. WantedFor(d, pieces[d][i])
    BY <1>2, <2>1 DEF Holdings
  <2> QED BY <1>2, <2>1, <2>2 DEF WantedFor
<1> QED BY <1>1, <1>2 DEF Holdings

LEMMA ServiceKeepsHoldings ==
    ASSUME HoldingsInv, Service, NEW d \in DataSetIds
    PROVE  Holdings(d)'
<1>0. /\ ConsentInv /\ Holdings(d) /\ Wanted' = Wanted
      /\ dataSetInfo \in [DataSetIds -> DataSetInfos]
      /\ pieces \in [DataSetIds -> [PieceIds -> Contents \cup {NoPiece, Gone}]]
  BY ServiceKeepsConsent DEF HoldingsInv, ConsentInv, TypeOK
<1>1. ASSUME NEW e \in DataSetIds, NEW p \in Payers, NEW op \in CreateDataSetOps,
             DataSetCreated(e, p, op)
      PROVE  Holdings(d)'
  <2>1. <<p, op>> \in Wanted
    BY <1>0, <1>1, KindsOfOps, CreationKeepsConsentInv DEF Fresh
  <2>2. /\ pieces' = pieces /\ dataSetInfo[e].stage = "none"
        /\ dataSetInfo' = [dataSetInfo EXCEPT ![e] =
              [payer |-> p, payee |-> op.payee, clientDataSetId |-> op.clientDataSetId, stage |-> "live"]]
    BY <1>1 DEF DataSetCreated, NewDataSet
  <2>3. CASE d = e
    <3>1. dataSetInfo'[d] = [payer |-> p, payee |-> op.payee,
                             clientDataSetId |-> op.clientDataSetId, stage |-> "live"]
      BY <1>0, <2>2, <2>3
    <3>2. CreationWanted(d)'
      <4>1. /\ dataSetInfo'[d].payer = p /\ dataSetInfo'[d].payee = op.payee
            /\ dataSetInfo'[d].clientDataSetId = op.clientDataSetId
        BY <3>1
      <4>2. <<p, op>> \in Wanted'
        BY <1>0, <2>1
      <4> QED BY <4>1, <4>2 DEF CreationWanted
    <3>3. \A i \in PieceIds : pieces'[d][i] \notin Contents
      BY <1>0, <2>2, <2>3, ContentsAssumption DEF Holdings, NoPiece
    <3> QED BY <3>1, <3>2, <3>3 DEF Holdings
  <2>4. CASE d # e
    BY <1>0, <2>2, <2>4, NothingNewHeld DEF Owned
  <2> QED BY <2>3, <2>4
<1>2. ASSUME NEW e \in DataSetIds, NEW op \in AddPiecesOps, PiecesAdded(e, op)
      PROVE  Holdings(d)'
  <2>1. <<dataSetInfo[e].payer, op>> \in Wanted
    BY <1>0, <1>2, AdditionKeepsConsentInv DEF Fresh
  <2>2. dataSetInfo' = dataSetInfo /\ dataSetInfo[e].stage = "live"
        /\ op.clientDataSetId = dataSetInfo[e].clientDataSetId
    BY <1>2 DEF PiecesAdded
  <2>3. PICK n \in PieceIds : pieces' = [pieces EXCEPT ![e][n] = op.content]
    BY <1>2 DEF PiecesAdded
  <2>4. CASE d = e
    <3>1. WantedFor(d, op.content)'
      BY <1>0, <2>1, <2>2, <2>4 DEF WantedFor
    <3>2. \A i \in PieceIds : i = n \/ pieces'[d][i] = pieces[d][i]
      BY <1>0, <2>3
    <3>3. pieces'[d][n] = op.content
      BY <1>0, <2>3, <2>4
    <3>4. Owned(d)' => CreationWanted(d)'
      BY <1>0, <2>2 DEF Holdings, Owned, CreationWanted
    <3>5. ASSUME Owned(d)', NEW i \in PieceIds, i # n, pieces'[d][i] \in Contents
          PROVE  WantedFor(d, pieces[d][i])'
      <4>1. pieces'[d][i] = pieces[d][i] /\ WantedFor(d, pieces[d][i])
        BY <1>0, <2>2, <3>2, <3>5 DEF Holdings, Owned
      <4> QED BY <1>0, <2>2, <4>1 DEF WantedFor
    <3> QED BY <2>2, <2>4, <3>1, <3>3, <3>4, <3>5 DEF Holdings
  <2>5. CASE d # e
    <3>1. pieces'[d] = pieces[d]
      BY <1>0, <2>3, <2>5
    <3> QED BY <1>0, <2>2, <3>1, NothingNewHeld DEF Owned
  <2> QED BY <2>4, <2>5
<1>3. ASSUME NEW e \in DataSetIds, NEW op \in SchedulePieceRemovalsOps,
             PiecesScheduledRemove(e, op)
      PROVE  Holdings(d)'
  BY <1>0, <1>3, NothingNewHeld DEF PiecesScheduledRemove, Owned
<1>4. ASSUME NEW e \in DataSetIds, RemovalsTakeEffect(e)
      PROVE  Holdings(d)'
  <2>1. dataSetInfo' = dataSetInfo /\ dataSetInfo[e].stage # "none"
    BY <1>4 DEF RemovalsTakeEffect
  <2>2. \A i \in PieceIds : pieces'[d][i] \in {pieces[d][i], Gone}
    BY <1>0, <1>4 DEF RemovalsTakeEffect
  <2>3. d # e => pieces'[d] = pieces[d]
    BY <1>0, <1>4 DEF RemovalsTakeEffect
  <2> QED BY <1>0, <2>1, <2>2, <2>3, NothingNewHeld DEF Owned
<1>5. ASSUME NEW e \in DataSetIds, EndComesNearer(e)
      PROVE  Holdings(d)'
  <2>1. PICK stage : dataSetInfo' = [dataSetInfo EXCEPT ![e] = [dataSetInfo[e] EXCEPT !.stage = stage]]
                     /\ stage # "none"
    <3>1. StageAfter(dataSetInfo[e].stage) # "none"
      BY <1>5 DEF EndComesNearer, StageAfter
    <3>2. dataSetInfo' = [dataSetInfo EXCEPT ![e] =
                            [dataSetInfo[e] EXCEPT !.stage = StageAfter(dataSetInfo[e].stage)]]
      BY <1>5 DEF EndComesNearer
    <3> QED BY <3>1, <3>2
  <2>2. dataSetInfo[e] \in Running
    BY <1>0, <1>5, Stages DEF EndComesNearer
  <2>3. dataSetInfo'[d].stage = "none" => dataSetInfo[d].stage = "none"
    BY <1>0, <2>1, <2>2 DEF Running
  <2>4. Owned(d)' => /\ Owned(d) /\ dataSetInfo'[d].payer = dataSetInfo[d].payer
                     /\ dataSetInfo'[d].payee = dataSetInfo[d].payee
                     /\ dataSetInfo'[d].clientDataSetId = dataSetInfo[d].clientDataSetId
    BY <1>0, <2>1, <2>2 DEF Owned, Running
  <2>5. pieces' = pieces
    BY <1>5 DEF EndComesNearer
  <2> QED BY <1>0, <2>3, <2>4, <2>5, NothingNewHeld
<1>6. ASSUME NEW e \in DataSetIds, DataSetDeleted(e)
      PROVE  Holdings(d)'
  <2>1. dataSetInfo' = [dataSetInfo EXCEPT ![e] = [NoDataSet EXCEPT !.stage = "deleted"]]
        /\ pieces' = pieces
    BY <1>6 DEF DataSetDeleted
  <2>2. [NoDataSet EXCEPT !.stage = "deleted"].payer \notin Payers
        /\ [NoDataSet EXCEPT !.stage = "deleted"].stage # "none"
    BY DEF NoDataSet
  <2> QED BY <1>0, <2>1, <2>2, NothingNewHeld DEF Owned
<1> QED BY <1>1, <1>2, <1>3, <1>4, <1>5, <1>6 DEF Service

\* In every state, whatever was submitted before: the pieces of a data set were ordered for
\* this data set, and its payee is the one its payer named.
THEOREM HoldingsWereOrdered == Spec => []DataSetsHoldWhatWasOrdered
<1>1. Init => HoldingsInv
  <2> SUFFICES ASSUME Init
               PROVE  \A d \in DataSetIds : Holdings(d)
    BY ConsentInvInit DEF HoldingsInv
  <2> QED BY Stages DEF Init, Holdings, Owned
<1>2. HoldingsInv /\ [Next]_vars => HoldingsInv'
  <2> SUFFICES ASSUME HoldingsInv, [Next]_vars
               PROVE  HoldingsInv'
    OBVIOUS
  <2>1. ConsentInv'
    BY StepKeepsPromise DEF HoldingsInv
  <2>2. CASE NewBlock \/ Client \/ UNCHANGED vars
    <3>1. dataSetInfo' = dataSetInfo /\ pieces' = pieces
      BY <2>2 DEF NewBlock, Client, Login, Revoke, Sign, contracts, dataSets, vars
    <3>2. signatures \subseteq signatures' /\ grants \subseteq grants'
      BY <2>2, ClientKeepsConsentInv DEF HoldingsInv, NewBlock, consent, vars
    <3> QED BY <2>1, <3>1, <3>2, WantedGrows, NothingNewHeld DEF HoldingsInv, Owned
  <2>3. CASE Service
    BY <2>1, <2>3, ServiceKeepsHoldings DEF HoldingsInv
  <2> QED BY <2>2, <2>3 DEF Next
<1>3. HoldingsInv => DataSetsHoldWhatWasOrdered
  <2> SUFFICES ASSUME HoldingsInv, NEW d \in DataSetIds, dataSetInfo[d].payer \in Payers
               PROVE  CreationWanted(d) /\ \A i \in PieceIds : pieces[d][i] \in Contents =>
                                                WantedFor(d, pieces[d][i])
    BY DEF DataSetsHoldWhatWasOrdered, CreationWanted, WantedFor
  <2> QED BY DEF HoldingsInv, Holdings, Owned
<1> QED BY <1>1, <1>2, <1>3, PTL DEF Spec

(***************************************************************************)
(* Whichever form a wallet's signature has, what Marshal of go/eip712      *)
(* makes of it recovers to the payer who signed: 65 bytes in any case, and *)
(* a v of 0 or 1 comes to the same as one of 27 or 28.                     *)
(***************************************************************************)
THEOREM MarshaledBytesAreAccepted == Spec => []MarshaledSignaturesAreAccepted
<1>1. ASSUME NEW s \in signatures, NEW f \in Forms, s.signer \in Payers, f.given # "neither"
      PROVE  Verified(s.signer, s.op, s, Marshal(f))
  <2>1. f.parity \in {0, 1} /\ f.base \in {0, 27}
    BY DEF Forms
  <2>2. /\ Marshal(f).length = 65 /\ Marshal(f).ours
        /\ Marshal(f).parity = f.parity /\ Marshal(f).v = f.base + f.parity
    BY <1>1 DEF Marshal
  <2>3. \/ f.base + f.parity = f.parity /\ f.parity < 27
        \/ f.base + f.parity = 27 + f.parity
    BY <2>1
  <2>4. ~(27 + f.parity < 27) /\ f.parity + 27 = 27 + f.parity
    BY <2>1
  <2>5. AdjustedV(f.base + f.parity) = 27 + f.parity
    BY <2>3, <2>4 DEF AdjustedV
  <2>6. 27 + f.parity \in {27, 28}
    BY <2>1
  <2>7. ~Malformed(Marshal(f)) /\ RecoverSigner(s.op, s, Marshal(f)) = s.signer
    BY <2>2, <2>5, <2>6 DEF Malformed, RecoverSigner
  <2>8. QED BY <2>7 DEF Verified
<1>2. MarshaledSignaturesAreAccepted
  BY <1>1 DEF MarshaledSignaturesAreAccepted
<1>3. QED BY <1>2, PTL
=============================================================================
