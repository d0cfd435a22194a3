# Filecoin Warm Storage Service in TLA+

This directory holds a verification development for the contracts of this
repository, above all `FilecoinWarmStorageService.sol`, and for the Go code beside them: TLA+ modules that
model each part between its neighbours, TLC configurations that check them on small
instances, and proofs, checked by TLAPS, of theorems that hold for every
instance. File references are relative to the repository root; `FWSS` below is
`service_contracts/src/FilecoinWarmStorageService.sol`.

## 1. Inventory of the system

### How the parts interact

    client / provider --> PDPVerifier --(PDPListener callbacks)--> FWSS
    client, provider, FilBeam controller, owner ---------------> FWSS
    FWSS --(createRail, modifyRail*, terminateRail, settleRail)--> FilecoinPayV1
    anyone --(settleRail)--> FilecoinPayV1 --(validatePayment, railTerminated)--> FWSS
    FWSS --> ServiceProviderRegistry (is the provider registered?), session keys
    StateView / dApps --(extsload)--> FWSS

    client --(go/eip712: signs an order)--> provider --(extraData)--> PDPVerifier --> FWSS
    FWSS reverts --> node's message --(go/evmerrors)--> client
    node of local development --(ChainNotify, ChainHead)--> mock RPC server --(polls)--> Anvil

A transaction is atomic, its nested calls included: a call chain such as
`terminateService -> terminateRail -> railTerminated` cannot be interrupted, so it
is one step. Transactions of different actors interleave freely, several in
one block; `block.number` moves between blocks.

### Components

| component | state | operations |
|---|---|---|
| **FWSS: data sets** | `dataSetInfo`, `clientNonces`, `clientDataSets`, `railToDataSet`, data set and piece metadata (`withCDN` key), scheduled removals | `dataSetCreated`, `piecesAdded`, `piecesScheduledRemove`, `dataSetDeleted`, `storageProviderChanged` |
| **FWSS: proving** | `provingDeadlines`, `provenThisPeriod`, `provenPeriods` (a bitmap), `provingActivationEpoch`; `maxProvingPeriod`, `challengeWindowSize` | `nextProvingPeriod`, `possessionProven`, `configureProvingPeriod` |
| **FWSS: payment** | up to three rails per data set, prices | `updatePaymentRates`, `validatePayment`, `railTerminated`, `terminateService`, `terminateCDNService`, `settleFilBeamPaymentRails`, `topUpCDNPaymentRails`, `updatePricing` |
| **FWSS: administration** | approved providers, controller and view addresses, commission, announced upgrade | `addApprovedProvider`, `removeApprovedProvider`, `transferFilBeamController`, `setViewContract`, `announcePlannedUpgrade`, `_authorizeUpgrade`, `migrate` |
| **Signatures** (`lib/SignatureVerificationLib.sol`, `go/eip712`) | none; read nonces and the registry of session keys | hashing, signing, marshaling and verification of the three signed operations, encoding of their extraData |
| **Error bindings** (`go/evmerrors`) | a generated catalogue of errors | parsing of messages, decoding of revert data, the generator |
| **ServiceProviderRegistry**, **ProviderIdSet** | providers, products, capability keys, counters; a packed set of ids | registration, update, removal, product management, paginated queries |
| **FilecoinPayV1** (external) | rails: rate, queue of earlier rates, `settledUpTo`, `endEpoch`, fixed lockup; accounts | see above |
| **PDPVerifier** (external) | pieces, scheduled removals, challenge epoch, liveness of a data set | creates, proves and advances data sets and calls the listener back |
| **Mock RPC server** (`service_contracts/localdev/mockrpc/main.go`) | head, subscriptions, a goroutine per connection, subscription and for the chain | `watchBlocks`, `handleWebSocket`, `handleChainNotify`, `handleChainHead`, `sendInitialNotification`, clean-up |
| views, layout, Extsload, generated Go bindings, scripts | none of their own | read-only or generated |

### What is hard here, and what makes the parts correct

* *Arbitrated settlement.* A rail may be settled by anyone, at any time, up to
  any epoch that has passed. `FilecoinPay` cuts the range at every rate change and
  asks `validatePayment` about each piece, so partial periods, periods that are still open,
  and periods that were missed meet in every combination. Correct means: each
  epoch is paid at its own rate iff the period it lies in was proven, once,
  and settlement never passes an epoch whose proof may still arrive, yet is never
  stuck once all deadlines are over.
* *The proving schedule.* `nextProvingPeriod` may come early, late by several periods,
  or never; the deadline it sets must be one of the grid laid at activation, since
  payment is computed from the grid and proofs are taken by the deadline.
* *The end of a service.* Termination sets an end epoch counted from the last
  epoch the payer funded, leaves the provider a lockup period in which it proves and
  is paid, forbids additions, allows removals; deletion must wait until the rail is
  settled, because it erases what arbitration reads.
* *CDN rails*, which are terminated by three parties, one of them behind the
  contract's back.
* *Replays*: creation and addition share one nonce space per client, removals have no nonce. A signature
  is submitted by somebody else than its signer, later, perhaps again, perhaps for another data set, and checked against
  permissions as they are then.
* *Two encodings of one order*: the client signs structs, the provider submits parallel arrays.
* *Errors*: revert data arrives inside a message of unknown shape; decoders and structs are generated from one ABI by
  different rules, and the list may be older than the contracts.
* *The mock server* writes to slow clients while it holds up to three locks, and several goroutines
  change a subscription whose lock they give back in between.
* *The registry*: a provider that leaves keeps its record and frees its address; pages are sized by
  counters and filled from records; capability values lie apart from the keys that list them.
* *The packed id set*: additions and removals stop at the first empty slot, so no hole may ever arise.
* *The owner's lists and plans*: an index or an upgrade's calldata is made, and signed by the owners of a
  multisig later, when the list or the plan may be another.
* *Changed parameters*: prices and proving periods change under running data sets.

`PROJECT.json` lists each hazard at its line with the properties that cover it.

## 2. Plan

Order of work, the most important first. Modules marked done exist.

1. `ProvingPeriods` (done): period arithmetic and arbitration as pure operators.
2. `ProvenEpochsLoop` (done): the loop of `_findProvenEpochs` as the contract
   runs it, against the closed form and against the declarative rules.
3. `FilecoinPay` (done): rails as the service relies on them.
4. `FilecoinWarmStorageService`, `WarmStorageProperties`, `MCWarmStorage`
   (done): the service composed with its neighbours.
5. `ArithmeticLemmas`, `WarmStorageProofs` (done): type correctness, nonces, `ArbitrationWithinBounds`;
   that a rail keeps its data set until it is settled, that the service, PDPVerifier and FilecoinPay agree on
   what there is, and that missed proofs never block settlement.
6. `PaymentProofs` (done): the grid, that settlement waits for a period that can still be proven, and that
   payment is exactly what proofs earned. `LoopProofs` (done): the loop is the closed form, for every input.
7. `ArbitratedPayment` (done): the promise of payment with arbitration, without rails, rate
   changes, periods or deadlines. The service implements it under a refinement mapping, which TLC
   checks and `PaymentProofs` proves.
8. `IdSet`, `ProviderIdSet` (done): the packed array as a refinement of a
   set of ids. `ServiceProviderRegistry`, `RegistryQueries` (done):
   registration after removal, capabilities, counters and paged queries. `ProviderDirectory`,
   `MCDirectory`, `DirectoryProofs` (done): all of them side by side, and the proofs.
9. `Consent`, `Authorization`, `AuthorizationProofs`, `MCAuthorization` (done): who may order what, for how long,
   and what can be replayed, as a refinement of what clients consented to.
10. `OrderEncoding`, `ErrorCatalogue`, `ErrorParsing`, `GoClient`, `ClientProofs` (done): the Go packages around one transaction.
11. `MockRpc`, `MockRpcProofs` (done): goroutines, locks, and the ordering of head-change notifications.
12. `ApprovedProviders`, `Upgrades` (done): approvals with swap-and-pop, the announce and
    authorize gate of upgrades. Both join `ProviderDirectory`; their proofs are in
    `DirectoryProofs`. Commission and the transfer of the controller are left.
13. Two data sets of one payer who runs dry. They share the account lockup in the model; the theorems
    hold for any number of them, the run `insolvency` has one. A larger instance is left, as TLC's check of what is proved.

At most a dozen runs are kept: when later modules bring their own, runs whose question
a stronger one covers are merged.

## 3. The modules

`FilecoinWarmStorageService` EXTENDS `FilecoinPay` and `ProvingPeriods`;
`WarmStorageProperties` adds the properties, `MCWarmStorage` the small instances.

### ProvingPeriods

| definition | code |
|---|---|
| `ProvingPeriodForEpoch`, `CalcPeriodDeadline` | `_provingPeriodForEpoch`, `_calcPeriodDeadline` (FWSS:1354, 1743) |
| `FindProvenEpochs` | `_findProvenEpochs` (FWSS:1707) |
| `ValidatePayment` | `validatePayment` (FWSS:1636) without its data set lookup, which is `Outcomes` of the main module |

`FindProvenEpochs` has no loop: the epochs of proven periods are collected in a set
and counted, and `settleUpTo` is the largest end of a proven or faulted period. That it
computes what the loop computes is checked in `ProvenEpochsLoop`. A range
that ends before activation reverts; one that ends exactly at the activation epoch makes
`endingPeriod` `type(uint256).max`, and the loop runs out of gas: both are `Reverted`.
Amounts are exact: the prorated amount is `rate * provenEpochs` and the division leaves no
remainder, since the proposed amount is the rate times the length of the range.

### ArbitratedPayment

The abstract specification of payment: the time, a price per epoch and data set, and an account per data set
(earned epochs, settled up to, paid). `NewEpoch` fixes the price of the epoch that begins and changes no other; `Prove` earns an interval
around the present of which nothing new is settled already; `Settle` pays the earned epochs it passes, at their prices; `Leave` ends arbitration.
The mapping is `AccountOf` of `WarmStorageProperties`: accounts are those of the data sets that are `Arbitrated`, and
an account and the prices are read off `audit`. Every other action of the contract must be a stutter here. What the abstract specification adds to
`PaidExactlyForProvenEpochs` is about steps: no proof earns what was passed over, and no single settlement pays too
little first and too much later. A data set leaves when its payer settles without the validator, or when
proving is started again on a data set that was emptied (run `restart`), where the code keeps no such promise.
What this amounts to is stated in the module itself and proved of it: `PaidForTheEarned` and `SettledForGood` (section 5).

### FilecoinPay (external)

Rails as records and calls as operators on one rail. The service relies on:
rate changes are queued (`SetRate`), a terminated rail may only lower its rate before its end
(`CanSetRate`), a settlement goes through the segments and stops at the first that is not
settled whole (`LastSegment`), an answer out of bounds or a refusal reverts
(`AcceptsOutcome`, `CanSettle`), and a rail settled to its end is finalized. Funds are abstracted to
*solvent* or *dry since an epoch* (`dryAt` of the main module): what the service can tell apart is
how far a lockup is settled. Operator approvals, fees, and amounts in accounts are left out.

### FilecoinWarmStorageService

The variables carry the contract's own names. `provenPeriods[d]` is the set of marked
bits; `withCDN[d]` says whether the metadata key is there; `pieceMetadata[d]` is the set of pieces
with metadata; `pdp` is what PDPVerifier holds; `audit` is a history
variable which no guard reads: the epochs that accepted proofs cover, the rate of each epoch, what was
paid and how far, how often proving started, and whether the payer gave up arbitration.

| action | code |
|---|---|
| `DataSetCreated`, `DataSetDeleted`, `PiecesAdded`, `PiecesScheduledRemove` | the callbacks of those names |
| `PossessionProven` | `possessionProven` |
| `StartProving`, `AdvanceProvingPeriod` (`NextProvingPeriod`) | the two branches of `nextProvingPeriod`, with `processScheduledPieceMetadataRemovals` and the rate update that follows it |
| `TerminateService` | `terminateService`, FilecoinPay's `terminateRail`, `railTerminated`, and the try/catch around the CDN rails |
| `TerminateCDNService`, `SettleFilBeamPaymentRails`, `TopUpCDNPaymentRails` | the functions of those names |
| `UpdatePricing`, `ConfigureProvingPeriod` | the owner's functions |
| `SettleRail` | `FilecoinPay.settleRail` with one `validatePayment` per segment |
| `SettleTerminatedRailWithoutValidation`, `PayerTerminatesRail` | the payer's calls at FilecoinPay |
| `RunDry`, `Deposit`, `NewEpoch` | the payer's funds and the chain |

Data that no property tells apart is left out: addresses, metadata other than `withCDN`, piece
contents (a data set's size is its number of pieces, `PiecesPerUnit` of which cost one price unit),
signature bytes (a signature is its nonce; only what a client signed is submitted). Prices are per epoch: the division that makes
a rate per epoch of the minimum per month (FWSS:1429) is left out. Of the rails that one `terminateService` ends, each end is counted from
the payer's lockup before the call, although the end of the PDP rail may make a dry payer solvent before the CDN rails end; no property reads a CDN rail's end.

### WarmStorageProperties

The promises; each is stated in a comment above its definition, and named in the table of runs below.

### ProvenEpochsLoop

One step per iteration of the loop, from every bounded input.

### ServiceProviderRegistry, RegistryQueries

The variables carry the contract's names. PDP is the only product type the contract takes, so what it
keeps per product type is kept once. The actions are the transactions of a provider:
`RegisterProvider`, `AddProduct`, `UpdateProduct`, `RemoveProduct`, `UpdateProviderInfo`,
`RemoveProvider`. They take any list of keys, repeated keys and empty values included.
`Written` and `Cleared` are the loops over `productCapabilities`; the Bloom
filter of required keys is a set of bits, with `KeyBits` as large as one likes, so a key that merely
looks required is one of the cases. `RegistryQueries` has the views that compute something: `Page` is the paging
of the two list functions, sized by a counter and filled by a walk over the
records, with unfilled places left blank and the overflow of `offset + limit` a revert.

### IdSet, ProviderIdSet

`ProviderIdSet` is the packed array with `SlotsPerWord` ids to a word (8 in the contract).
`Stops` and `First` are the early exits of the loops, `MoveLastTo` the case analysis of `removeProviderId`,
`Seen` what the readers' `while (word != 0)` visits. `IdSet` is the promise: a set, an addition,
a removal that needs its element. `ImplementsIdSet` says that the array implements it with
`Members` as the refinement mapping and that each call does what its namesake does.

### ApprovedProviders

`approvedProviders` and `approvedProviderIds` of FWSS, with `AddApprovedProvider`, `RemoveApprovedProvider` at
any index the owner names, and the two readers of the state library, `GetApprovedProviders` with its pages, the overflow of
`offset + limit` included, and `IsProviderApproved`.

### Upgrades

The gate that FWSS and ServiceProviderRegistry share: `AnnouncePlannedUpgrade`, `UpgradeTo` and `UpgradeToAndMigrate`
(`upgradeToAndCall` with `_authorizeUpgrade`, without and with the `migrate` call of the scripts), `Migrate` by itself, and
`SetViewContract`. An implementation is deployed with a number one above the counter the proxy had at that moment, as the deployment script does:
of two implementations deployed at one counter the second to be upgraded to cannot run its migration, so that the
script's upgrade reverts and another implementation must be deployed. `UpgradeTo` has the library's demand that code is there,
without which the plan that is not there, address 0 from epoch 0 on, would authorize an upgrade. `notice` is a
history variable: what was announced last, and when.

### ProviderDirectory

The registry beside a `ProviderIdSet` that holds the endorsed providers, the approved providers, and the gate of upgrades.
No part calls or reads another; their transactions interleave. Because they share no variable the product is cut by two named bounds:
ids are endorsed or approved in one behaviour, not both, and upgrades happen while nobody is registered, endorsed or approved.

### Consent, Authorization

`Consent` is the promise to a client: an order is carried out only while somebody wants it, at most once, and
never beside one it conflicts with. Wanting is never taken back, since a signature cannot be.

`Authorization` is the service seen through the signed operations. Clients and session keys sign typed data
(`Sign`, whose digest is type and fields: `Digest`), the registry of session keys keeps an expiry per payer, key and type
(`Login`, `Revoke`), and the three callbacks take whatever pair of an order and a signature is submitted
if `Authorized` holds: bytes in the forms a Go client marshals, with V from 0 or from 27 on and either parity, or in others (`Marshal`, `OtherBytes`), recovered (`RecoverSigner`) and
checked (`Verified`). Of a data set there is what these operations read and write; prices, proofs and rails
are in `FilecoinWarmStorageService`, where a signature is just its nonce. `ImplementsConsent` maps `wanted` to the orders that a payer or a key that was ever
permitted signed, and two creations or additions of a payer with one number to a conflict.

PDPVerifier is assumed to give out ids in order and to refuse removals of pieces that are not there or already
scheduled; this is what keeps a removal from being replayed. Digests do not name the payer: a session key that serves two payers speaks for both,
as far as each permitted it, and `Wanted` says so. The run has one payer, and payers and session keys are disjoint: what
a key shared by two payers may do is in the theorems only, as `Wanted` allows it.

### OrderEncoding, ErrorCatalogue, ErrorParsing, GoClient

| definition | code |
|---|---|
| `HashStruct`, `GetDomain`, `GetMessageHash`, `Encode...ExtraData` | `go/eip712/types.go`, `extradata.go` |
| `HashMetadataEntries`, `HashAllPieceMetadata`, `StructHash`, `Refusal`, `Stored` | `SignatureVerificationLib` and the metadata loops of `dataSetCreated` and `piecesAdded` |
| `Types1` ... , `Decoders1` ..., `Helpers1` ... of `ErrorCatalogue` | each error of `errors.go`, `decoders.go`, `helpers.go`: name, selector, fields, parameters, Is function |
| `SolTypeToGoType`, `FieldTypes`, `AbiTypes`, `IsError` | `cmd/error-binding-generator` |
| `ExtractHexData`, `Patterns`, `HexAt`, `ParseRevert`, `ParseRevertFromError` | `go/evmerrors/parser.go` |

A hash is the sequence of what is hashed. A message of a node is a sequence of tokens: markers, words, and hex strings, of which
one holds the revert data, whole or cut short. `GoClient` is one transaction around the packages: sign, encode (with whatever metadata
the provider chooses), taken or refused; after a revert, or one of a contract elsewhere, the node reports and the client parses.

### MockRpc

One action per critical section; a call that may block (a write to a connection) is two steps, its beginning and its end,
with the locks held in between that the code holds. `MuHeld`, `SubMuRead`, `SubMuFree` and `Locked` read the locks off the positions of
the goroutines. `HandlerDies` and `crashed` are what gorilla/websocket does when it
notices two writers on one connection. A batch may call `ChainNotify` several times before one response.
A poll may fail, a client may leave at any time, and the sleeps may take any time.

## 4. Runs

All runs are exhaustive on their instance. Common bounds: one block is one epoch, `MaxEpoch` blocks,
one or two data sets of at most two pieces, prices of one or two units.

| run | instance | what it shows |
|---|---|---|
| `proving` | one data set, two additions (two rates), periods of 2, 8 epochs | deadlines stay on the grid, not beyond the period after the open one, also when `nextProvingPeriod` comes one or two whole periods late; proofs count for their own period; each step is one of `ArbitratedPayment` or leaves its accounts alone (`ImplementsArbitratedPayment`), so that it pays for exactly what proofs earned |
| `arithmetic` | all ranges up to epoch 6, all period lengths up to 4, all sets of proofs | the loop computes the closed form and meets the Proven/Faulted/Open rules; only the last period is open, as the code's comment says |
| `lifecycle` | two clients, two data sets of up to two pieces of which one may be removed, two nonces, 3 epochs | a paying rail keeps its data set; the two contracts' registers, pieces and queues of removals agree, with removals scheduled, worked off, and left behind by a deletion; nonces are spent for good |
| `cdn` | one data set with or without CDN, amounts 0 and 1 | types; no CDN rail runs on after its key is gone; termination of the service can never be blocked by its CDN rails |
| `insolvency` | a payer that runs dry and deposits, additions and a removal that may empty the data set before it is restarted, periods of 2, a lockup of 1, 6 epochs | settlement waits for a period that can still be proven, also after a restart (`SettlementWaitsForOpenPeriod`); payment is exactly what proofs earned (`PaidExactlyForProvenEpochs`), across segments and frozen lockups; missed proofs never block settlement, even if the rail ended before it was terminated, and a rail that can be settled in full once it has ended can be until it is finalized (`EndedRailsStayPayable`) |
| `bounds` | 4 epochs, periods that change from 2 to 3, prices that double, a removal that empties a data set before it is restarted | the answers of `validatePayment` stay within what FilecoinPay accepts even where the periods lost their meaning; terminated data sets only shrink |
| `settles` | one data set with fairness | terminated rails are finalized in the end |
| `providers` | two addresses, three registrations and three products in all, two keys of which one is required, overlapping bits; four ids that fit and one that does not, two to a word; three ids to approve; three implementations, one view, three blocks | lookups, pages and capabilities agree with the records, an id names one provider for good, the packed array is a set, approved providers are on one page each, code changes only to what was announced last, in a later block |
| `authorization` | a payer, a session key, two payees, three numbers, two data sets with a piece each, three signatures, two blocks | the service implements `Consent`; keys speak within their permission when a signature is submitted; data sets hold what was ordered for them; what the Go client marshals is accepted |
| `client` | every listed error and two missing ones, up to two tokens before the marker; orders of up to two pieces with up to two metadata entries, two networks | errors in the documented formats come back typed, as what was raised, but for `UUPSUnsupportedProxiableUUID`, whose decoder is the only one that panics; correctly encoded orders are accepted, and only what was signed is stored |
| `notifications` | two connections, one subscription, three blocks (heights 0 to 2; 0 is Anvil's genesis) | no subscriber misses a head, what a subscriber applies leaves no gap, closed subscriptions are silent; with fairness, everybody hears of the last block and every request is answered |
| `restart` | one data set that is emptied and started again | a statement of `SPEC.md` the code does not bear out, section 6 |

Why the bounds are enough for the questions: periods of two epochs have a first and a
last epoch, both of which a settlement may start or end at, and in the loop's own run (`arithmetic`) periods of up to four have inner ones.
With an activation in block 2 at the earliest and a first deadline at 4, `nextProvingPeriod` skips one period from block 6 on and two in block 8,
and proofs, settlements and the end of the service come after a skip, too; two additions give two rate
segments that may end in mid-period. Two data sets and two
clients are what swap-and-pop and a shared nonce space need, two pieces what a removal needs that leaves one; a
challenge that comes two epochs later lets an addition and a removal come between the schedule and the boundary. A lockup of one to four epochs ends
before, in and after a period. Three registrations from two addresses include a return under a new id beside
another provider; three products a removal and an addition; key lists of up to two keys the repeated
and the missing key. Two slots a word and four ids fill two words, so a hole in the first word is filled from a full,
and from a half-filled, last word. Three ids to approve have a first, an inner and a last
place; three implementations and three blocks a plan that is replaced by another before it is carried out. Three numbers and three signatures are two creations and an addition, or a creation, an addition and
what replays it; of the permissions, one kind or all are given, so that a key may speak for one operation and not for another.
Two entries with one key and two values hold the repeated key, two pieces every order and gap of indices. A subscription
is there before, during or after the watcher's pass over each block, while the other connection asks, leaves and comes. Three blocks are what a gap needs,
one that was told, one that is left out and one to apply: two blocks may come between two polls, and a late first notification sets `lastSent` behind the head or ahead of it
(for more blocks, subscriptions and connections the safety properties are theorems).
`CHECK_DEADLOCK FALSE` everywhere: the bounded chain ends at `MaxEpoch` (`MaxTime`, `MaxHeight`), the
loop returns, and registrations, products, orders and signatures are bounded.

*Fairness.* Two runs assume any. `settles` assumes weak fairness of `NewEpoch` (blocks are produced whatever
anybody does) and of settling the PDP rail up to the current block. The latter is enabled
whenever `settleRail` would succeed and is open to payer, payee and operator; the payer's lockup
stays locked and the provider stays unpaid until it is called, so somebody wants it. No fairness is
assumed of proofs, of `nextProvingPeriod` or of termination: the provider may do
nothing. The property is restricted to data sets whose proving was activated in time (section 6 names
the other cases) and to end epochs the bounded chain gets past.

`notifications` assumes weak fairness of Anvil, which mines and answers in the end, and of each goroutine: of the watcher, of each
connection's handler and of each first notification. That a goroutine goes on includes that its write ends: clients read or
lose their connection. A client that keeps its connection and does not read is therefore none of `RequestsAreAnswered`'s cases; it stops the server. Otherwise clients do what they like. Without that the code keeps none of the promises, since the watcher
writes with its locks held.

*Symmetry.* Nonces, numbers, clients and the registry's addresses are interchangeable; the liveness runs use none.

## 5. Proofs

`tlapm` checks every theorem and lemma to the last leaf. The proofs about the service assume only
`ConstantsAssumption` and `LockupPeriodAssumption`: ids, epochs and rates are natural
numbers, the initial challenge window is positive and shorter than the period, which `initialize` demands, and
the zero address is no client (FWSS:606).

* `ArithmeticLemmas`: least and greatest elements of sets of integers, division with
  remainder, induction up to a bound (`InductionUpTo`), sums over finite sets and their growth by one element, and the arithmetic of proving periods.
* `WarmStorageProofs`, **`TypeCorrect`**: `Spec => []TypeOK`. It starts with FilecoinPay's operators: each yields a rail, and a
  settlement has a last segment whenever the rail is behind its target (`SettledType`). `TypeOK` is not inductive. It needs that
  a period is longer than its window (`WindowWithinPeriod`, kept by `configureProvingPeriod`'s
  checks), that three rail ids per data set suffice (`RailIdsSuffice`, else
  `createRail` would leave the id space), that a pending deadline implies an activation
  (`ActivationComesFirst`, else `possessionProven` would mark `type(uint256).max`
  in the bitmap), and that a data set with a rail has a payer
  (`PayersKnown`, else a nonce would be recorded for nobody). Their conjunction is `IInv`; one
  lemma per action shows that the action keeps it. **`NoncesStaySpent`**: `Spec => NoncesAreSpentForGood`; the two callbacks that write a
  nonce check it first, and no deletion clears one (`SpentNoncesKept`).
  **`PayingRailsStayArbitrated`**, **`RegistersAgree`**, **`CdnRailsEndWithTheirKey`**, **`TerminatedDataSetsShrink`**, **`MissedProofsAreSettled`**: for any
  number of clients, data sets, rails and pieces. None of the properties is inductive, and
  each leans on the others, so there is one induction for all, over `DataSetInv`:
  - `LinkInv`: data sets and rails point at each other as long as either is in use; ids that were not given out are blank;
    CDN rails belong to no data set's validator, so that `railTerminated` is never called for one (`CdnRailsApart`).
  - `TimeInv`: an active terminated rail has not reached its end, else it would be finalized (`SettledOnTime`). That needs an end after everything settled
    so far: `Terminate` counts it from the payer's last funded epoch, up to which no running rail is ahead, since a settlement stops there
    and a payer who runs dry does so in the past (`DryInThePast`).
  - `KeysHoldCdnRails`, `PiecesHaveMetadata`, `ListsNameDataSets`: the key and the CDN rails, the pieces and their metadata, the
    clients' lists and the data sets. The last rests on swap-and-pop taking out one item and no other (`AppendToList`, `PopFromList`).

  Together: `dataSetDeleted` asks for a rail that is settled up to its end, an active terminated one is not, so what is deleted has a
  finalized rail or one that never paid. For `MissedProofsAreSettled`: where all deadlines are past each segment is resolved to its end
  (`ResolvedRangeIsSettled`, `ResolvedSegmentIsSettled`), one after the other, so the last one reaches the rail's end and finalizes it
  (`WholeSettlementFinalizes`). It needs `SettledOnTime` and the ascending queue of rates.

  **`EndedRailsStayPayableForGood`**: `Spec => EndedRailsStayPayable`, whatever the owner configures. A restart of proving, which would lay activation
  and deadlines anew, is refused after the end (`PDPVerifierLeavesEnd`); rates of a terminated rail only change in PDPVerifier's callbacks, each of which
  asks for an end that is not past or not set (`EndedRail`, `OtherRateLeavesRail`); a deletion needs a rail that is settled, and then it is finalized; and a settlement
  drops the segments it has passed, so the first rate that is left still ends after the activation (`SettlementLeavesLaterRates`).
  **`ServicesMayBeTerminated`**: a data set without an end epoch always passes what `terminateService`, `terminateRail` and `railTerminated` check
  (`MayTerminateService`). `ServicesRun`, its rail is active, is inductive beside `DataSetInv`: a rail is finalized only by a
  settlement that reaches its end, and one that was not terminated has none (`RunningRailIsNotFinalized`).
* `PaymentProofs`, **`DeadlinesStayOnTheGrid`** and **`ProofsCountOnlyForTheirOwnPeriod`**: as long as the owner
  leaves the length of the proving periods alone (`OnePeriodLength`: `configureProvingPeriod` may be called at any time, with any
  challenge window, but with no other `maxProvingPeriod`. This is needed: the function changes the period of running data sets
  at once, FWSS:455, while their pending deadlines stay where they are), `Spec => []DeadlinesOnTheGrid` and
  `Spec => ProofsCountForTheirOwnPeriod`, for every period length, number of data sets and number of epochs.
  The inductive invariant `GridInv` says that the period length is the
  initial one, that a pending deadline is `A + (n + 1) * M` for some period `n` of the data set's activation `A <= blockNumber`, with `n`
  marked if `provenThisPeriod` is set, and that without a deadline the flag is down. Its heart is arithmetic: `possessionProven` computes the period
  from the current epoch and checks the deadline, and the two agree because the
  deadline's distance to the activation is a multiple of the period
  (`EpochBelongsToPeriod`, `PeriodOfDeadline`); `nextProvingPeriod` skips whole periods.
  That the deadline is that of the open period or of the next at most (`NotFarAhead`) has an induction of its own: after it has passed it is moved to the
  first that has not, and before that only while the pending period is the open one (FWSS:1008).
  **`SettlementWaitsForOpenPeriods`**, over `WaitInv`, which adds three facts. Every charged rate is positive, as the least rate is (`RateInv`), so FilecoinPay always asks
  the validator, and a change of rate settles nothing. Nothing is settled beyond the end of the last period before the open one (`OpenPeriodsWait`), also after
  a restart, since nothing is settled beyond the present when proving starts. Until proving is restarted, no mark is ahead of the pending deadline, so that a lowered flag
  means an unmarked period (`MarksInv`); after a restart the pending period may be one whose bit is left from before (section 6), which is the only case the property excepts (`AwaitsProof`). Its heart: a period without proof whose deadline is not past stops a range
  at the end of the period before (`OpenPeriodHoldsBack`), hence each segment and a whole call (`SegmentHeldBack`, `SettlementHeldBack`).
* In `WarmStorageProofs`, **`ArbitrationStaysWithinBounds`**: `Spec => []ArbitrationWithinBounds`, without
  `OnePeriodLength`. The answer of `_findProvenEpochs` for a range from `f` to `t` is `f` or an end of a period
  that is over and begins before `t`, cut at `t`, and every epoch it counts lies after `f` and not
  after that end; so it stays in the range and the amount below what was proposed. This needs ranges
  that are not empty, which no answer can repair: `OrderInv` keeps the queue of rates of every rail
  ascending, between `settledUpTo` and `blockNumber`, so that each segment FilecoinPay asks about has
  at least one epoch.
* `DirectoryProofs`, **`ProviderIdSetImplementsIdSet`** and **`ProviderIdsAreListedOnceWithoutGaps`**:
  for any ids and slots per word, if 0 is no id. `PackedInv` says that ids lie without a gap, each
  once, and that the last word is not empty. Its point: with no gap, the first slot at which an
  addition stops is the id's own or lies behind all ids, so nothing is added twice; and
  `LastSlot` is the last id of all, so what a removal moves leaves no hole.
  **`ApprovedProvidersAreOnOnePage`**: for any ids to approve, while `offset + limit` cannot overflow on the list, from
  `ApprovalAssumption`. `ApprovalInv` says that exactly the flagged ids are in the array, each once; the page of an id and its place there are
  quotient and remainder of its index (`DivisionBounds`, `DivisionOfMultiple`).
  **`LookupsAgree`**, **`CapabilitiesStayTrue`**, **`IdsKeepTheirMeaning`**: for any
  number of providers, keys and values, from `RegistryAssumption`. `RegistryInv` ties addresses to active records in both directions, says that ids
  not given out have no record, no product and no capability, and that exactly the listed keys have
  values. The last is what makes registration and `addProduct` safe, which write without clearing.
  **`UpgradesAreNoticed`**, from `UpgradesAssumption`: `NoticeInv` says that a plan that is there is the one announced last, for a block after that announcement's; that
  no plan authorizes nothing rests on address 0 having no code.
  **`PagesListEachProviderOnce`**, if `MaxUint` is at least twice the number of providers, so that `offset + limit` does not overflow on the lists: a page is a stretch of
  ranks. The n-th entry a walk shows is the member with n - 1 members below it (`PlaceOf`), so that consecutive pages show each member once (`PagesListMembers`),
  *provided the counter that sizes the page is the number of records that fill it*. That is `CountInv`, for both lists; each registration,
  removal and product change moves a counter and the set it counts by one (`OneMore`, `OneLess`).
  **`DirectoryKeepsItsPromises`** states them together, of `DirectorySpec`, the specification the run checks. The parts share no variable, so
  each step is one of one part and a stutter of the others (the lemma `EveryPartFollowsItsSpecification`).

* `AuthorizationProofs`, **`AuthorizationTypeCorrect`**, **`PermissionsAreKept`**, **`ServiceImplementsConsent`**, **`HoldingsWereOrdered`**: for any number of clients,
  keys, numbers, data sets and pieces, from `AuthorizationAssumption` and `ContentsAssumption` (what is added differs from what says that nothing is there).
  `ConsentInv` says: time is past 0, so the expiry 0 of somebody who was never logged in is no permission (`TimeRuns`);
  a permission that runs was granted (`GrantsAreKept`); the number of an order that was carried out is spent
  (`SpentNumbersStaySpent`), so is that of every data set (`DataSetsSpendTheirNumber`), and no two data sets of a payer have one
  (`OneDataSetPerNumber`); and the pieces of a removal that was carried out are scheduled or gone in the data set it names
  (`RemovalsAreDoneForGood`). The last is why removals need no nonce, and it needs the two before: a removal names its data set by
  number. `DigestBinds` is the other leg: two operations with one digest are one operation. Each step of the service is then a
  step of `Consent` or leaves it alone. `HoldingsInv` adds that what lies in a data set was ordered.

  **`MarshaledBytesAreAccepted`**: each of the forms a wallet gives comes to 65 bytes with, after `AdjustedV`, the `v` of 27 or 28 that recovers to the signer.

* In `PaymentProofs`, **`PaymentIsForProofs`**: `Spec => []PaidExactlyForProvenEpochs` under `OnePeriodLength`. The property sums the rates of all epochs that proofs cover, a sum
  over a history. What one answer of `validatePayment` pays is the sum over the proven epochs of its range, since a range has one rate; ranges of consecutive segments are disjoint
  and their sums add up; so a call pays for the earned epochs between the old and the new `settledUpTo`. `PaymentInv` adds to `WaitInv` that the queue of rates of a rail spells the rates recorded for
  its epochs (`RateRecorded`, which a termination, a rate update and a partial settlement each keep in a different way), that the epochs of marked periods are those that accepted
  proofs cover, that no proof comes for what is settled (`ProofsComeBeforePayment`), and that rail and history agree on how far that is, but for epochs before the first rate (`SettlementRecorded`).
  **`ServiceImplementsArbitratedPayment`**: `Spec => ImplementsArbitratedPayment`, under `OnePeriodLength`. Each action changes the history of one data set at most
  (`OneHistoryChanges`), so that its account alone changes or is left behind (`AccountStays`, `AccountChanges`, `AccountIsLeft`). That a proof adds no settled epoch is
  `ProofsComeBeforePayment` (`ProofImplements`). For a settlement, `PaymentInv` before and after gives the amount paid as a sum
  over the earned epochs up to the old and up to the new `settledUpTo`; their difference is what `Settle` owes (`SettlementImplements`).
  A restart and a waiver are `Leave`; the end of an epoch is `NewEpoch`; all the rest stutters.
  **`ArbitratedPaymentKeepsItsPromise`**: every behaviour of `ArbitratedPayment` pays each account the prices of its earned epochs up to the last settlement
  (`PaidForTheEarned`), and what is settled is final: settlement does not go back, and no settled epoch changes its price or is earned late (`SettledForGood`).
  `PromiseInv` adds types and that nothing is settled ahead of time, which is why a price may still be fixed; `Settle` adds a sum over epochs disjoint from those
  paid for. **`SettlementIsFinal`** follows by the refinement, with no look at rails, periods or deadlines: the contract keeps both.
* `LoopProofs`, **`LoopIsFindProvenEpochs`**, **`LoopFollowsTheSettlementRules`**, **`OnlyTheLastIsOpen`**: `LoopInv` states, after each iteration, that the loop has counted
  the proven epochs before its period (`CountedBefore`) and settled up to where its period begins (`SettledBefore`), since of the periods of a range
  that has passed only the last may be open. The counts are cardinalities of intervals. This is what allows the other modules to use the closed form.
* `MockRpcProofs`, **`MockRpcTypes`**, **`NobodyMissesTheHead`**, **`NoWriteAfterClose`**, **`NoGapInApplies`**: for any number of connections, subscriptions, blocks and requests.
  `MockRpcInv` says that a subscription has one writer at a time and is not closed under it (`OneWriter`), that the head is a block of Anvil's, and during a pass the watcher's (`HeadKnown`), that during a pass nobody is cleaned up (`PassUndisturbed`),
  that the height a subscription records was told to its client (`RecordedWasTold`), that every live subscription has heard the head between two passes, and during one its
  parent until the pass has dealt with it (`HeadHeard`), and that the last notification shows the head or nothing later than its parent (`LastKnown`).
  An attempt at a stronger property failed for a good reason: it is not true that the notifications of a subscription form a chain. A first notification that
  asked Anvil itself, before the server knew any head, is recorded late and sets `lastSent` ahead, so that the watcher
  skips a block, as the three blocks of the run `notifications` allow. What holds, and is checked and proved, is that what a subscriber is told to *apply* leaves no gap.
* `ClientProofs`, **`StoredMetadataWasSigned`**, **`EncodingsAreAccepted`**: `OrderInv` says that what is stored came out of the Go encoders (with anybody's data) and hashes to what was signed.
  Equal hashes of structs and arrays mean equal entries (`ArraysHashAsStructs`, `HashTellsMetadata`), and if no key is listed over a value, the last place of a
  key is the only one that counts (`StoredFaithfully`). **`TypedErrorsWereRaised`**, **`DocumentedDataIsFound`**: the rows of the four
  generated files are compared one by one (`NamesTellErrors`, `SelectorsTellDecoders`, `EachHasADecoder`, `EachHasAHelper`); `ErrorInv` says that a message
  carries the data at one place, and that no other token has the selector of an error. Behind the only marker that could be meant
  the data is what is extracted (`DocumentedIsExtracted`). They assume what `MissingErrors` means, that no missing error is listed.

What the theorems add to the constants' assumptions is `OnePeriodLength` for the five about the grid and the payment, no overflow of `offset + limit` for pages, and that 0 is no id
for the packed set.

Only model-checked, since fairness and `ENABLED` are out of the prover's reach: `TerminatedRailsGetFinalized`,
`EverySubscriberHearsOfTheLastBlock`, `RequestsAreAnswered`, and `ServiceCanAlwaysBeTerminated`. For the first and the last, theorems hold
what is not about fairness or `ENABLED`. *Termination*: `ServicesMayBeTerminated` proves the guards whose `ENABLED` TLC evaluates. *Finalization*: once a
rail has ended, `EndedRailsStayPayableForGood` says that it stays payable, and `MissedProofsAreSettled` that after the last deadline one settlement call
finalizes it; what is left is that somebody makes the call and that blocks go on, the two fairness conditions (and that the owner does not put the deadlines off
for ever). Before the end a data set that was
emptied may still be restarted, with a later activation; no data set of the run `settles` is ever emptied, and this case is left open.

## 6. Where the code and its documents part

A run that TLC ends with a counterexample:

* `restart` (FWSS:996): an emptied and restarted data set keeps the bitmap of its first
  life under a new activation epoch, and is paid for periods nobody proved.

Others came up that no run is spent on:

* A data set whose proving never started can never be settled, nor deleted (FWSS:1654): the validator answers the start of
  the range, which FilecoinPay takes for no progress.
  `SPEC.md:144` promises settlement at zero payment. The payer's way out is
  `settleTerminatedRailWithoutValidation`, at full price. `ActivatedInTime` excepts it from the settlement properties.
* Two additions at different rates before proving starts leave a
  rate segment that ends at or before activation; `_findProvenEpochs` refuses it for good (FWSS:1712),
  against `SPEC.md:161` ('Clients can always settle rails'). `ActivatedInTime` excepts it, too.
* After a price rise, the removal of a piece from a terminated data set asks
  for a higher rate, which FilecoinPay refuses, so that `nextProvingPeriod` reverts (FWSS:1048), against `SPEC.md:64`.
* `configureProvingPeriod` (FWSS:455) takes effect on running periods: an accepted proof may
  come to mark other epochs than those it was given for. `bounds` shows that settlement still works.
* `productTypeProviderCount` is documented as the count of providers that offer the product
  (`ServiceProviderRegistryStorage.sol:66`), but no removal lowers it and every `addProduct` raises it:
  `getProvidersByProductType` with `onlyActive = false` returns blank entries after a removal.
* `addProviderId(0)` is documented as a no-op (`ProviderIdSet.sol:52`), but pushes an empty word when all words
  are full or there is none (line 74). A removal from an earlier word then leaves a hole, which is why the theorems need that 0 is
  no id; ids of the registry never are.

* `RailNotFullySettled` and five errors of libraries that the contracts can revert with are missing in `go/evmerrors`
  (and in `AllErrors.abi.json`): a client reads 'unknown error selector' from a deletion that comes too early.
* The decoder of `UUPSUnsupportedProxiableUUID` always panics (`decoders.go:2717`), because the generator
  makes `[]byte` of every `bytesN` and go-ethereum makes an array: `TypedErrorsAreTrue` says that it is the only one.
* `ParseRevertFromError` takes a message that starts with a hex string for revert data whole, words included, and fails; it
  looks at the first occurrence of each marker only, and at selectors in lower case only.
* An order whose piece metadata is sparse or out of order can be signed and encoded, and is always refused
  with `InvalidSignature`, since the service counts pieces by their position.
* Metadata may list a key twice as long as its value so far is empty (FWSS:648, 885).
* The comment on `EncodeDeleteDataSetExtraData` (`extradata.go:137`) says that it encodes for the callback; `dataSetDeleted`
  does not look at extraData.
* `initialize` sets a price and a minimum of 0.9 USDFC (FWSS:425), where `SPEC.md:22` has a minimum of 0.06 USDFC; that is above the 0.24 USDFC which
  `updatePricing` takes for a minimum (FWSS:372), so the owner who lowers it cannot go back.
* `_authorizeUpgrade` of the registry is documented to support one-step upgrades as well (`ServiceProviderRegistry.sol:782`); without an announced plan it refuses all.
* `migrate` is documented as callable during an upgrade only (FWSS:461); the owner may call it at any time, once
  per number. `setViewContract` is documented as a one-time setup (FWSS:476); the check is commented out.
* The first notification of a subscription may overwrite `lastSent` with an older height
  (`main.go:401`), or, if it asked Anvil itself, with a newer one, after which the watcher skips a block (section 5); and it may come before the response that names the channel, whatever the comment at line 372 says. Responses and notifications
  may be written at once, which gorilla/websocket forbids. If the head is not known yet, the first tipset a subscriber gets
  has another key than the watcher's tipset of the same height.

## 7. Not modelled

* *Commission and the FilBeam controller's transfer* set one value each, which nothing modelled reads; ownership and its transfer are
  OpenZeppelin's. Of the registry, the limits on the length of names, keys and values are missing.
* *keccak256, ecrecover, ABI encoding* are taken as given: equal hashes mean equal contents, and packed arguments are unpacked to themselves. The permit types of
  `go/eip712`, `ParseMetadataEntries`, and the limits on metadata and extraData are left out.
* *The mock server's* plain HTTP requests, which share nothing with the rest but the head, and the broadcaster,
  which waits for a channel nobody writes to.
* `storageProviderChanged` always reverts (FWSS:1058-1065, 'not yet supported'): no data set changes its provider.
* The other readers of the view contract, storage layout, Extsload, Go bindings, scripts: no state
  of their own, or generated.
* Proof verification, piece contents and the randomness of challenges are PDPVerifier's; an accepted proof is an event.
* Gas, except where a loop cannot finish (the range that ends at activation); token decimals and `uint256` overflow of amounts,
  which are far below 2^256 for any price the contract accepts.
* Reentrancy: the callees are two fixed contracts that call back only as modelled.
