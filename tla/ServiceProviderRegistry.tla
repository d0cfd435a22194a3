----------------------- MODULE ServiceProviderRegistry -----------------------
(***************************************************************************)
(* ServiceProviderRegistry.sol: who offers which product, under which id.  *)
(*                                                                         *)
(* Every action is one transaction of a provider, Addresses being those    *)
(* who send transactions.  PDP is the only product type the contract takes,*)
(* so what it keeps per product type is kept here once.  Names and         *)
(* descriptions are one value, info, and a key or a value is a member of a *)
(* small set: their lengths are limited, which is left out, but for the    *)
(* values, where empty means absent.  Fees are burnt and not kept.         *)
(***************************************************************************)
EXTENDS Integers, Sequences

CONSTANTS
    Addresses,          \* those who register
    NoAddress,          \* address(0)
    Infos,              \* names and descriptions
    Keys,               \* capability keys
    Values,             \* capability values
    NoValue,            \* the empty value, which is what a missing key reads as
    KeyBits,            \* the bits a key sets in a Bloom filter
    RequiredKeys,       \* the keys REQUIRED_PDP_KEYS was built from
    MaxCapabilities,    \* MAX_CAPABILITIES
    MaxUint,            \* the largest number a request can hold
    MaxProviders,       \* bound: registrations
    MaxProducts         \* bound: products ever stored

ASSUME RegistryAssumption ==
    /\ NoAddress \notin Addresses
    /\ NoValue \notin Values
    /\ Infos # {}
    /\ RequiredKeys \subseteq Keys
    /\ MaxProviders \in Nat
    /\ MaxProducts \in Nat
    /\ MaxCapabilities \in Nat

VARIABLES
    numProviders,                    \* ids handed out, the last one at that
    providers,                       \* id -> ServiceProviderInfo
    providerProducts,                \* id -> its PDP product
    productCapabilities,             \* id -> key -> value
    addressToProviderId,             \* address -> id, 0 for none
    productTypeProviderCount,
    activeProductTypeProviderCount,
    activeProviderCount

registryVars == <<numProviders, providers, providerProducts, productCapabilities,
                  addressToProviderId, productTypeProviderCount,
                  activeProductTypeProviderCount, activeProviderCount>>

Ids == 1..MaxProviders
KeyLists == UNION {[1..n -> Keys] : n \in 0..MaxCapabilities}

NoProvider == [serviceProvider |-> NoAddress, payee |-> NoAddress,
               info |-> CHOOSE i \in Infos : TRUE, isActive |-> FALSE]
NoProduct == [capabilityKeys |-> <<>>, isActive |-> FALSE]
NoCapabilities == [k \in Keys |-> NoValue]

RegistryInit ==
    /\ numProviders = 0
    /\ providers = [id \in Ids |-> NoProvider]
    /\ providerProducts = [id \in Ids |-> NoProduct]
    /\ productCapabilities = [id \in Ids |-> NoCapabilities]
    /\ addressToProviderId = [a \in Addresses |-> 0]
    /\ productTypeProviderCount = 0
    /\ activeProductTypeProviderCount = 0
    /\ activeProviderCount = 0

------------------------------------------------------------------------------
(* The Bloom filter of required keys *)

BitsOf(keys) == UNION {KeyBits[k] : k \in keys}

MayContain(set, items) == items \subseteq set

RequiredPdpKeys == BitsOf(RequiredKeys)

\* _validateProductKeys: the bits of the keys that look required must be all
\* the required bits.
ValidProductKeys(keys) ==
    LET required == {k \in {keys[i] : i \in DOMAIN keys} :
                         MayContain(RequiredPdpKeys, KeyBits[k])}
    IN  MayContain(BitsOf(required), RequiredPdpKeys)

\* _validateCapabilities
ValidCapabilities(keys, values) ==
    /\ Len(keys) <= MaxCapabilities
    /\ \A i \in DOMAIN keys : values[i] # NoValue

\* The capability mapping after the listed keys were written in order: the last
\* value of a key that is listed twice stays.
Written(capabilities, keys, values) ==
    [k \in Keys |->
        LET places == {i \in DOMAIN keys : keys[i] = k} IN
        IF places = {} THEN capabilities[k]
        ELSE values[CHOOSE i \in places : \A j \in places : j <= i]]

\* Defect: the keys go, their values stay.
KeepsOldValues(capabilities, product) == capabilities

\* The mapping after the keys the product lists were deleted.
Cleared(capabilities, product) ==
    [k \in Keys |-> IF \E i \in DOMAIN product.capabilityKeys : product.capabilityKeys[i] = k
                    THEN NoValue ELSE capabilities[k]]

\* providerExists, providerActive and onlyServiceProvider
MayAct(sender, id) ==
    /\ id \in 1..numProviders
    /\ providers[id].serviceProvider # NoAddress
    /\ providers[id].isActive
    /\ providers[id].serviceProvider = sender

\* _validateAndStoreProduct
ValidateAndStoreProduct(id, keys, values) ==
    /\ ValidCapabilities(keys, values)
    /\ ValidProductKeys(keys)
    /\ productTypeProviderCount < MaxProducts
    /\ providerProducts' = [providerProducts EXCEPT
           ![id] = [capabilityKeys |-> keys, isActive |-> TRUE]]
    /\ productCapabilities' = [productCapabilities EXCEPT ![id] = Written(@, keys, values)]
    /\ productTypeProviderCount' = productTypeProviderCount + 1
    /\ activeProductTypeProviderCount' = activeProductTypeProviderCount + 1

------------------------------------------------------------------------------
(* The transactions of a provider *)

\* Defect: an address may register again.
AnyAddress(sender) == TRUE

NotRegistered(sender) == addressToProviderId[sender] = 0

\* Defect: the id of a removed provider is given out again.
FirstFreeId ==
    CHOOSE id \in 1..(numProviders + 1) :
        /\ id <= numProviders => ~providers[id].isActive
        /\ \A other \in 1..(id - 1) : providers[other].isActive

NextId == numProviders + 1

RegisterProvider(sender, payee, info, keys, values) ==
    LET id == NextId IN
    /\ payee # NoAddress
    /\ NotRegistered(sender)
    /\ id <= MaxProviders
    /\ numProviders' = id
    /\ providers' = [providers EXCEPT
           ![id] = [serviceProvider |-> sender, payee |-> payee, info |-> info,
                    isActive |-> TRUE]]
    /\ addressToProviderId' = [addressToProviderId EXCEPT ![sender] = id]
    /\ activeProviderCount' = activeProviderCount + 1
    /\ ValidateAndStoreProduct(id, keys, values)

AddProduct(sender, keys, values) ==
    LET id == addressToProviderId[sender] IN
    /\ id # 0
    /\ MayAct(sender, id)
    /\ ~providerProducts[id].isActive
    /\ ValidateAndStoreProduct(id, keys, values)
    /\ UNCHANGED <<numProviders, providers, addressToProviderId, activeProviderCount>>

UpdateProduct(sender, keys, values) ==
    LET id == addressToProviderId[sender] IN
    /\ id # 0
    /\ MayAct(sender, id)
    /\ providerProducts[id].isActive
    /\ ValidProductKeys(keys)
    /\ ValidCapabilities(keys, values)
    /\ productCapabilities' = [productCapabilities EXCEPT
           ![id] = Written(Cleared(@, providerProducts[id]), keys, values)]
    /\ providerProducts' = [providerProducts EXCEPT
           ![id] = [capabilityKeys |-> keys, isActive |-> TRUE]]
    /\ UNCHANGED <<numProviders, providers, addressToProviderId, activeProviderCount,
                   productTypeProviderCount, activeProductTypeProviderCount>>

RemoveProduct(sender) ==
    LET id == addressToProviderId[sender] IN
    /\ id # 0
    /\ MayAct(sender, id)
    /\ providerProducts[id].isActive
    /\ productCapabilities' = [productCapabilities EXCEPT ![id] = Cleared(@, providerProducts[id])]
    /\ providerProducts' = [providerProducts EXCEPT ![id] = NoProduct]
    /\ activeProductTypeProviderCount' = activeProductTypeProviderCount - 1
    /\ UNCHANGED <<numProviders, providers, addressToProviderId, activeProviderCount,
                   productTypeProviderCount>>

UpdateProviderInfo(sender, info) ==
    LET id == addressToProviderId[sender] IN
    /\ id # 0
    /\ id \in 1..numProviders
    /\ providers[id].serviceProvider # NoAddress
    /\ providers[id].isActive
    /\ providers' = [providers EXCEPT ![id].info = info]
    /\ UNCHANGED <<numProviders, providerProducts, productCapabilities, addressToProviderId,
                   productTypeProviderCount, activeProductTypeProviderCount, activeProviderCount>>

\* removeProvider: the record stays, inactive; its product and its address go.
RemoveProvider(sender) ==
    LET id == addressToProviderId[sender] IN
    /\ id # 0
    /\ MayAct(sender, id)
    /\ providers' = [providers EXCEPT ![id].isActive = FALSE]
    /\ activeProviderCount' = activeProviderCount - 1
    /\ IF providerProducts[id].isActive
       THEN /\ activeProductTypeProviderCount' = activeProductTypeProviderCount - 1
            /\ productCapabilities' = [productCapabilities EXCEPT
                   ![id] = Cleared(@, providerProducts[id])]
            /\ providerProducts' = [providerProducts EXCEPT ![id] = NoProduct]
       ELSE UNCHANGED <<activeProductTypeProviderCount, productCapabilities, providerProducts>>
    /\ addressToProviderId' = [addressToProviderId EXCEPT ![providers[id].serviceProvider] = 0]
    /\ UNCHANGED <<numProviders, productTypeProviderCount>>

RegistryNext ==
    \E sender \in Addresses :
        \/ \E keys \in KeyLists : \E values \in [DOMAIN keys -> Values \cup {NoValue}] :
               \/ \E payee \in Addresses \cup {NoAddress}, info \in Infos :
                      RegisterProvider(sender, payee, info, keys, values)
               \/ AddProduct(sender, keys, values)
               \/ UpdateProduct(sender, keys, values)
        \/ RemoveProduct(sender)
        \/ \E info \in Infos : UpdateProviderInfo(sender, info)
        \/ RemoveProvider(sender)

RegistrySpec == RegistryInit /\ [][RegistryNext]_registryVars
==============================================================================
