--------------------------- MODULE RegistryQueries ---------------------------
(***************************************************************************)
(* The view functions of ServiceProviderRegistry.sol that compute          *)
(* something, as operators over its state: pages of providers, lookups by  *)
(* address and by id, and the capabilities of a product.                   *)
(***************************************************************************)
EXTENDS ServiceProviderRegistry, FiniteSets

\* A request that fails: checked arithmetic overflows, or the provider does not exist.
RequestReverted == "reverted"

NoPage == [ids |-> <<>>, hasMore |-> FALSE]

\* The n-th smallest of a set of ids.
Nth(S, n) == CHOOSE id \in S : Cardinality({i \in S : i <= id}) = n

\* Defect: the last page is as long as any.
UncutPage(matching, total, offset, limit) ==
    IF offset >= total \/ limit = 0 THEN NoPage
    ELSE IF offset + limit > MaxUint THEN RequestReverted
    ELSE [ids |-> [r \in 1..limit |-> IF offset + r <= Cardinality(matching)
                                      THEN Nth(matching, offset + r) ELSE 0],
          hasMore |-> offset + limit < total]

\* The paging both list functions share.  The page's size comes from the
\* counter total, its content from a walk over the ids that match; a place that is
\* not filled stays 0.
Page(matching, total, offset, limit) ==
    IF offset >= total \/ limit = 0 THEN NoPage
    ELSE IF offset + limit > MaxUint THEN RequestReverted
    ELSE LET size == IF offset + limit > total THEN total - offset ELSE limit
         IN  [ids |-> [r \in 1..size |-> IF offset + r <= Cardinality(matching)
                                         THEN Nth(matching, offset + r) ELSE 0],
              hasMore |-> offset + size < total]

ActiveProviders == {id \in 1..numProviders : providers[id].isActive}

GetAllActiveProviders(offset, limit) ==
    Page(ActiveProviders, activeProviderCount, offset, limit)

\* getProvidersByProductType: the ids stand for the records the page holds.
GetProvidersByProductType(onlyActive, offset, limit) ==
    LET offering == {id \in 1..numProviders : providerProducts[id].isActive}
    IN  IF onlyActive
        THEN Page(offering \cap ActiveProviders, activeProductTypeProviderCount, offset, limit)
        ELSE Page(offering, productTypeProviderCount, offset, limit)

\* providerExists
Exists(id) == id \in 1..numProviders /\ providers[id].serviceProvider # NoAddress

GetProvider(id) == IF Exists(id) THEN providers[id] ELSE RequestReverted

IsRegisteredProvider(address) ==
    LET id == addressToProviderId[address]
    IN  id # 0 /\ providers[id].isActive

\* getProvidersByIds for one id: is it valid?
IsValidId(id) == Exists(id) /\ providers[id].isActive

ProviderHasProduct(id) == IF Exists(id) THEN providerProducts[id].isActive ELSE RequestReverted

\* getAllProductCapabilities
GetAllProductCapabilities(id) ==
    IF ~Exists(id) THEN RequestReverted
    ELSE LET keys == providerProducts[id].capabilityKeys
         IN  [isActive |-> providerProducts[id].isActive, keys |-> keys,
              values |-> [i \in DOMAIN keys |-> productCapabilities[id][keys[i]]]]

------------------------------------------------------------------------------

\* Asking for page after page of limit entries returns each member in exactly one
\* place, nothing else, and says truthfully when the last page is reached.
PagesReturnEachOnce(Query(_, _), members) ==
    \A limit \in 1..MaxProviders :
        LET shown == UNION {LET ids == Query(n * limit, limit).ids
                            IN  {<<n, r, ids[r]>> : r \in DOMAIN ids} : n \in 0..MaxProviders}
        IN  /\ {place[3] : place \in shown} = members
            /\ Cardinality(shown) = Cardinality(members)
            /\ \A n \in 0..MaxProviders : Query(n * limit, limit).hasMore <=>
                                              Query((n + 1) * limit, limit).ids # <<>>

(***************************************************************************)
(* Paging through the active providers, or through those that offer the    *)
(* product, misses nobody and shows nobody twice, whatever the page size   *)
(* and whoever left, came back, dropped or added the product before: the   *)
(* counters that size the pages agree with the records they are filled     *)
(* from.                                                                   *)
(***************************************************************************)
PagesListActiveProviders ==
    /\ PagesReturnEachOnce(GetAllActiveProviders, ActiveProviders)
    /\ PagesReturnEachOnce(LAMBDA offset, limit : GetProvidersByProductType(TRUE, offset, limit),
                           {id \in ActiveProviders : ProviderHasProduct(id) = TRUE})

(***************************************************************************)
(* The three lookups agree: an address is registered iff its id is that of *)
(* an active provider who registered with it, and every active provider is *)
(* found under its address.                                                *)
(***************************************************************************)
RegistrationsAgree ==
    /\ \A a \in Addresses :
           LET id == addressToProviderId[a] IN
           /\ IsRegisteredProvider(a) <=> id # 0
           /\ id # 0 => IsValidId(id) /\ GetProvider(id).serviceProvider = a
    /\ \A id \in ActiveProviders : addressToProviderId[providers[id].serviceProvider] = id

(***************************************************************************)
(* A capability has a value iff its key is listed by a product on offer by *)
(* an active provider: updates and removals leave no stale value behind,   *)
(* and every listed key reads as a value, even one that was listed twice.  *)
(***************************************************************************)
CapabilitiesMatchTheirKeys ==
    \A id \in 1..numProviders :
        LET answer == GetAllProductCapabilities(id) IN
        /\ \A k \in Keys : productCapabilities[id][k] # NoValue <=>
               \E i \in DOMAIN answer.keys : answer.keys[i] = k
        /\ \A i \in DOMAIN answer.values : answer.values[i] # NoValue
        /\ answer.keys # <<>> => answer.isActive /\ providers[id].isActive

(***************************************************************************)
(* An id, once given out, names the same provider and payee for good: it is*)
(* not given out again after a removal, and a removed provider stays as it *)
(* was.  Endorsements, approvals and data sets hold on to ids.             *)
(***************************************************************************)
IdsNameOneProviderForGood ==
    [][\A id \in 1..numProviders :
           /\ id <= numProviders'
           /\ providers'[id].serviceProvider = providers[id].serviceProvider
           /\ providers'[id].payee = providers[id].payee
           /\ ~providers[id].isActive => providers'[id] = providers[id]
      ]_registryVars
==============================================================================
