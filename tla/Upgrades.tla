-------------------------------- MODULE Upgrades --------------------------------
(***************************************************************************)
(* The gate between the owner and the code of a proxy.                     *)
(* FilecoinWarmStorageService and ServiceProviderRegistry have the same    *)
(* one; only the former has a view contract to point at.                   *)
(*                                                                         *)
(* Every transaction here is the owner's.  The owner is a multisig that    *)
(* signs calldata some time after it was made and may send anything.  An   *)
(* implementation is deployed with the number its migration will carry,    *)
(* which the deployment script reads off the proxy at that time.           *)
(***************************************************************************)
EXTENDS Integers

CONSTANTS
    Implementations,        \* addresses at which contracts may be deployed
    FirstImplementation,    \* the one the proxy was created with
    NoImplementation,       \* address(0), which has no code
    Views,                  \* view contracts
    NoView,                 \* address(0) as a view contract
    MaxHeight               \* bound: the last block

ASSUME UpgradesAssumption ==
    /\ FirstImplementation \in Implementations
    /\ NoImplementation \notin Implementations
    /\ NoView \notin Views
    /\ MaxHeight \in Nat

VARIABLES
    height,                 \* block.number
    implementation,         \* the proxy's code
    nextUpgrade,            \* PlannedUpgrade
    initialized,            \* the counter of Initializable
    reinitializerVersion,   \* implementation -> its REINITIALIZER_VERSION, 0 where no code is
    viewContractAddress,
    notice                  \* history: the last announcement and its block

upgradeVars == <<height, implementation, nextUpgrade, initialized, reinitializerVersion,
                 viewContractAddress, notice>>

Plan(impl, afterEpoch) == [nextImplementation |-> impl, afterEpoch |-> afterEpoch]

NoPlan == Plan(NoImplementation, 0)

Notice(impl, at) == [implementation |-> impl, at |-> at]

\* The scripts deploy the first implementation with counter 1, and initialize sets it.
UpgradeInit ==
    /\ height = 0
    /\ implementation = FirstImplementation
    /\ nextUpgrade = NoPlan
    /\ initialized = 1
    /\ reinitializerVersion = [i \in Implementations |-> IF i = FirstImplementation THEN 1 ELSE 0]
    /\ viewContractAddress = NoView
    /\ notice = Notice(NoImplementation, 0)

HasCode(impl) == impl \in Implementations /\ reinitializerVersion[impl] # 0

NewHeight ==
    /\ height < MaxHeight
    /\ height' = height + 1
    /\ UNCHANGED <<implementation, nextUpgrade, initialized, reinitializerVersion,
                   viewContractAddress, notice>>

\* warm-storage-deploy-implementation.sh: one more than the proxy's counter of this moment.
DeployImplementation(impl) ==
    /\ ~HasCode(impl)
    /\ reinitializerVersion' = [reinitializerVersion EXCEPT ![impl] = initialized + 1]
    /\ UNCHANGED <<height, implementation, nextUpgrade, initialized, viewContractAddress, notice>>

\* Defect: an upgrade may be announced for the block that announces it.
NotBeforeNow(afterEpoch) == afterEpoch >= height

LiesAhead(afterEpoch) == afterEpoch > height

\* announcePlannedUpgrade: replaces what was announced before.
AnnouncePlannedUpgrade(impl, afterEpoch) ==
    /\ HasCode(impl)
    /\ LiesAhead(afterEpoch)
    /\ nextUpgrade' = Plan(impl, afterEpoch)
    /\ notice' = Notice(impl, height)
    /\ UNCHANGED <<height, implementation, initialized, reinitializerVersion, viewContractAddress>>

\* The body of migrate: a view contract of address 0 leaves the old one.
SetView(view) == viewContractAddress' = IF view = NoView THEN viewContractAddress ELSE view

\* The modifier reinitializer with the version of this implementation.
Reinitializes(impl) ==
    /\ initialized < reinitializerVersion[impl]
    /\ initialized' = reinitializerVersion[impl]

\* migrate, called through the proxy without an upgrade.
Migrate(view) ==
    /\ Reinitializes(implementation)
    /\ SetView(view)
    /\ UNCHANGED <<height, implementation, nextUpgrade, reinitializerVersion, notice>>

\* _authorizeUpgrade
AuthorizeUpgrade(impl) ==
    /\ impl = nextUpgrade.nextImplementation
    /\ height >= nextUpgrade.afterEpoch
    /\ nextUpgrade' = NoPlan

\* upgradeToAndCall without a call: _authorizeUpgrade, and the library's demand that code is there.
UpgradeTo(impl) ==
    /\ AuthorizeUpgrade(impl)
    /\ HasCode(impl)
    /\ implementation' = impl
    /\ UNCHANGED <<height, reinitializerVersion, notice>>

\* upgradeToAndCall with the migrate call the scripts append: the new code runs it, and
\* when it reverts there is no upgrade.
UpgradeToAndMigrate(impl, view) ==
    /\ UpgradeTo(impl)
    /\ Reinitializes(impl)
    /\ SetView(view)

SetViewContract(view) ==
    /\ view # NoView
    /\ viewContractAddress' = view
    /\ UNCHANGED <<height, implementation, nextUpgrade, initialized, reinitializerVersion, notice>>

UpgradeNext ==
    \/ NewHeight
    \/ \E impl \in Implementations \cup {NoImplementation} :
           \/ impl # NoImplementation /\ DeployImplementation(impl)
           \/ \E afterEpoch \in 0..(MaxHeight + 1) : AnnouncePlannedUpgrade(impl, afterEpoch)
           \/ UpgradeTo(impl) /\ UNCHANGED <<initialized, viewContractAddress>>
           \/ \E view \in Views \cup {NoView} : UpgradeToAndMigrate(impl, view)
    \/ \E view \in Views \cup {NoView} : Migrate(view) \/ SetViewContract(view)

UpgradeSpec == UpgradeInit /\ [][UpgradeNext]_upgradeVars

------------------------------------------------------------------------------

(***************************************************************************)
(* The proxy changes its code only to the implementation announced last,   *)
(* and in a later block than that announcement: whatever calldata the      *)
(* owners signed when, no plan, a plan that was replaced since, or one made*)
(* in the same block opens nothing ("a two-step upgrade to give            *)
(* stakeholders notice", tools/UPGRADE-PROCESS.md:75).                     *)
(***************************************************************************)
UpgradesHaveNotice ==
    [][implementation' # implementation =>
           notice.implementation = implementation' /\ notice.at < height]_upgradeVars
==============================================================================
