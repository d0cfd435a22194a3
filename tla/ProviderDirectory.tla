-------------------------- MODULE ProviderDirectory --------------------------
(***************************************************************************)
(* What a client reads before it chooses a provider: the registry of       *)
(* providers, the set of endorsed ids, a ProviderIdSet of its own owner,   *)
(* and the ids the service's owner approved; and the gate through which    *)
(* the code of the registry or the service is upgraded.  No part calls     *)
(* another: who reads several must cope with any interleaving of their     *)
(* transactions.                                                           *)
(*                                                                         *)
(* Two bounds keep the product of the parts small: NotBothLists, nobody is *)
(* endorsed and approved in one behaviour; NothingListed, upgrades happen  *)
(* only while all lists are as created.  Since the parts share no          *)
(* variable, no transaction is kept from happening by them.                *)
(***************************************************************************)
EXTENDS RegistryQueries, ProviderIdSet, ApprovedProviders, Upgrades

DirectoryInit == RegistryInit /\ Init /\ ApprovalInit /\ UpgradeInit

NotBothLists == list' = <<>> \/ approvedProviderIds' = <<>>

NothingListed == numProviders = 0 /\ list = <<>> /\ approvedProviderIds = <<>>

DirectoryNext ==
    \/ /\ \/ RegistryNext /\ UNCHANGED <<list, approvalVars>>
          \/ Next /\ UNCHANGED <<registryVars, approvalVars>>
          \/ ApprovalNext /\ UNCHANGED <<registryVars, list>>
       /\ NotBothLists
       /\ UpgradeInit
       /\ UNCHANGED upgradeVars
    \/ /\ UpgradeNext
       /\ NothingListed
       /\ UNCHANGED <<registryVars, list, approvalVars>>

DirectorySpec == DirectoryInit /\ [][DirectoryNext]_<<registryVars, list, approvalVars, upgradeVars>>
==============================================================================
