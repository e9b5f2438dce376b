---------------------------- MODULE PluginRoutes ----------------------------
(***************************************************************************)
(* What a plugin may ask of the host: the route table of the RPC router    *)
(* (src/apps/desktop/src/plugins/rpcRouter.ts) with the permissions each   *)
(* method must have, the dialogs the host shows before it goes on          *)
(* (src/apps/desktop/src/lib/hostApi.ts), and the permissions the Rust     *)
(* command behind the method asks for a second time (commands.rs).         *)
(*                                                                         *)
(* There is one provider account; its resource is "provider-account".      *)
(***************************************************************************)
EXTENDS Sequences, TLC

GitClient == "git-client"
ProviderCenter == "provider-center"

(* A requirement is met by all of its resources, or by any of them; a      *)
(* "declared" one by the plugin's manifest, any other by a grant.          *)
Fixed(capability, resource) ==
  [declared |-> FALSE, capability |-> capability, resources |-> {resource}, any |-> FALSE]

Declared(capability, resource) ==
  [Fixed(capability, resource) EXCEPT !.declared = TRUE]

AccountRead ==
  [declared |-> FALSE, capability |-> "providers:read",
   resources |-> {"provider-account", "providers"}, any |-> TRUE]

AnyNetwork ==
  [declared |-> FALSE, capability |-> "git.network:execute",
   resources |-> {"repositories", "clone-intents"}, any |-> TRUE]

(* Routes of one kind: their requirements, checked in order, and whether   *)
(* they count against the plugin's limit of network requests.              *)
Routes(methods, requirements, limited) ==
  [m \in methods |-> [requirements |-> requirements, limited |-> limited]]

Simple(methods, capability, resource) ==
  Routes(methods, <<Fixed(capability, resource)>>, FALSE)

AppRoutes ==
  Simple({"app.getInfo"}, "app:read", "info") @@
  Simple({"tasks.startEcho"}, "tasks:create", "echo")

ProjectRoutes ==
  Simple({"projects.list", "projects.create", "projects.updateScanRules",
          "projects.scan"}, "projects:manage", "projects")

WorkspaceRoutes ==
  Simple({"workspaces.list", "workspaces.create", "workspaces.getMembership",
          "workspaces.updateMembership", "workspaces.delete"},
         "workspaces:manage", "workspaces")

RepositoryRoutes ==
  Simple({"overview.get", "repositories.getSnapshot", "repositories.getChanges",
          "repositories.getDiff", "repositories.getTrustStatus"},
         "repositories:read", "repositories") @@
  Simple({"repositories.stage", "repositories.unstage", "repositories.commit",
          "repositories.trust"}, "repositories:write", "repositories")

IdentityRoutes ==
  Simple({"identities.list", "repositories.getEffectiveIdentity"},
         "identities:read", "identities") @@
  Simple({"identities.create", "identities.update", "identities.delete",
          "identities.setGlobal", "repositories.bindIdentity",
          "repositories.unbindIdentity"}, "identities:write", "identities")

ProfileRoutes ==
  Simple({"transportProfiles.list", "transportProfiles.getDeletionImpact"},
         "git.transport:read", "transport-profiles") @@
  Simple({"transportProfiles.create", "transportProfiles.update",
          "transportProfiles.delete"}, "git.transport:manage", "transport-profiles")

BindingRoutes ==
  Routes({"repositories.getEffectiveTransport", "repositories.getNetworkState"},
         <<Fixed("git.transport:read", "transport-profiles"),
           Fixed("repositories:read", "repositories")>>, FALSE) @@
  Routes({"repositories.bindTransport", "repositories.unbindTransport"},
         <<Fixed("git.transport:manage", "transport-profiles"),
           Fixed("repositories:write", "repositories")>>, FALSE)

IntentRoutes ==
  Routes({"cloneIntents.create"},
         <<AccountRead, Fixed("git.network:execute", "clone-intents")>>, TRUE) @@
  Simple({"cloneIntents.open", "cloneIntents.get"}, "git.network:execute", "clone-intents")

NetworkRoutes ==
  Routes({"repositories.clone"},
         <<Fixed("git.network:execute", "clone-intents"),
           Fixed("repositories:write", "repositories")>>, TRUE) @@
  Routes({"repositories.fetch", "repositories.pull", "repositories.push"},
         <<Fixed("git.network:execute", "repositories"),
           Fixed("repositories:write", "repositories")>>, TRUE) @@
  Routes({"repositories.cancelNetworkOperation"}, <<AnyNetwork>>, FALSE)

ProviderRoutes ==
  Simple({"providers.listInstances", "providers.createInstance",
          "providers.updateInstance", "providers.validateInstance",
          "providers.deleteInstance", "providers.listAccounts",
          "providers.connectAccount", "providers.rotateAccount",
          "providers.validateAccount", "providers.setDefaultAccount",
          "providers.getAccountDeletionImpact", "providers.deleteAccount"},
         "providers:manage", "providers")

AccessRoutes ==
  Routes({"providers.listAuthorizedAccounts", "providers.requestReadAccess",
          "providers.revokeReadAccess"},
         <<Declared("providers:read", "providers")>>, FALSE)

DiscoveryRoutes ==
  Routes({"providers.listRepositories", "providers.cancelOperation"},
         <<AccountRead>>, FALSE) @@
  Routes({"providers.matchLocalRemotes", "providers.listBindings"},
         <<AccountRead, Fixed("repositories:read", "repositories")>>, FALSE) @@
  Routes({"providers.bindRemote", "providers.unbindRemote"},
         <<Fixed("providers:manage", "providers"),
           Fixed("repositories:read", "repositories")>>, FALSE)

Route ==
  AppRoutes @@ ProjectRoutes @@ WorkspaceRoutes @@ RepositoryRoutes @@ IdentityRoutes @@
  ProfileRoutes @@ BindingRoutes @@ IntentRoutes @@ NetworkRoutes @@ ProviderRoutes @@
  AccessRoutes @@ DiscoveryRoutes

-----------------------------------------------------------------------------
(* The confirmations a method asks for, one after the other.  Only a       *)
(* binding that replaces another is confirmed.                             *)
Confirmations(m) ==
  CASE m = "repositories.clone" -> {<<"sourceTrust", "network">>}
    [] m \in {"repositories.fetch", "repositories.pull", "repositories.push"} -> {<<"network">>}
    [] m = "repositories.bindTransport" -> {<<>>, <<"replaceConfig">>}
    [] OTHER -> {<<>>}

(* The operations a plugin names and may cancel by that name. *)
Operations ==
  {"repositories.clone", "repositories.fetch", "repositories.pull", "repositories.push"}

(* The methods that open a form of the provider dialogs. *)
Forms ==
  {"providers.connectAccount", "providers.rotateAccount", "providers.requestReadAccess"}

(* The clone commands that one plugin alone may give. *)
Owner(m) ==
  CASE m \in {"cloneIntents.create", "cloneIntents.open"} -> {ProviderCenter}
    [] m = "cloneIntents.get" -> {GitClient}
    [] OTHER -> {GitClient, ProviderCenter}

(* What the commands ask for themselves, in their order.  Projects,        *)
(* workspaces, repositories, identities and provider accounts trust the    *)
(* router: their commands hand the request to a service as it is.          *)
Nothing(routes) == [m \in DOMAIN routes |-> <<>>]

AppNeeds == [m \in DOMAIN AppRoutes |->
  IF m = "tasks.startEcho" THEN <<Fixed("tasks:create", "echo")>> ELSE <<>>]

ProjectNeeds == Nothing(ProjectRoutes @@ WorkspaceRoutes)

RepositoryNeeds == Nothing(RepositoryRoutes)

IdentityNeeds == Nothing(IdentityRoutes)

ProviderNeeds == Nothing(ProviderRoutes)

ProfileNeeds == [m \in DOMAIN ProfileRoutes |->
  IF m \in {"transportProfiles.list", "transportProfiles.getDeletionImpact"}
    THEN <<Fixed("git.transport:read", "transport-profiles")>>
    ELSE <<Fixed("git.transport:manage", "transport-profiles")>>]

BindingNeeds == [m \in DOMAIN BindingRoutes |->
  CASE m = "repositories.getNetworkState" -> <<Fixed("repositories:read", "repositories")>>
    [] m = "repositories.getEffectiveTransport" ->
         <<Fixed("git.transport:read", "transport-profiles"),
           Fixed("repositories:read", "repositories")>>
    [] OTHER -> <<Fixed("git.transport:manage", "transport-profiles"),
                  Fixed("repositories:write", "repositories")>>]

IntentNeeds == [m \in DOMAIN IntentRoutes |->
  <<Fixed("git.network:execute", "clone-intents")>> \o
  (IF m = "cloneIntents.create" THEN <<AccountRead>> ELSE <<>>)]

(* A clone asks for the intents alone, the others for the repositories and *)
(* for writing to them.                                                    *)
NetworkNeeds == [m \in Operations |->
  IF m = "repositories.clone" THEN <<Fixed("git.network:execute", "clone-intents")>>
  ELSE <<Fixed("git.network:execute", "repositories"),
         Fixed("repositories:write", "repositories")>>]

(* Who looks for repositories needs the account; the links of remotes to   *)
(* repositories are read and written without a question.                   *)
DiscoveryNeeds == [m \in DOMAIN DiscoveryRoutes |->
  IF m \in {"providers.listRepositories", "providers.cancelOperation",
            "providers.matchLocalRemotes"} THEN <<AccountRead>> ELSE <<>>]

AccessNeeds == [m \in DOMAIN AccessRoutes |-> <<Declared("providers:read", "providers")>>]

(* The cancellation of a network operation is not in the table: it is      *)
(* asked for what the operation was (CancelCommand of PluginHost).         *)
Asked ==
  AppNeeds @@ ProjectNeeds @@ RepositoryNeeds @@ IdentityNeeds @@ ProfileNeeds @@
  BindingNeeds @@ IntentNeeds @@ NetworkNeeds @@ ProviderNeeds @@ AccessNeeds @@
  DiscoveryNeeds

Needs(m) == IF m \in DOMAIN Asked THEN Asked[m] ELSE <<>>
=============================================================================
