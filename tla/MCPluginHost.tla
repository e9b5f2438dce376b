---------------------------- MODULE MCPluginHost ----------------------------
(***************************************************************************)
(* Three requests, with room for two network requests, two confirmations   *)
(* and one remembered cancellation, and one clone intent that may be there *)
(* already.  The first two may be clones of that intent, with the same     *)
(* operation id or not; the third finds the limits reached or cancels.     *)
(***************************************************************************)
EXTENDS PluginHost

MCMethods ==
  <<{"repositories.clone", "providers.requestReadAccess", "providers.connectAccount",
     "cloneIntents.create"},
    {"repositories.clone", "repositories.bindTransport", "cloneIntents.open",
     "repositories.cancelNetworkOperation"},
    {"repositories.cancelNetworkOperation", "repositories.fetch",
     "providers.revokeReadAccess"}>>

(* The manifests of the two plugins (src/plugins/*/plugin.json), without    *)
(* what no method asks for.                                                *)
MCManifests ==
  [p \in {GitClient, ProviderCenter} |->
     IF p = GitClient
       THEN {<<"projects:manage", "projects">>, <<"workspaces:manage", "workspaces">>,
             <<"repositories:read", "repositories">>, <<"repositories:write", "repositories">>,
             <<"identities:read", "identities">>, <<"identities:write", "identities">>,
             <<"git.transport:read", "transport-profiles">>,
             <<"git.transport:manage", "transport-profiles">>,
             <<"git.network:execute", "repositories">>,
             <<"git.network:execute", "clone-intents">>}
       ELSE {<<"providers:read", "providers">>, <<"providers:manage", "providers">>,
             <<"repositories:read", "repositories">>,
             <<"git.network:execute", "clone-intents">>}]

(* Whatever a command asks for, the router has asked for. *)
ASSUME RouterAsksForAll ==
  \A m \in DOMAIN Route :
    \A n \in DOMAIN Needs(m) : \E r \in DOMAIN Route[m].requirements :
      Needs(m)[n] = Route[m].requirements[r]

(* What goes out to the network, and what gives or takes a permission, is  *)
(* checked by the core as well; and there is no method without a command.  *)
ASSUME NetworkIsAskedTwice ==
  /\ \A m \in DOMAIN Route : Route[m].limited \/ m \in DOMAIN AccessRoutes => Needs(m) # <<>>
  /\ DOMAIN Route = DOMAIN Asked \cup {"repositories.cancelNetworkOperation"}

MCSymmetry == Permutations(Ids)
=============================================================================
