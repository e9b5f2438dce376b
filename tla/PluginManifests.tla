--------------------------- MODULE PluginManifests ---------------------------
(***************************************************************************)
(* What the application finds in the directory of a plugin: the manifest   *)
(* and its rules (plugins/manifest.rs), the discovery of all plugins       *)
(* (plugins/registry.rs), the Provider adapters compiled into the          *)
(* application that they name (providers/adapter.rs), and a theme's        *)
(* definition (themes.rs).                                                 *)
(*                                                                         *)
(* A package is what lies in one directory: a manifest that could be       *)
(* parsed, or not, and the files it names.  Its id, texts and versions are *)
(* right ("texts"), or not.                                                *)
(***************************************************************************)
EXTENDS ThemeDefinitions, FiniteSets, TLC

CONSTANT None

(* A path of a manifest is safe if it is relative, has no scheme and does  *)
(* not go up; the file it names may still be missing, or be a link that    *)
(* leaves the plugin's directory.                                          *)
Inside(path) == path = "inside"
SafePath(path) == path \in {"inside", "missing", "linked out"}

CompiledId(provider) == [github |-> "git-ramus.provider.github",
                         gitlab |-> "git-ramus.provider.gitlab"][provider]

(* validate_provider *)
ValidProvider(m, p) ==
  /\ p.adapter = m.id
  /\ p.display
  /\ p.modes # {} /\ "repositoryDiscovery" \in p.capabilities
  /\ p.icon = p.provider
  /\ p.provider = "github" => p.modes = {"cloud"} /\ p.capabilities = {"repositoryDiscovery"}

(* PluginManifest::validate *)
ValidManifest(m) ==
  /\ m.schemaVersion = 1
  /\ m.texts
  /\ m.ui = None => m.providers # {} /\ ~m.navigation
  /\ m.ui # None => SafePath(m.ui)
  /\ m.theme # None => m.theme.parts >= 2 /\ SafePath(m.theme.path)
  /\ \A q \in m.permissions :
       /\ q[1] # None /\ q[2] # None
       /\ q[1] = "providers:manage" => m.kind = "builtin"
  /\ m.providers # {} => m.kind = "builtin"
  /\ \A p \in m.providers : ValidProvider(m, p)

(* One directory in discover_many.  With one root no id comes twice. *)
Loads(directory, m) ==
  /\ m.parses
  /\ ValidManifest(m)
  /\ m.id = directory
  /\ m.ui # None => Inside(m.ui)

Present(bundle) == {d \in DOMAIN bundle : bundle[d] # None}

(* discover_many: one directory that is not right fails them all. *)
Discovered(bundle) == \A d \in Present(bundle) : Loads(d, bundle[d])

(* from_plugins: every contribution names the adapter compiled for it, and *)
(* no adapter is named twice.                                              *)
Adapted(bundle) ==
  \A d \in Present(bundle) :
    /\ \A p \in bundle[d].providers : CompiledId(p.provider) = d
    /\ \A p, q \in bundle[d].providers : p.provider = q.provider => p = q

(* load_plugin_theme: the definition if there is one that is valid. *)
Definition(theme) ==
  IF Inside(theme.path) /\ theme.definition # None /\ ValidDefinition(theme.definition)
  THEN theme.definition ELSE None
=============================================================================
