------------------------------- MODULE Startup -------------------------------
(***************************************************************************)
(* The start of the application (AppState::from_paths in app_state.rs):    *)
(* the migrations of the database (db/migrations.rs), the discovery of the *)
(* plugins and of their themes (themes.rs), the installation rows and the  *)
(* permissions that come with a first installation                         *)
(* (plugins/permissions.rs), the Provider adapters; and, when it is up,    *)
(* the choice of a theme and the grants of Provider accounts.              *)
(*                                                                         *)
(* Every step is one statement or transaction on the database.  The        *)
(* process may end after any of them: it is killed, or a step fails, which *)
(* ends the start.  While it is not running, a release may bring other     *)
(* packages.                                                               *)
(***************************************************************************)
EXTENDS PluginManifests

CONSTANTS
  Plugins,      \* directories of plugins, in the order of their ids
  Packages,     \* directory -> the packages releases bring
  DefaultTheme, \* the theme of the host
  Host,         \* the plugin the default theme belongs to
  MaxReleases   \* bound: releases after the first

Places == DOMAIN Plugins
PluginIds == {Plugins[i] : i \in Places}
Manifests == UNION {Packages[p] : p \in PluginIds}
ThemeRows == [plugin : PluginIds \cup {Host}, valid : BOOLEAN]

\* A kind is one of two; no package is the host's; none can name an account,
\* whose random id is made when it is connected.
ASSUME StartupAssumption ==
  /\ Places \subseteq Nat /\ MaxReleases \in Nat
  /\ \A i, j \in Places : Plugins[i] = Plugins[j] => i = j
  /\ DOMAIN Packages = PluginIds /\ Host \notin PluginIds
  /\ \A m \in Manifests :
       /\ m.kind \in {"builtin", "external"}
       /\ \A q \in m.permissions : ~(q[1] = "providers:read" /\ q[2] = "provider-account")
  /\ None \notin Manifests \cup ThemeRows \cup {"builtin", "external"}

VARIABLES
  bundle,    \* directory -> the package in it, or None
  releases,  \* releases so far
  at,        \* where the start is, "up" or "down"
  todo,      \* the places of the plugins the step has still to visit
  schema,    \* version of the database
  kinds,     \* installation rows: plugin -> its kind, or None
  grants,    \* <<plugin, capability, resource>>
  themes,    \* theme rows: id -> [plugin, valid], or None
  active,    \* the active theme's id in the database
  catalogue, \* the themes in memory: <<id, plugin>>
  first,     \* plugin -> the package it was first installed from, or None
  cut        \* plugins whose first installation did not get to the grants

startupVars ==
  <<bundle, releases, at, todo, schema, kinds, grants, themes, active, catalogue, first, cut>>

installation == <<kinds, grants, first, cut>>
outside == <<bundle, releases>>

ThemeIds == {DefaultTheme} \cup
  {m.theme.id : m \in {m \in Manifests : m.theme # None}}

(* The plugins are visited in order. *)
Discoveries == {i \in Places : Plugins[i] \in Present(bundle)}
Turn(i) == i \in todo /\ \A j \in todo : i <= j

StartupInit ==
  /\ bundle \in {b \in [PluginIds -> {None} \cup Manifests] :
                   \A p \in PluginIds : b[p] = None \/ b[p] \in Packages[p]}
  /\ releases = 0
  /\ at = "down" /\ todo = {} /\ schema = 0
  /\ kinds = [p \in PluginIds |-> None]
  /\ grants = {}
  /\ themes = [t \in ThemeIds |-> None]
  /\ active = None
  /\ catalogue = {}
  /\ first = [p \in PluginIds |-> None]
  /\ cut = {}

-----------------------------------------------------------------------------
Release ==
  /\ at = "down" /\ releases < MaxReleases
  /\ \E p \in PluginIds : \E m \in Packages[p] \cup {None} :
       m # bundle[p] /\ bundle' = [bundle EXCEPT ![p] = m]
  /\ releases' = releases + 1
  /\ UNCHANGED <<at, todo, schema, themes, active, catalogue, installation>>

Open ==
  /\ at = "down"
  /\ at' = "opening"
  /\ UNCHANGED <<todo, schema, themes, active, catalogue, installation, outside>>

(* Each migration is a transaction that also sets the version. *)
Migrate ==
  /\ at = "opening"
  /\ IF schema < 4 THEN schema' = schema + 1 /\ UNCHANGED at
     ELSE at' = "discovering" /\ UNCHANGED schema
  /\ UNCHANGED <<todo, themes, active, catalogue, installation, outside>>

DiscoverPlugins ==
  /\ at = "discovering"
  /\ at' = IF Discovered(bundle) THEN "invalidating" ELSE "down"
  /\ UNCHANGED <<todo, schema, themes, active, catalogue, installation, outside>>

(* invalidate_plugin_themes.  Mutant: the rows of before are kept. *)
Invalidate_Keeps ==
  /\ at = "invalidating"
  /\ at' = "default theme"
  /\ UNCHANGED <<todo, schema, themes, active, catalogue, installation, outside>>

Invalidate ==
  /\ at = "invalidating"
  /\ themes' = [t \in ThemeIds |->
       IF themes[t] # None /\ themes[t].plugin # Host
         THEN [themes[t] EXCEPT !.valid = FALSE] ELSE themes[t]]
  /\ at' = "default theme"
  /\ UNCHANGED <<todo, schema, active, catalogue, installation, outside>>

AddDefaultTheme ==
  /\ at = "default theme"
  /\ themes' = [themes EXCEPT ![DefaultTheme] = [plugin |-> Host, valid |-> TRUE]]
  /\ catalogue' = {<<DefaultTheme, Host>>}
  /\ at' = "themes" /\ todo' = Discoveries
  /\ UNCHANGED <<schema, active, installation, outside>>

Loaded(t) == \E entry \in catalogue : entry[1] = t

(* A row, and an entry of the catalogue if the definition is valid and has *)
(* the id that the manifest says.                                          *)
LoadTheme(p, theme) ==
  LET definition == Definition(theme)
      valid == definition # None /\ definition.id = theme.id
  IN /\ themes' = [themes EXCEPT ![theme.id] = [plugin |-> p, valid |-> valid]]
     /\ catalogue' = catalogue \cup IF valid THEN {<<theme.id, p>>} ELSE {}

(* The theme of the next plugin, if it has one of an id that has not been  *)
(* loaded.                                                                 *)
AddPluginTheme ==
  /\ at = "themes"
  /\ \E i \in Places :
       /\ Turn(i)
       /\ LET theme == bundle[Plugins[i]].theme
          IN IF theme = None \/ Loaded(theme.id) THEN UNCHANGED <<themes, catalogue>>
             ELSE LoadTheme(Plugins[i], theme)
       /\ todo' = todo \ {i}
  /\ UNCHANGED <<at, schema, active, installation, outside>>

(* The active theme is the default if its own is not in the catalogue. *)
ChooseTheme ==
  /\ at = "themes" /\ todo = {}
  /\ active' = IF active # None /\ Loaded(active) THEN active ELSE DefaultTheme
  /\ at' = "installing" /\ todo' = Discoveries
  /\ UNCHANGED <<schema, themes, catalogue, installation, outside>>

(* The installation row of the next plugin.  Mutant: every start grants.   *)
Install_AlwaysGrants ==
  /\ at = "installing"
  /\ \E i \in Places :
       LET p == Plugins[i]
       IN /\ Turn(i)
          /\ kinds' = [kinds EXCEPT ![p] = bundle[p].kind]
          /\ first' = IF kinds[p] = None THEN [first EXCEPT ![p] = bundle[p]] ELSE first
          /\ IF bundle[p].kind = "builtin"
               THEN at' = "granting" /\ UNCHANGED todo
               ELSE todo' = todo \ {i} /\ UNCHANGED at
  /\ UNCHANGED <<schema, themes, active, catalogue, grants, cut, outside>>

Install ==
  /\ at = "installing"
  /\ \E i \in Places :
       LET p == Plugins[i]
       IN /\ Turn(i)
          /\ kinds' = [kinds EXCEPT ![p] = bundle[p].kind]
          /\ first' = IF kinds[p] = None THEN [first EXCEPT ![p] = bundle[p]] ELSE first
          /\ IF kinds[p] = None /\ bundle[p].kind = "builtin"
               THEN at' = "granting" /\ UNCHANGED todo
               ELSE todo' = todo \ {i} /\ UNCHANGED at
  /\ UNCHANGED <<schema, themes, active, catalogue, grants, cut, outside>>

Asked(p, m) == {<<p, q[1], q[2]>> : q \in m.permissions}

(* grant_manifest_permissions, a transaction of its own. *)
GrantManifest ==
  /\ at = "granting"
  /\ \E i \in Places :
       /\ Turn(i)
       /\ grants' = grants \cup Asked(Plugins[i], bundle[Plugins[i]])
       /\ todo' = todo \ {i}
  /\ at' = "installing"
  /\ UNCHANGED <<schema, themes, active, catalogue, kinds, first, cut, outside>>

Adapt ==
  /\ at = "installing" /\ todo = {}
  /\ at' = IF Adapted(bundle) THEN "up" ELSE "down"
  /\ catalogue' = IF Adapted(bundle) THEN catalogue ELSE {}
  /\ UNCHANGED <<todo, schema, themes, active, installation, outside>>

-----------------------------------------------------------------------------
(* activate: an id that is not in the catalogue is the default. *)
Activate(t) ==
  /\ at = "up"
  /\ active' = IF Loaded(t) THEN t ELSE DefaultTheme
  /\ UNCHANGED <<at, todo, schema, themes, catalogue, installation, outside>>

Account(p) == <<p, "providers:read", "provider-account">>

MayRead(p) == bundle[p] # None /\ <<"providers:read", "providers">> \in bundle[p].permissions

(* grant_dynamic and revoke_dynamic, for one account. *)
GrantAccount(p) ==
  /\ at = "up" /\ MayRead(p) /\ kinds[p] # None
  /\ grants' = grants \cup {Account(p)}
  /\ UNCHANGED <<at, todo, schema, themes, active, catalogue, kinds, first, cut, outside>>

RevokeAccount(p) ==
  /\ at = "up" /\ MayRead(p)
  /\ grants' = grants \ {Account(p)}
  /\ UNCHANGED <<at, todo, schema, themes, active, catalogue, kinds, first, cut, outside>>

(* The process ends. *)
Die ==
  /\ at # "down"
  /\ at' = "down" /\ todo' = {} /\ catalogue' = {}
  /\ cut' = IF at = "granting" THEN cut \cup {Plugins[i] : i \in {i \in Places : Turn(i)}} ELSE cut
  /\ UNCHANGED <<schema, themes, active, kinds, grants, first, outside>>

StartupNext ==
  \/ Release \/ Open \/ Migrate \/ DiscoverPlugins
  \/ Invalidate \/ AddDefaultTheme \/ AddPluginTheme \/ ChooseTheme
  \/ Install \/ GrantManifest \/ Adapt \/ Die
  \/ \E t \in ThemeIds : Activate(t)
  \/ \E p \in PluginIds : GrantAccount(p) \/ RevokeAccount(p)

StartupSpec == StartupInit /\ [][StartupNext]_startupVars

-----------------------------------------------------------------------------
(* What a plugin may do is what its manifest asked for when it was first   *)
(* installed as a built-in plugin, and the accounts the user chose; no     *)
(* later release adds to it (app_state.rs 91-127, permissions.rs 15-33).   *)
(* The one exception the code has is less, not more: a process that ended  *)
(* between the installation row and the grants leaves the plugin without   *)
(* any, for good.                                                          *)
GrantsAreOfTheFirstInstall ==
  at = "up" =>
    \A p \in PluginIds :
      /\ bundle[p] # None => kinds[p] = bundle[p].kind
      /\ {g \in grants : g[1] = p} \ {Account(p)} =
           IF first[p] = None \/ p \in cut THEN {}
           ELSE IF first[p].kind = "builtin" THEN Asked(p, first[p]) ELSE {}

(* Once the application is up, whatever releases came and wherever earlier *)
(* starts were cut off, the active theme is one it has loaded, and the     *)
(* rows that say that they are valid are the themes loaded, each of the    *)
(* plugin that brought it (themes.rs 242-304).                             *)
ThemesAreLoaded ==
  at = "up" =>
    /\ Loaded(active)
    /\ catalogue = {<<t, themes[t].plugin>> : t \in {t \in ThemeIds :
                                                       themes[t] # None /\ themes[t].valid}}
=============================================================================
