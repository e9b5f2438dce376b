------------------------------ MODULE MCStartup ------------------------------
(***************************************************************************)
(* Three plugins: one with a theme and permissions that differ from        *)
(* release to release, one that brings a theme of the same id, from its    *)
(* own package or broken in some way, and one with a Provider.  Two later  *)
(* releases.                                                               *)
(***************************************************************************)
EXTENDS Startup

Client == "a.client"
Themed == "b.themed"
Github == "git-ramus.provider.github"

MCPlugins == <<Client, Themed, Github>>

Color == [word |-> "#", digits |-> 6]
Good(id) == [id |-> id, parts |-> 2, tokens |-> <<"colors", "text">> :> Color]
Bad(id) == [Good(id) EXCEPT !.tokens = <<"motion", "durationFast">> :> [amount |-> 3000000, unit |-> "ms"]]

Theme(id, path, definition) == [id |-> id, parts |-> 2, path |-> path, definition |-> definition]

Plugin(id) ==
  [parses |-> TRUE, schemaVersion |-> 1, texts |-> TRUE, id |-> id, kind |-> "builtin",
   ui |-> "inside", navigation |-> TRUE, theme |-> None, permissions |-> {}, providers |-> {}]

Read == <<"providers:read", "providers">>
Manage == <<"providers:manage", "providers">>

GithubAdapter ==
  [provider |-> "github", adapter |-> Github, display |-> TRUE, icon |-> "github",
   modes |-> {"cloud"}, capabilities |-> {"repositoryDiscovery"}]

ClientPackages ==
  {[Plugin(Client) EXCEPT !.permissions = {Read}, !.theme = Theme("t.one", "inside", Good("t.one"))],
   [Plugin(Client) EXCEPT !.permissions = {Read, Manage},
                          !.theme = Theme("t.one", "missing", None)],
   [Plugin(Client) EXCEPT !.permissions = {Read}, !.kind = "external"],
   [Plugin(Client) EXCEPT !.permissions = {Manage}, !.kind = "external"]}

ThemedPackages ==
  {[Plugin(Themed) EXCEPT !.theme = Theme("t.one", "inside", Good("t.one"))],
   [Plugin(Themed) EXCEPT !.theme = Theme("t.two", "inside", Good("t.one"))],
   [Plugin(Themed) EXCEPT !.theme = Theme("t.two", "inside", Bad("t.two"))],
   [Plugin(Themed) EXCEPT !.theme = Theme("t.default", "inside", Good("t.default"))],
   [Plugin(Themed) EXCEPT !.ui = "linked out"]}

GithubPackages ==
  {[Plugin(Github) EXCEPT !.ui = None, !.navigation = FALSE, !.providers = {GithubAdapter}],
   [Plugin(Github) EXCEPT !.providers = {[GithubAdapter EXCEPT !.provider = "gitlab",
                                                               !.icon = "gitlab"]}]}

MCPackages ==
  (Client :> ClientPackages) @@ (Themed :> ThemedPackages) @@ (Github :> GithubPackages)

-----------------------------------------------------------------------------
(* Whatever length, duration or color the core accepts, the frontend can   *)
(* read: it would otherwise show nothing at all (App.tsx 38-66).           *)
Amounts == UNION {{n - 1, n, n + 1} :
  n \in {-4000, -250, 0, 62, 187, 188, 500, 1000, 2000, 3000, 4000, 4500, 8000, 16000, 64000, 72000,
         100000, 128000, 2000000}}

Units == {"", "px", "rem", "em", "%", "ms", "s", "vw"}

ASSUME FrontendReadsWhatTheCoreAccepts ==
  /\ \A n \in Amounts, unit \in Units :
       LET value == [amount |-> n, unit |-> unit]
       IN /\ \A t \in DOMAIN LengthBounds :
               IsLength(value, LengthBounds[t]) <=> FrontendLength(value, LengthBounds[t])
          /\ IsDuration(value) => FrontendDuration(value)
  /\ \A word \in {"#", "transparent", "currentColor", "red"}, digits \in 0..9 :
       LET value == [word |-> word, digits |-> digits]
       IN IsColor(value) => FrontendColor(value)
=============================================================================
