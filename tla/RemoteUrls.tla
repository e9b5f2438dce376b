------------------------------ MODULE RemoteUrls ------------------------------
(***************************************************************************)
(* The addresses of remotes: what git's configuration says of them         *)
(* (git/parser.rs), which of them may be cloned and pushed to              *)
(* (git/transport/url.rs, and the window's reading of it in hostApi.ts),   *)
(* and which repository of a hosting service they name                     *)
(* (providers/url.rs, providers/service.rs).                               *)
(*                                                                         *)
(* An address is a record of the parts the code tells apart.  Its path is  *)
(* a sequence of components; a component is a name, with ".git" or not, or *)
(* one the code refuses.  Lengths, control characters and backslashes,     *)
(* which every reader refuses, are left out.                               *)
(***************************************************************************)
EXTENDS Integers, Sequences, SequencesExt

CONSTANTS
  Lower,        \* function: a host as written -> the host
  Bracketed,    \* the hosts that are IPv6 addresses, "[...]" as url prints them
  Bare          \* function: a component that ends in ".git" -> without

Doubled == "[[...]]"      \* an IPv6 address in a second pair of brackets
NoPort  == 0
NoAddress == [form |-> "none"]

Up       == {"..", "%2e%2e"}
Here     == {".", "%2e"}
Escaped  == {"%2e", "%2e%2e", "%2f"}
Marked   == {"?"}         \* a component with a ? or # in it

\* An address with a scheme, and the form user@host:path of ssh.
Url(scheme, user, host, port, path) ==
  [form |-> "url", scheme |-> scheme, user |-> user, secret |-> FALSE, host |-> host,
   port |-> port, path |-> path, query |-> FALSE]
Scp(user, host, path) ==
  [Url("ssh", user, host, NoPort, path) EXCEPT !.form = "scp"]

-----------------------------------------------------------------------------
\* Url::parse of the url crate: the host in lower case, the port unless it is
\* the one it knows for the scheme (it knows none for ssh), the path without
\* its dots.
Collapse(path, component) ==
  CASE component \in Up -> IF path = <<>> THEN path ELSE Front(path)
    [] component \in Here -> path
    [] OTHER -> Append(path, component)

Parses(t) == t.form = "url" /\ t.host # Doubled

ParsedPort(t)  == IF t.scheme = "https" /\ t.port = 443 THEN NoPort ELSE t.port
KnownPort(t)   == t.scheme = "https" \/ t.port # NoPort
ParsedPath(t)  == FoldLeft(Collapse, <<>>, t.path)

\* canonical_port.
CanonicalPort(t) ==
  IF t.scheme = "ssh" /\ t.port = 22 THEN NoPort ELSE ParsedPort(t)

\* authority: brackets, once more, around what has a colon in it.
Authority(host) == IF host \in Bracketed THEN Doubled ELSE host

\* Without the empty components at either end.
Trimmed(path) ==
  LET named == {i \in DOMAIN path : path[i] # ""}
  IN IF named = {} THEN <<>>
     ELSE SubSeq(path, CHOOSE i \in named : \A j \in named : i <= j,
                       CHOOSE i \in named : \A j \in named : j <= i)

Stripped(path) ==
  IF path # <<>> /\ Last(path) \in DOMAIN Bare
    THEN Append(Front(path), Bare[Last(path)]) ELSE path

WithGit(path) ==
  Append(Front(path), CHOOSE c \in DOMAIN Bare : Bare[c] = Last(path))

-----------------------------------------------------------------------------
\* git/transport/url.rs, normalize_repository_path.
ClonePath(path) == Stripped(Trimmed(path))
ClonePathOK(path) ==
  /\ path # <<>>
  /\ \A i \in DOMAIN path : path[i] \notin {"", ".", ".."} \cup Escaped \cup Marked

SafeSshUsername(t) == t.user # "" /\ ~t.secret

\* validate_url and validate_scp_url: what git is to be run with.
ValidUrl(t) ==
  LET path == ClonePath(ParsedPath(t))
      host == Lower[t.host]
  IN IF /\ Parses(t) /\ ~t.query /\ ClonePathOK(path) /\ ~t.secret /\ KnownPort(t)
        /\ \/ t.scheme = "https" /\ t.user = ""
           \/ t.scheme = "ssh" /\ SafeSshUsername(t)
       THEN [kind |-> t.scheme, host |-> host, port |-> CanonicalPort(t), path |-> path,
             text |-> Url(t.scheme, t.user, Authority(host), CanonicalPort(t), WithGit(path))]
       ELSE NoAddress

ValidScp(t) ==
  LET path == ClonePath(t.path)
      host == Lower[t.host]
  IN IF /\ SafeSshUsername(t) /\ host \notin Bracketed
        /\ t.path # <<>> /\ t.path[1] # "" /\ ClonePathOK(path)
       THEN [kind |-> "ssh", host |-> host, port |-> NoPort, path |-> path,
             text |-> Scp(t.user, host, WithGit(path))]
       ELSE NoAddress

\* validate_clone_url; a remote helper ("ext::...") has a form of its own.
Valid(t) ==
  CASE t.form = "url" -> ValidUrl(t)
    [] t.form = "scp" -> ValidScp(t)
    [] t.form \notin {"url", "scp"} -> NoAddress

\* safeManualRemoteSummary: what the window shows of the address it is given.
ManualSummary(t) ==
  LET path == IF t.form = "url" THEN ClonePath(ParsedPath(t)) ELSE ClonePath(t.path)
      host == Lower[t.host]
  IN CASE /\ t.form = "url" /\ Parses(t) /\ ~t.query /\ ClonePathOK(path) /\ ~t.secret
          /\ \/ t.scheme = "https" /\ t.user = ""
             \/ t.scheme = "ssh" /\ SafeSshUsername(t) ->
            Url(t.scheme, t.user, host, CanonicalPort(t), WithGit(path))
       [] /\ t.form = "scp" /\ SafeSshUsername(t) /\ host \notin Bracketed
          /\ t.path # <<>> /\ t.path[1] # "" /\ ClonePathOK(path) ->
            Scp(t.user, host, WithGit(path))
       [] OTHER -> NoAddress

-----------------------------------------------------------------------------
\* providers/url.rs: an empty path is refused as well.
PathOK(path) ==
  path # <<>> /\ \A i \in DOMAIN path : path[i] \notin {"", ".", ".."}

\* normalize_scp_remote, for the user git only.
NormalizedScp(t) ==
  LET path == Stripped(Trimmed(t.path))
  IN IF /\ t.user = "git" /\ ~t.secret /\ Lower[t.host] \notin Bracketed
        /\ t.path # <<>> /\ t.path[1] # "" /\ PathOK(path)
       THEN [transport |-> "ssh", host |-> Lower[t.host], port |-> NoPort, path |-> path]
       ELSE NoAddress

\* normalize_remote_url.  Of an https address the user, its secret and the
\* query are dropped.
NormalizedRemote(t) ==
  LET path == Stripped(Trimmed(ParsedPath(t)))
  IN CASE t.form = "scp" -> NormalizedScp(t)
       [] t.form # "scp" /\ ~(Parses(t) /\ t.scheme \in {"https", "ssh"} /\ PathOK(path)) -> NoAddress
       [] /\ t.form # "scp" /\ Parses(t) /\ t.scheme \in {"https", "ssh"} /\ PathOK(path) ->
            IF t.scheme = "ssh" /\ (t.user \notin {"", "git"} \/ t.secret)
              THEN NoAddress
              ELSE [transport |-> t.scheme, host |-> Lower[t.host], port |-> CanonicalPort(t),
                    path |-> path]

\* sanitized_remote_url.
Sanitized(n) ==
  CASE n.transport = "https" ->
         Url("https", "", Authority(n.host), n.port, WithGit(n.path))
    [] n.transport = "ssh" /\ n.port = NoPort /\ n.host \notin Bracketed ->
         Scp("git", n.host, WithGit(n.path))
    [] n.transport = "ssh" /\ (n.port # NoPort \/ n.host \in Bracketed) ->
         Url("ssh", "git", Authority(n.host), n.port, WithGit(n.path))

\* normalize_instance_base, for a server of one's own; base is the text that
\* is kept and read again.
NormalizedInstance(t) ==
  LET root == Trimmed(ParsedPath(t))
      host == Lower[t.host]
  IN IF /\ Parses(t) /\ t.scheme = "https" /\ t.user = "" /\ ~t.secret /\ ~t.query
        /\ root = <<>> \/ PathOK(root)
       THEN [host |-> host, root |-> root,
             base |-> Url("https", "", Authority(host), CanonicalPort(t), root)]
       ELSE NoAddress

\* detect_remote: the path of the repository on the instance, or <<>>.
Detected(instance, n) ==
  LET path == SubSeq(n.path, Len(instance.root) + 1, Len(n.path))
  IN IF /\ Parses(instance.base)
        /\ instance.host = n.host /\ CanonicalPort(instance.base) = n.port
        /\ IsPrefix(instance.root, n.path) /\ Len(path) >= 2
       THEN path ELSE <<>>

-----------------------------------------------------------------------------
\* parse_git_config and parse_remote_config: of several values of a key the
\* first is kept, and a remote without a push address pushes where it fetches.
\* An entry is <<name, "url" or "pushurl", text>>.
ValuesOf(config, name, key) == SelectSeq(config, LAMBDA e : e[1] = name /\ e[2] = key)

First(values) == IF values = <<>> THEN NoAddress ELSE values[1][3]

RemoteRow(config, name) ==
  LET fetch == First(ValuesOf(config, name, "url"))
      push  == First(ValuesOf(config, name, "pushurl"))
  IN [fetch |-> fetch, push |-> IF push = NoAddress THEN fetch ELSE push]

\* refresh_remotes and replace_remotes: the rows are those of the
\* configuration, and no others.
Remotes(config) ==
  [name \in {config[i][1] : i \in DOMAIN config} |-> RemoteRow(config, name)]

\* resolve_remote of the network operations, and primary_remote of the
\* transport profiles without its choice of the remote.
OperationUrl(row, forPush) ==
  LET text == IF forPush /\ row.push # NoAddress THEN row.push ELSE row.fetch
  IN IF text = NoAddress THEN NoAddress ELSE Valid(text)

ProfileUrl(row) ==
  LET text == IF row.fetch # NoAddress THEN row.fetch ELSE row.push
  IN IF text = NoAddress THEN NoAddress ELSE Valid(text)

-----------------------------------------------------------------------------
\* analyze_remote: the addresses of a remote that can be read, without their
\* secrets, and the paths they have on the instance.
Readable(row) ==
  SelectSeq(<<row.fetch, row.push>>,
            LAMBDA t : t # NoAddress /\ NormalizedRemote(t) # NoAddress)

Analysis(instance, row) ==
  LET read == [i \in DOMAIN Readable(row) |-> NormalizedRemote(Readable(row)[i])]
  IN [detected  |-> SelectSeq([i \in DOMAIN read |->
                                 [path |-> Detected(instance, read[i]),
                                  sanitized |-> Sanitized(read[i])]],
                              LAMBDA d : d.path # <<>>),
      sanitized |-> [i \in DOMAIN read |-> Sanitized(read[i])]]

\* identity_matches_repository and the end of bind_clone_remote: the address
\* a binding to the repository of this path is kept with.
MatchedUrl(instance, row, fullName) ==
  LET fits == SelectSeq(Analysis(instance, row).detected, LAMBDA d : d.path = fullName)
  IN IF fits = <<>> THEN NoAddress ELSE fits[1].sanitized

\* The end of bind_remote: without a match the first address that can be read,
\* as the user's own choice.
BoundUrl(instance, row, fullName) ==
  LET matched   == MatchedUrl(instance, row, fullName)
      sanitized == Analysis(instance, row).sanitized
  IN CASE matched # NoAddress -> [source |-> "auto", url |-> matched]
       [] matched = NoAddress /\ sanitized # <<>> -> [source |-> "manual", url |-> sanitized[1]]
       [] matched = NoAddress /\ sanitized = <<>> -> NoAddress

\* insert_verified: a repository is offered for cloning if both its addresses
\* may be cloned from; resolve_source: the one of the transport asked for.
Offered(https, ssh) ==
  /\ Valid(https) # NoAddress /\ Valid(ssh) # NoAddress
  /\ Valid(https).kind = "https" /\ Valid(ssh).kind = "ssh"

SourceUrl(t, kind) ==
  IF Valid(t) # NoAddress /\ Valid(t).kind = kind THEN Valid(t) ELSE NoAddress
=============================================================================
