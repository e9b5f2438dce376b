---------------------------- MODULE MCDiscovery ----------------------------
(***************************************************************************)
(* At most two requests, of one or two plugins on one account, and one     *)
(* deletion or revocation, with one permit and room for one cursor.  The   *)
(* service has two pages of three, or a page that names itself as the      *)
(* next.  One query matches every repository, two to a page: what is left  *)
(* over of the first page is continued with the second.  The other matches *)
(* nothing on the first page, which is read all the same, up to the limit  *)
(* of two; what is left over of the second page is the end.                *)
(***************************************************************************)
EXTENDS Discovery, RemoteUrls, TLC

CONSTANTS r1, r2, r3, r4, r5, r6

MCWanted == [all |-> {r1, r2, r3, r4, r5, r6}, last |-> {r4, r5, r6}]
MCSize == [all |-> 2, last |-> 2]

MCLayouts == {[pages |-> <<<<r1, r2, r3>>, <<r4, r5, r6>>>>, next |-> <<2, 0>>],
              [pages |-> <<<<r1, r2>>, <<r5>>>>, next |-> <<2, 2>>]}

(* One remote whose two addresses agree, one that is no address of the     *)
(* service, and one whose two addresses are of different repositories; a   *)
(* lookup may fail.                                                        *)
MCLocals == <<<<r1, r1>>, <<>>, <<r1, r2>>>>

(* Addresses of remotes: every combination of their parts, with paths that  *)
(* are in order and paths that are not.                                    *)
MCLower == ("H" :> "h") @@ ("h" :> "h") @@ ("[::1]" :> "[::1]")
MCBare == ("r.git" :> "r") @@ ("r.git.git" :> "r.git") @@ (".git" :> "")
          @@ ("g.git" :> "g") @@ ("%2f.git" :> "%2f") @@ ("?.git" :> "?")

UrlPaths == {<<>>, <<"", "g", "r.git", "">>, <<"g", "r.git.git">>, <<"g", "", "r">>, <<"g", ".git">>,
             <<"g", "..", "g", ".", "r">>, <<"%2e%2e", "g">>, <<"root", "g", "r.git">>, <<"g", "%2f">>}
Texts ==
  [form : {"url"}, scheme : {"https", "ssh", "http"}, user : {"", "git", "deploy"},
   secret : BOOLEAN, host : DOMAIN MCLower, port : {NoPort, 22, 443, 8443}, path : UrlPaths,
   query : BOOLEAN]
  \cup
  [form : {"scp"}, scheme : {"ssh"}, user : {"", "git", "deploy"}, secret : BOOLEAN,
   host : DOMAIN MCLower, port : {NoPort}, path : UrlPaths \cup {<<"?", "r">>}, query : {FALSE}]

IPv6(t) == Lower[t.host] \in Bracketed
Portless(t) == t.form = "url" /\ t.scheme = "ssh" /\ CanonicalPort(t) = NoPort

(* What git is run with is accepted again when it comes back from git's    *)
(* configuration, and says the same; but not IPv6 addresses, whose         *)
(* brackets are doubled, nor ssh:// without a port, which is what becomes  *)
(* of ssh:// with port 22.                                                 *)
ASSUME ClonedAddressesAreAccepted ==
  \A t \in Texts : Valid(t) # NoAddress =>
    (Valid(Valid(t).text) = Valid(t) <=> ~IPv6(t) /\ ~Portless(t))

(* The window asks about the very address that is then used.  It accepts   *)
(* ssh:// without a port, which the core refuses.                          *)
ASSUME WindowShowsWhatIsUsed ==
  \A t \in Texts :
    IF Valid(t) # NoAddress THEN ManualSummary(t) = Valid(t).text \/ IPv6(t)
    ELSE ManualSummary(t) # NoAddress =>
           Portless(t) /\ Valid([t EXCEPT !.port = 22]).path = ClonePath(ParsedPath(t))

(* What is shown of a remote, without its secrets, still names the same    *)
(* repository.                                                             *)
ASSUME SanitizedNamesTheSame ==
  \A t \in Texts : NormalizedRemote(t) # NoAddress /\ ~IPv6(t) =>
    NormalizedRemote(Sanitized(NormalizedRemote(t))) = NormalizedRemote(t)

(* A repository of an instance can be offered for cloning over both        *)
(* transports, and its clone is recognised by its new remote; over ssh     *)
(* only if the instance is at the root of the default port, else the user  *)
(* can bind it all the same.  The network operations and the transport     *)
(* profiles then find the address that was cloned from.                    *)
Address(instance, kind, fullName) ==
  IF kind = "https" THEN [instance.base EXCEPT !.path = @ \o WithGit(fullName)]
                    ELSE Scp("git", instance.host, WithGit(fullName))

ASSUME ClonesAreRecognised ==
  \A host \in {"H", "h"}, port \in {NoPort, 443, 8443}, root \in {<<>>, <<"root", "">>},
     kind \in {"https", "ssh"} :
    LET instance == NormalizedInstance(Url("https", "", host, port, root))
        name     == <<"g", "r">>
        clone    == SourceUrl(Address(instance, kind, name), kind)
        row      == Remotes(<<<<"origin", "url", clone.text>>>>)["origin"]
    IN /\ Offered(Address(instance, "https", name), Address(instance, "ssh", name))
       /\ BoundUrl(instance, row, name) =
            [source |-> IF kind = "https" \/ (instance.base.port = NoPort /\ instance.root = <<>>)
                          THEN "auto" ELSE "manual",
             url    |-> clone.text]
       /\ OperationUrl(row, TRUE) = clone
       /\ ProfileUrl(row) = clone

MCSymmetry == Permutations(Calls) \cup Permutations(Plugins)
=============================================================================
