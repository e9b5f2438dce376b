---------------------------- MODULE ManagedConfig ----------------------------
(***************************************************************************)
(* The keys of git's local configuration that a transport profile manages  *)
(* (git/transport/config.rs): what a profile wants for a remote, and what  *)
(* is read back of it.  A key is its name as it is spelled and, for the    *)
(* name of a user, the address in its middle.  Lengths are left out.       *)
(***************************************************************************)
EXTENDS RemoteUrls, FiniteSets

Unusable == "unusable"

Key(name, url) == [name |-> name, url |-> url]
UserName == "credential.<url>.username"

\* Names as they are written and as git prints them; the middle of a key
\* keeps its spelling.
Printed ==
  [name \in {"core.sshCommand", "ssh.variant", "credential.useHttpPath", UserName} |->
     CASE name = "core.sshCommand" -> "core.sshcommand"
       [] name = "credential.useHttpPath" -> "credential.usehttppath"
       [] name \in {"ssh.variant", UserName} -> name]

\* HOST_OWNED_CONFIG_REGEX: the keys that are read; of user names those of
\* addresses that begin with https.
Owned(key) == key.name \in Range(Printed) /\ (key.name = UserName => key.url.scheme = "https")

\* canonical_managed_key.
CanonicalKey(key) ==
  CASE key.name \in (DOMAIN Printed \cup Range(Printed)) \ {UserName} ->
         Key(IF key.name \in DOMAIN Printed THEN Printed[key.name] ELSE key.name, NoAddress)
    [] key.name = UserName ->
         IF Valid(key.url) # NoAddress /\ Valid(key.url).kind = "https" /\ Valid(key.url).text = key.url
         THEN key ELSE Key(Unusable, key.url)
    [] key.name \notin DOMAIN Printed \cup Range(Printed) -> Key(Unusable, key.url)

\* shell_quote, character by character; the two quotes around it are q.
Quoted(text) ==
  <<"q">> \o FlattenSeq([i \in DOMAIN text |->
                IF text[i] = "q" THEN <<"q", "\\", "q", "q">> ELSE <<text[i]>>]) \o <<"q">>

\* ssh_config_plan and https_config_plan, as <<key, value>>; a profile whose
\* key file is not there, that has no user or that has fields of the other
\* kind is not fit, and its plan is empty.
SshPlan(profile) ==
  IF ~profile.fit THEN {}
  ELSE {<<Key("core.sshCommand", NoAddress), [file |-> Quoted(profile.text), only |-> profile.only]>>,
        <<Key("ssh.variant", NoAddress), "ssh">>}

HttpsPlan(profile, remote) ==
  IF ~profile.fit THEN {}
  ELSE {<<Key(UserName, remote.text), profile.text>>,
        <<Key("credential.useHttpPath", NoAddress), "true">>}

\* config_plan and plan_snapshot.
Plan(profile, remote) ==
  CASE profile.kind # remote.kind -> {}
    [] profile.kind = remote.kind /\ profile.kind = "ssh" -> SshPlan(profile)
    [] profile.kind = remote.kind /\ profile.kind = "https" -> HttpsPlan(profile, remote)

PlanSnapshot(plan) ==
  [key \in {CanonicalKey(p[1]) : p \in plan} |->
     <<(CHOOSE p \in plan : CanonicalKey(p[1]) = key)[2]>>]

\* parse_managed_config, of a sequence of <<key, value>>: one key that is not
\* spelled as git prints it, or whose address is not one that the program
\* would have written, spoils the whole.  The order of values is left out.
CanBeRead(entries) == \A i \in DOMAIN entries : CanonicalKey(entries[i][1]) = entries[i][1]

ParsedConfig(entries) ==
  [key \in {entries[i][1] : i \in DOMAIN entries} |->
     LET of == SelectSeq(entries, LAMBDA e : e[1] = key)
     IN [i \in DOMAIN of |-> of[i][2]]]

\* ensure_restorable_snapshot: what has several values is not touched.
Restorable(snapshot) ==
  \A key \in DOMAIN snapshot : CanonicalKey(key).name # Unusable /\ Len(snapshot[key]) = 1
=============================================================================
