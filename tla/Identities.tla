------------------------------ MODULE Identities ------------------------------
(***************************************************************************)
(* Identity profiles (identity.rs): who the author of a commit is.  A      *)
(* profile is a row; the profile of the whole machine is a pointer in      *)
(* global_settings and a copy in git's global configuration; the profile   *)
(* of a repository is a row and a copy in the repository's own             *)
(* configuration.  Row and copy are written one after the other, the copy  *)
(* key by key, and every one of these writes may fail.  One lock covers    *)
(* the profiles and the global file, and a lock per repository, shared     *)
(* with the commits of git/service.rs, covers its file.                    *)
(*                                                                         *)
(* Two of the six managed keys stand for all: a name, which every identity *)
(* needs, and a flag, whose absence means off.  A target is a              *)
(* configuration file, and at the same time the lock that covers it.       *)
(* Reading a file is one step, and so is the unset, add and read back of   *)
(* one key.  `loose` is not in the code: the files that the user, a crash  *)
(* or a failed rollback has changed behind its back.                       *)
(***************************************************************************)
EXTENDS Naturals, FiniteSets

CONSTANTS
  Profiles,
  Repositories,
  Calls,
  Names,        \* the values of user.name
  Contents,     \* the contents a user gives to a profile: name and flag
  MaxEdits,     \* bound: how often the user edits a file by hand
  MaxCrashes    \* bound: how often the process dies

None    == "none"
Global  == "global"

Content == Names \X {"off", "on"}

ASSUME IdentitiesAssumption ==
  /\ Contents \subseteq Content
  /\ Global \notin Repositories /\ None \notin Profiles
  /\ MaxEdits \in Nat /\ MaxCrashes \in Nat

VARIABLES
  profiles,     \* profile -> its content, or that there is no row
  pointer,      \* the global profile, or None
  binding,      \* repository -> its profile, or None
  config,       \* target -> key -> value, or None
  call,
  starting,     \* the process is starting: no call yet
  edits, crashes,
  loose

bounds == <<edits, crashes>>
rows   == <<profiles, pointer, binding>>
vars   == <<profiles, pointer, binding, config, call, starting, edits, crashes, loose>>

NoProfile == <<None, None>>
Targets == Repositories \cup {Global}
Keys    == {"name", "flag"}
Empty   == [k \in Keys |-> None]

Existing == {p \in Profiles : profiles[p] # NoProfile}
Bound(p) == {r \in Repositories : binding[r] = p}

\* profile_config.
ProfileConfig(x) == [k \in Keys |-> IF k = "name" THEN x[1] ELSE x[2]]

\* The value git goes by: a flag that is not there is off.
Semantic(k, v) == IF k = "flag" /\ v = None THEN "off" ELSE v

\* config_drift is exact, and global_config_drift by what the values mean.
Drifted(r, x) == config[r] # ProfileConfig(x)
GlobalDrift(x) ==
  {k \in Keys : Semantic(k, config[Global][k]) # ProfileConfig(x)[k]}

\* What a file says where it says something, and the rest from below.
Overlay(file, below) == [k \in Keys |-> IF file[k] # None THEN file[k] ELSE below[k]]

Idle == [at |-> "idle", locks |-> {}]
At(c, at) == call[c].at = at
Free(t) == \A c \in Calls : t \notin call[c].locks
Return(c) == call' = [call EXCEPT ![c] = Idle]

\* What a call writes to.
Target(c) == IF call[c].op \in {"bind", "unbind"} THEN call[c].repo ELSE Global
WritesTo(t) ==
  {c \in Calls : call[c].at \in {"writing", "storing", "restoring"} /\ Target(c) = t}

Init ==
  /\ profiles = [p \in Profiles |-> NoProfile]
  /\ pointer = None
  /\ binding = [r \in Repositories |-> None]
  /\ config \in [Targets -> [Keys -> Names \cup {None, "off", "on"}]]
  /\ \A t \in Targets :
       /\ config[t]["name"] \in Names \cup {None}
       /\ config[t]["flag"] \in {None, "on"}
  /\ call = [c \in Calls |-> Idle]
  /\ starting = TRUE
  /\ edits = 0 /\ crashes = 0
  /\ loose = {}

-----------------------------------------------------------------------------
\* The start of the process: import_global_if_empty, before any call.  A
\* signing flag without a format and a key is not taken over, and is at once
\* seen as drift.  A flag that is not there is off.
Import(p) ==
  \E flag \in {"off", Semantic("flag", config[Global]["flag"])} :
    /\ Existing = {} /\ config[Global]["name"] # None
    /\ profiles' = [profiles EXCEPT ![p] = <<config[Global]["name"], flag>>]
    /\ pointer' = p
    /\ loose' = IF flag = Semantic("flag", config[Global]["flag"]) THEN loose
                ELSE loose \cup {Global}
    /\ UNCHANGED binding

NothingToImport ==
  /\ Existing # {} \/ config[Global]["name"] = None
  /\ UNCHANGED <<rows, loose>>

Start ==
  /\ starting
  /\ starting' = FALSE
  /\ NothingToImport \/ \E p \in Profiles : Import(p)
  /\ UNCHANGED <<config, call, bounds>>

-----------------------------------------------------------------------------
Ready(c) == At(c, "idle") /\ ~starting

\* A call that has read its file and is about to write it, key by key.
Writing(c, op, r, p, goal, t, locks) ==
  [at |-> "writing", locks |-> locks, op |-> op, repo |-> r, profile |-> p,
   goal |-> goal, before |-> config[t], left |-> Keys]

\* create, and the row of a profile nobody uses: no lock, or a lock that is
\* given back in the same step.
Create(c, p, x) ==
  /\ Ready(c)
  /\ profiles[p] = NoProfile
  /\ profiles' = [profiles EXCEPT ![p] = x]
  /\ UNCHANGED <<pointer, binding, config, call, starting, bounds, loose>>

\* delete: the global profile is refused by the code, a bound one by the
\* database.
Delete(c, p) ==
  /\ Ready(c) /\ Free(Global)
  /\ p \in Existing /\ p # pointer /\ Bound(p) = {}
  /\ profiles' = [profiles EXCEPT ![p] = NoProfile]
  /\ UNCHANGED <<pointer, binding, config, call, starting, bounds, loose>>

\* update, with new values for the managed fields: refused while a repository
\* is bound to the profile, and applied to the global file first if it is the
\* global profile.
Update(c, p, x) ==
  /\ Ready(c) /\ Free(Global)
  /\ p \in Existing /\ profiles[p] # x /\ Bound(p) = {}
  /\ IF p = pointer
     THEN /\ call' = [call EXCEPT ![c] = Writing(c, "update", None, p, ProfileConfig(x), Global, {Global})]
          /\ UNCHANGED profiles
     ELSE /\ profiles' = [profiles EXCEPT ![p] = x]
          /\ UNCHANGED call
  /\ UNCHANGED <<pointer, binding, config, starting, bounds, loose>>

SetGlobal(c, p) ==
  /\ Ready(c) /\ Free(Global)
  /\ p \in Existing
  /\ call' = [call EXCEPT ![c] =
       Writing(c, "setGlobal", None, p, ProfileConfig(profiles[p]), Global, {Global})]
  /\ UNCHANGED <<rows, config, starting, bounds, loose>>

\* bind_repository and unbind_repository wait for the repository with the
\* lock of the profiles in their hands.
Wait(c, op, r, p) ==
  /\ Ready(c) /\ Free(Global)
  /\ call' = [call EXCEPT ![c] =
       [at |-> "waiting", locks |-> {Global}, op |-> op, repo |-> r, profile |-> p]]
  /\ UNCHANGED <<rows, config, starting, bounds, loose>>

Bind(c, r, p) == Wait(c, "bind", r, p)

\* Mutant: the repository first, then the profiles.
Unbind_RepositoryFirst(c, r) ==
  /\ Ready(c) /\ Free(r)
  /\ call' = [call EXCEPT ![c] =
       [at |-> "waiting", locks |-> {r}, op |-> "unbind", repo |-> r, profile |-> None]]
  /\ UNCHANGED <<rows, config, starting, bounds, loose>>

Unbind(c, r) == Wait(c, "unbind", r, None)

\* With both locks: the binding that is there must not have drifted.
Refused(c) ==
  LET r == call[c].repo
      unknown == call[c].op = "bind" /\ call[c].profile \notin Existing
      unbound == call[c].op = "unbind" /\ binding[r] = None
      drifted == binding[r] # None /\ Drifted(r, profiles[binding[r]])
  IN  unknown \/ unbound \/ drifted

\* Mutant: the profile of a bind is written without the repository's lock.
Enter_WithoutLock(c) ==
  LET r == call[c].repo
      goal == IF call[c].op = "bind" THEN ProfileConfig(profiles[call[c].profile]) ELSE Empty
  IN
  /\ At(c, "waiting")
  /\ call' = [call EXCEPT ![c] =
       IF Refused(c) THEN Idle
       ELSE Writing(c, call[c].op, r, call[c].profile, goal, r, {Global})]
  /\ UNCHANGED <<rows, config, starting, bounds, loose>>

Enter(c) ==
  LET r == call[c].repo
      goal == IF call[c].op = "bind" THEN ProfileConfig(profiles[call[c].profile]) ELSE Empty
  IN
  /\ At(c, "waiting")
  /\ \A t \in {Global, r} \ call[c].locks : Free(t)
  /\ call' = [call EXCEPT ![c] =
       IF Refused(c) THEN Idle
       ELSE Writing(c, call[c].op, r, call[c].profile, goal, r, {Global, r})]
  /\ UNCHANGED <<rows, config, starting, bounds, loose>>

-----------------------------------------------------------------------------
\* write_snapshot, one key in the order of MANAGED_CONFIG_KEYS.
NextKey(c) == IF "name" \in call[c].left THEN "name" ELSE "flag"
Put(t, k, v) == config' = [config EXCEPT ![t][k] = v]

\* A git that fails leaves the key as it was, unset, or written.
Botched(c, values) ==
  \E v \in {config[Target(c)][NextKey(c)], None, values[NextKey(c)]} :
    Put(Target(c), NextKey(c), v)

WriteKey(c) ==
  /\ At(c, "writing")
  /\ \/ /\ Put(Target(c), NextKey(c), call[c].goal[NextKey(c)])
        /\ call' = [call EXCEPT ![c].left = @ \ {NextKey(c)},
                                ![c].at = IF call[c].left = {NextKey(c)} THEN "storing" ELSE @]
     \/ /\ Botched(c, call[c].goal)
        /\ call' = [call EXCEPT ![c].left = Keys, ![c].at = "restoring"]
  /\ UNCHANGED <<rows, starting, bounds, loose>>

\* The row, after the file.
StoreRow(c) ==
  LET p == call[c].profile  r == call[c].repo IN
  \/ /\ call[c].op = "update"
     /\ profiles' = [profiles EXCEPT ![p] = <<call[c].goal["name"], call[c].goal["flag"]>>]
     /\ UNCHANGED <<pointer, binding>>
  \/ call[c].op = "setGlobal" /\ pointer' = p /\ UNCHANGED <<profiles, binding>>
  \/ call[c].op = "bind" /\ binding' = [binding EXCEPT ![r] = p] /\ UNCHANGED <<profiles, pointer>>
  \/ call[c].op = "unbind" /\ binding' = [binding EXCEPT ![r] = None] /\ UNCHANGED <<profiles, pointer>>

Stored(c) ==
  /\ StoreRow(c)
  /\ Return(c)
  /\ loose' = IF config[Target(c)] = call[c].goal THEN loose \ {Target(c)} ELSE loose
  /\ UNCHANGED config

\* Mutant: the file keeps what was written for a row that was not.
Store_Keep(c) ==
  /\ At(c, "storing")
  /\ \/ Stored(c)
     \/ Return(c) /\ UNCHANGED <<rows, config, loose>>
  /\ UNCHANGED <<starting, bounds>>

Store(c) ==
  /\ At(c, "storing")
  /\ \/ Stored(c)
     \/ /\ call' = [call EXCEPT ![c].left = Keys, ![c].at = "restoring"]
        /\ UNCHANGED <<rows, config, loose>>
  /\ UNCHANGED <<starting, bounds>>

\* restore_target_or_error: the same loop, with what the file said before.
\* Mutant: the flag is not restored.
Restore_NameOnly(c) ==
  /\ At(c, "restoring")
  /\ \/ /\ Put(Target(c), "name", call[c].before["name"]) /\ Return(c)
        /\ UNCHANGED loose
     \/ Botched(c, call[c].before) /\ Return(c) /\ loose' = loose \cup {Target(c)}
  /\ UNCHANGED <<rows, starting, bounds>>

Restore(c) ==
  /\ At(c, "restoring")
  /\ \/ /\ Put(Target(c), NextKey(c), call[c].before[NextKey(c)])
        /\ IF call[c].left = {NextKey(c)} THEN Return(c)
           ELSE call' = [call EXCEPT ![c].left = @ \ {NextKey(c)}]
        /\ UNCHANGED loose
     \/ Botched(c, call[c].before) /\ Return(c) /\ loose' = loose \cup {Target(c)}
  /\ UNCHANGED <<rows, starting, bounds>>

-----------------------------------------------------------------------------
\* resolve_commit_identity: what to pass to git, by the profile the caller
\* asks for, the binding, or the global profile or file below the
\* repository's own keys.
Identity(source, p, values) == [source |-> source, profile |-> p, values |-> values]

Selected(p) == Identity("selected", p, ProfileConfig(profiles[p]))

Effective(r) ==
  LET below == IF pointer # None THEN ProfileConfig(profiles[pointer]) ELSE config[Global]
      values == [k \in Keys |-> Semantic(k, Overlay(config[r], below)[k])]
      shown == {k \in Keys : config[r][k] = None}
      drift == pointer # None /\ GlobalDrift(profiles[pointer]) \cap shown # {}
      source == IF config[r] # Empty THEN "local"
                ELSE IF pointer # None THEN "global" ELSE "external"
  IN
  IF binding[r] # None
  THEN IF Drifted(r, profiles[binding[r]]) THEN {}
       ELSE {Identity("binding", binding[r], ProfileConfig(profiles[binding[r]]))}
  ELSE IF drift \/ values["name"] = None THEN {}
  ELSE {Identity(source, pointer, values)}

\* commit_with_identity: under the repository's lock until git has ended.  A
\* call that finds no identity is refused.
Commit(c, r, asked) ==
  /\ Ready(c) /\ Free(r)
  /\ \E identity \in (IF asked = None THEN Effective(r) ELSE {Selected(asked)}) :
       call' = [call EXCEPT ![c] =
         [at |-> "committing", locks |-> {r}, op |-> "commit", repo |-> r,
          identity |-> identity, edited |-> FALSE]]
  /\ UNCHANGED <<rows, config, starting, bounds, loose>>

Committed(c) ==
  /\ At(c, "committing")
  /\ Return(c)
  /\ UNCHANGED <<rows, config, starting, bounds, loose>>

-----------------------------------------------------------------------------
\* The user with an editor, or with git config.
Edit(t, k, v) ==
  /\ edits < MaxEdits
  /\ v # config[t][k]
  /\ edits' = edits + 1
  /\ Put(t, k, v)
  /\ loose' = loose \cup {t}
  /\ call' = [c \in Calls |->
       IF At(c, "committing") /\ call[c].repo = t THEN [call[c] EXCEPT !.edited = TRUE]
       ELSE call[c]]
  /\ UNCHANGED <<rows, starting, crashes>>

\* The process dies.  What it was writing may lack the key it had just unset.
Crash ==
  /\ crashes < MaxCrashes /\ ~starting
  /\ crashes' = crashes + 1
  /\ starting' = TRUE
  /\ call' = [c \in Calls |-> Idle]
  /\ loose' = loose \cup {t \in Targets : WritesTo(t) # {}}
  /\ \/ UNCHANGED config
     \/ \E c \in Calls :
          call[c].at \in {"writing", "restoring"} /\ Put(Target(c), NextKey(c), None)
  /\ UNCHANGED <<rows, edits>>

Step(c) == WriteKey(c) \/ Store(c) \/ Restore(c) \/ Committed(c)

CallNext(c) ==
  \/ Step(c) \/ Enter(c)
  \/ \E p \in Profiles :
       \/ Delete(c, p) \/ SetGlobal(c, p)
       \/ \E x \in Contents : Create(c, p, x) \/ Update(c, p, x)
  \/ \E r \in Repositories :
       \/ Unbind(c, r)
       \/ \E p \in Profiles : Bind(c, r, p)
       \/ \E asked \in Existing \cup {None} : Commit(c, r, asked)

Next ==
  \/ Start \/ Crash
  \/ \E c \in Calls : CallNext(c)
  \/ \E t \in Targets :
       \/ \E v \in Names : Edit(t, "name", v)
       \/ \E v \in {None, "on"} : Edit(t, "flag", v)

Spec == Init /\ [][Next]_vars

-----------------------------------------------------------------------------
\* Row and copy agree: a repository that is bound has the values of its
\* profile in its file, and the global file those of the global profile,
\* unless a call is at work on that file or somebody else has been
\* (bind_repository, unbind_repository, set_global, update).
RowsAndFilesAgree ==
  /\ pointer # None /\ Global \notin loose /\ WritesTo(Global) = {}
       => pointer \in Existing /\ GlobalDrift(profiles[pointer]) = {}
  /\ \A r \in Repositories :
       binding[r] # None /\ r \notin loose /\ WritesTo(r) = {}
         => binding[r] \in Existing /\ ~Drifted(r, profiles[binding[r]])

\* While git makes the commit of a bound repository the binding, its profile
\* and, but for the user, the file stay what the identity was taken from
\* ("This prevents a binding/profile apply from interleaving between identity
\* resolution and the commit process", git/service.rs).
CommitsKeepTheirIdentity ==
  \A c \in Calls : At(c, "committing") /\ call[c].identity.source = "binding" =>
    LET r == call[c].repo  id == call[c].identity IN
    /\ binding[r] = id.profile
    /\ ProfileConfig(profiles[id.profile]) = id.values
    /\ call[c].edited \/ config[r] = id.values

\* A call that fails and rolls back leaves its file as it has found it.
FailuresRestore ==
  [][\A c \in Calls :
       At(c, "restoring") /\ call'[c] = Idle /\ ~starting' /\ Target(c) \notin loose'
         => config'[Target(c)] = call[c].before]_vars

\* Nobody waits for a call that is waiting itself: the profiles are locked
\* before the repository, by all (bind_repository, unbind_repository).
Needs(c) == IF At(c, "waiting") THEN {Global, call[c].repo} \ call[c].locks ELSE {}
NoCircularWait ==
  \A c, d \in Calls : call[d].locks \cap Needs(c) # {} => ~At(d, "waiting")

=============================================================================
