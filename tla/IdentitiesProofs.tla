--------------------------- MODULE IdentitiesProofs ---------------------------
(***************************************************************************)
(* Identity profiles, for every number of profiles, repositories, calls,   *)
(* edits and crashes.  A call that writes has the lock of the profiles,    *)
(* and that of its repository if it has one, so there is one writer, and   *)
(* no commit in the repository it writes to.  RowsAndFilesAgree speaks of  *)
(* files nobody writes to; to be inductive it needs how far a writer is in *)
(* its file (FileInv), that what it writes is still what its row will say  *)
(* when it is done (GoalInv), and that no row refers to a profile that is  *)
(* gone (Referenced).                                                      *)
(***************************************************************************)
EXTENDS Identities, TLAPS

Flag  == {None, "off", "on"}
Value == Names \cup Flag
File  == {f \in [Keys -> Value] : f["flag"] \in Flag}
Row   == Value \X {"off", "on"}

Waiting ==
  [at : {"waiting"}, locks : {{Global}}, op : {"bind", "unbind"},
   repo : Repositories, profile : Profiles \cup {None}]

ToGlobal ==
  [at : {"writing", "storing", "restoring"}, locks : {{Global}}, op : {"update", "setGlobal"},
   repo : {None}, profile : Profiles, goal : File, before : File, left : SUBSET Keys]

ToRepository ==
  UNION {[at : {"writing", "storing", "restoring"}, locks : {{Global, r}}, op : {"bind", "unbind"},
          repo : {r}, profile : Profiles \cup {None}, goal : File, before : File,
          left : SUBSET Keys] : r \in Repositories}

Resolved ==
  {id \in [source : {"selected", "binding", "local", "global", "external"},
           profile : Profiles \cup {None}, values : [Keys -> Value]] :
     id.source = "binding" => id.profile # None}

Committing ==
  UNION {[at : {"committing"}, locks : {{r}}, op : {"commit"}, repo : {r},
          identity : Resolved, edited : BOOLEAN] : r \in Repositories}

CallRec == {Idle} \cup Waiting \cup ToGlobal \cup ToRepository \cup Committing

TypeInv ==
  /\ profiles \in [Profiles -> Row \cup {NoProfile}]
  /\ pointer \in Profiles \cup {None}
  /\ binding \in [Repositories -> Profiles \cup {None}]
  /\ config \in [Targets -> File]
  /\ call \in [Calls -> CallRec]
  /\ starting \in BOOLEAN
  /\ loose \subseteq Targets

\* No two calls have a lock in common, and none is at work during a start.
LocksExclude ==
  /\ \A c, d \in Calls : c # d => call[c].locks \cap call[d].locks = {}
  /\ starting => \A c \in Calls : call[c] = Idle

\* A profile that is bound or global has its row.
Referenced ==
  /\ pointer # None => pointer \in Existing
  /\ \A r \in Repositories : binding[r] # None => binding[r] \in Existing

\* The file f, as the file of the target t, agrees with the rows.
Fits(f, t) ==
  IF t = Global
    THEN pointer # None =>
           \A k \in Keys : Semantic(k, f[k]) = ProfileConfig(profiles[pointer])[k]
    ELSE binding[t] # None => f = ProfileConfig(profiles[binding[t]])

\* What a call writes is what its row will say, and nobody may change the
\* profile it takes it from.
GoalInv(c) ==
  /\ call[c].op \in {"setGlobal", "bind"} =>
       /\ call[c].profile \in Existing
       /\ call[c].goal = ProfileConfig(profiles[call[c].profile])
  /\ call[c].op = "update" =>
       /\ call[c].profile = pointer /\ Bound(pointer) = {}
       /\ call[c].goal["flag"] # None

\* How far it is, unless somebody else has had a hand in the file.
FileInv(c) ==
  LET file == config[Target(c)] IN
  /\ Fits(call[c].before, Target(c))
  /\ At(c, "writing") => \A k \in Keys \ call[c].left : file[k] = call[c].goal[k]
  /\ At(c, "storing") => file = call[c].goal
  /\ At(c, "restoring") => \A k \in Keys \ call[c].left : file[k] = call[c].before[k]

AtWork(c) == call[c].at \in {"writing", "storing", "restoring"}

WorkInv ==
  \A c \in Calls : AtWork(c) => GoalInv(c) /\ (Target(c) \notin loose => FileInv(c))

\* Every file nobody writes to.
QuietInv ==
  \A t \in Targets : t \notin loose /\ WritesTo(t) = {} => Fits(config[t], t)

IdentInv ==
  TypeInv /\ LocksExclude /\ Referenced /\ WorkInv /\ QuietInv /\ CommitsKeepTheirIdentity

-----------------------------------------------------------------------------
\* A call that writes has the lock of the profiles, so there is only one.
LEMMA AtWorkFacts ==
  ASSUME TypeInv, NEW c \in Calls, AtWork(c)
  PROVE  /\ call[c] \in ToGlobal \cup ToRepository
         /\ Target(c) \in Targets
         /\ call[c].locks = {Global, Target(c)}
         /\ call[c].op \in {"update", "setGlobal", "bind", "unbind"}
         /\ call[c].op \in {"update", "setGlobal"} =>
              Target(c) = Global /\ call[c].profile \in Profiles
         /\ call[c].op \in {"bind", "unbind"} =>
              Target(c) \in Repositories /\ Target(c) = call[c].repo
         /\ call[c].profile \in Profiles \cup {None}
         /\ call[c].goal \in File /\ call[c].before \in File /\ call[c].left \subseteq Keys
<1>1. call[c] \in ToGlobal \cup ToRepository
  <2>1. call[c] \in CallRec
    BY DEF TypeInv
  <2> QED
    BY <2>1 DEF CallRec, AtWork, Idle, Waiting, Committing
<1>2. CASE call[c] \in ToGlobal
  BY <1>2 DEF ToGlobal, Target, Targets
<1>3. CASE call[c] \in ToRepository
  BY <1>3 DEF ToRepository, Target, Targets
<1> QED
  BY <1>1, <1>2, <1>3

LEMMA OneWriter ==
  ASSUME TypeInv, LocksExclude, NEW c \in Calls, NEW d \in Calls, AtWork(c), AtWork(d)
  PROVE  c = d
<1>1. Global \in call[c].locks /\ Global \in call[d].locks
  BY AtWorkFacts
<1> QED
  BY <1>1 DEF LocksExclude

\* A commit has the lock of its repository, so nobody writes there.
LEMMA CommitFacts ==
  ASSUME TypeInv, NEW c \in Calls, At(c, "committing")
  PROVE  /\ call[c].repo \in Repositories /\ call[c].locks = {call[c].repo}
         /\ call[c] \in [at : {"committing"}, locks : {{call[c].repo}}, op : {"commit"},
                         repo : {call[c].repo}, identity : Resolved, edited : BOOLEAN]
<1>1. call[c] \in CallRec
  BY DEF TypeInv
<1>2. call[c] \in Committing
  BY <1>1 DEF CallRec, At, Idle, Waiting, ToGlobal, ToRepository
<1> QED
  BY <1>2 DEF Committing

LEMMA CommitAlone ==
  ASSUME TypeInv, LocksExclude, NEW c \in Calls, NEW d \in Calls, At(c, "committing"), AtWork(d)
  PROVE  Target(d) # call[c].repo
<1>1. c # d
  BY DEF At, AtWork
<1> QED
  BY <1>1, AtWorkFacts, CommitFacts DEF LocksExclude

\* When the lock of the profiles is free, nobody is at work.
LEMMA FreeProfiles ==
  ASSUME TypeInv, Free(Global), NEW c \in Calls
  PROVE  ~AtWork(c)
BY AtWorkFacts DEF Free

-----------------------------------------------------------------------------
\* A step of one call that is not writing, and leaves rows and files alone.
LEMMA CallStep ==
  ASSUME IdentInv, NEW c \in Calls, NEW rec \in CallRec, ~AtWork(c),
         call' = [call EXCEPT ![c] = rec],
         UNCHANGED <<profiles, pointer, binding, config, loose, starting>>,
         starting => rec = Idle,
         \A d \in Calls : d # c => call[d].locks \cap rec.locks = {},
         AtWork(c)' => GoalInv(c)' /\ (Target(c)' \notin loose => FileInv(c)'),
         rec.at = "committing" /\ rec.identity.source = "binding" =>
           /\ binding[rec.repo] = rec.identity.profile
           /\ ProfileConfig(profiles[rec.identity.profile]) = rec.identity.values
           /\ config[rec.repo] = rec.identity.values
  PROVE  IdentInv'
<1> USE DEF IdentInv
<1>1. call'[c] = rec /\ \A d \in Calls : d # c => call'[d] = call[d]
  BY DEF TypeInv
<1>2. TypeInv'
  BY DEF TypeInv
<1>3. LocksExclude'
  BY <1>1 DEF LocksExclude
<1>4. Referenced'
  BY DEF Referenced, Existing
<1>5. WorkInv'
  <2> SUFFICES ASSUME NEW d \in Calls, AtWork(d)'
               PROVE  GoalInv(d)' /\ (Target(d)' \notin loose => FileInv(d)')
    BY DEF WorkInv
  <2>1. CASE d = c
    BY <2>1
  <2>2. CASE d # c
    <3>1. AtWork(d) /\ Target(d)' = Target(d)
      BY <2>2, <1>1 DEF AtWork, Target
    <3>2. GoalInv(d) /\ (Target(d) \notin loose => FileInv(d))
      BY <3>1 DEF WorkInv
    <3>3. GoalInv(d)'
      BY <3>2, <2>2, <1>1 DEF GoalInv, Existing, Bound, ProfileConfig
    <3>4. FileInv(d) => FileInv(d)'
      BY <3>1, <2>2, <1>1 DEF FileInv, Fits, At, Semantic, ProfileConfig
    <3> QED
      BY <3>1, <3>2, <3>3, <3>4
  <2> QED
    BY <2>1, <2>2
<1>6. QuietInv'
  <2> SUFFICES ASSUME NEW t \in Targets, t \notin loose, WritesTo(t)' = {}
               PROVE  Fits(config[t], t)'
    BY DEF QuietInv, Targets
  <2>1. WritesTo(t) = {}
    <3> SUFFICES ASSUME NEW d \in WritesTo(t)
                 PROVE  FALSE
      OBVIOUS
    <3>1. d # c
      BY DEF WritesTo, AtWork
    <3>2. d \in WritesTo(t)'
      BY <3>1, <1>1 DEF WritesTo, Target
    <3> QED
      BY <3>2
  <2>2. Fits(config[t], t)
    BY <2>1 DEF QuietInv
  <2> QED
    BY <2>2 DEF Fits, Semantic, ProfileConfig
<1>7. CommitsKeepTheirIdentity'
  <2> SUFFICES ASSUME NEW d \in Calls, At(d, "committing")', call'[d].identity.source = "binding"
               PROVE  /\ binding[call'[d].repo] = call'[d].identity.profile
                      /\ ProfileConfig(profiles[call'[d].identity.profile]) = call'[d].identity.values
                      /\ call'[d].edited \/ config[call'[d].repo] = call'[d].identity.values
    BY DEF CommitsKeepTheirIdentity, ProfileConfig
  <2>1. CASE d = c
    BY <2>1, <1>1 DEF At
  <2>2. CASE d # c
    BY <2>2, <1>1 DEF At, CommitsKeepTheirIdentity
  <2> QED
    BY <2>1, <2>2
<1> QED
  BY <1>2, <1>3, <1>4, <1>5, <1>6, <1>7

\* A profile nobody needs gets another content, or goes.
LEMMA RowStep ==
  ASSUME IdentInv, NEW p \in Profiles, NEW x \in Row \cup {NoProfile},
         profiles' = [profiles EXCEPT ![p] = x],
         UNCHANGED <<pointer, binding, config, call, loose, starting>>,
         p # pointer, Bound(p) = {},
         \A d \in Calls : AtWork(d) /\ call[d].op \in {"setGlobal", "bind"} => call[d].profile # p
  PROVE  IdentInv'
<1> USE DEF IdentInv
<1>1. /\ \A q \in Profiles : q # p => profiles'[q] = profiles[q]
      /\ \A q \in Existing : q # p => q \in Existing'
  BY DEF TypeInv, Existing
<1>2. \A r \in Repositories : binding[r] # p
  BY DEF Bound
<1>3. TypeInv'
  BY DEF TypeInv
<1>4. LocksExclude'
  BY DEF LocksExclude
<1>5. Referenced'
  BY <1>1, <1>2 DEF Referenced
<1>6. ASSUME NEW t \in Targets, NEW f
      PROVE  Fits(f, t) => Fits(f, t)'
  <2>1. pointer # None => pointer \in Profiles /\ profiles'[pointer] = profiles[pointer]
    BY <1>1 DEF TypeInv
  <2>2. t \in Repositories /\ binding[t] # None => profiles'[binding[t]] = profiles[binding[t]]
    BY <1>1, <1>2 DEF TypeInv
  <2> QED
    BY <2>1, <2>2 DEF Fits, ProfileConfig, Semantic, Targets
<1>7. WorkInv'
  <2> SUFFICES ASSUME NEW d \in Calls, AtWork(d)
               PROVE  GoalInv(d)' /\ (Target(d) \notin loose => FileInv(d)')
    BY DEF WorkInv, AtWork, Target
  <2>1. GoalInv(d) /\ (Target(d) \notin loose => FileInv(d))
    BY DEF WorkInv
  <2>2. GoalInv(d)'
    <3>1. CASE call[d].op \in {"setGlobal", "bind"}
      BY <3>1, <2>1, <1>1 DEF GoalInv, ProfileConfig, Existing
    <3>2. CASE call[d].op \notin {"setGlobal", "bind"}
      BY <3>2, <2>1 DEF GoalInv, Bound
    <3> QED
      BY <3>1, <3>2
  <2>3. FileInv(d) => FileInv(d)'
    BY <1>6, AtWorkFacts DEF FileInv, At, Target
  <2> QED
    BY <2>1, <2>2, <2>3
<1>8. QuietInv'
  BY <1>6 DEF QuietInv, WritesTo, Target, Targets
<1>9. CommitsKeepTheirIdentity'
  <2> SUFFICES ASSUME NEW d \in Calls, At(d, "committing"), call[d].identity.source = "binding"
               PROVE  /\ binding[call[d].repo] = call[d].identity.profile
                      /\ ProfileConfig(profiles'[call[d].identity.profile]) = call[d].identity.values
                      /\ call[d].edited \/ config[call[d].repo] = call[d].identity.values
    BY DEF CommitsKeepTheirIdentity, At, ProfileConfig
  <2>1. /\ binding[call[d].repo] = call[d].identity.profile
        /\ ProfileConfig(profiles[call[d].identity.profile]) = call[d].identity.values
        /\ call[d].edited \/ config[call[d].repo] = call[d].identity.values
    BY DEF CommitsKeepTheirIdentity
  <2>2. call[d].identity.profile # p
    BY <2>1, <1>2, CommitFacts
  <2> QED
    BY <2>1, <2>2 DEF TypeInv, ProfileConfig
<1> QED
  BY <1>3, <1>4, <1>5, <1>7, <1>8, <1>9

-----------------------------------------------------------------------------
LEMMA ContentsAreRows == ASSUME IdentitiesAssumption, NEW x \in Contents
  PROVE x \in Row /\ x # NoProfile /\ ProfileConfig(x) \in File /\ ProfileConfig(x)["flag"] # None
BY DEF IdentitiesAssumption, Content, Row, Value, Flag, NoProfile, None, ProfileConfig, File, Keys

LEMMA RowsAreFiles == ASSUME TypeInv, NEW p \in Existing
  PROVE ProfileConfig(profiles[p]) \in File /\ ProfileConfig(profiles[p])["flag"] # None
<1>1. profiles[p] \in Row
  BY DEF TypeInv, Existing
<1> QED
  BY <1>1 DEF Row, Value, Flag, None, ProfileConfig, File, Keys

LEMMA CreateStep ==
  ASSUME IdentInv, IdentitiesAssumption, NEW c \in Calls, NEW p \in Profiles, NEW x \in Contents,
         Create(c, p, x)
  PROVE  IdentInv'
<1>1. p \notin Existing
  BY DEF Create, Existing
<1>2. p # pointer /\ Bound(p) = {}
  BY <1>1 DEF IdentInv, Referenced, Bound, IdentitiesAssumption
<1>3. \A d \in Calls : AtWork(d) /\ call[d].op \in {"setGlobal", "bind"} => call[d].profile # p
  BY <1>1 DEF IdentInv, WorkInv, GoalInv
<1> QED
  BY <1>2, <1>3, RowStep, ContentsAreRows DEF Create, bounds

LEMMA DeleteStep ==
  ASSUME IdentInv, NEW c \in Calls, NEW p \in Profiles, Delete(c, p)
  PROVE  IdentInv'
BY RowStep, FreeProfiles DEF IdentInv, Delete, bounds

\* A call that takes the lock of the profiles, or one that gives its locks up.
LEMMA StartOfWork ==
  ASSUME IdentInv, NEW c \in Calls, NEW d \in Calls, Ready(c), Free(Global), d # c
  PROVE  call[d].locks \cap {Global} = {}
BY DEF Free

LEMMA UpdateStep ==
  ASSUME IdentInv, IdentitiesAssumption, NEW c \in Calls, NEW p \in Profiles, NEW x \in Contents,
         Update(c, p, x)
  PROVE  IdentInv'
<1>1. CASE p # pointer
  BY <1>1, RowStep, FreeProfiles, ContentsAreRows DEF IdentInv, Update, bounds
<1>2. CASE p = pointer
  <2> DEFINE rec == Writing(c, "update", None, p, ProfileConfig(x), Global, {Global})
  <2>1. /\ call' = [call EXCEPT ![c] = rec]
        /\ UNCHANGED <<profiles, pointer, binding, config, loose, starting>>
        /\ ~starting /\ ~AtWork(c)
    BY <1>2 DEF Update, bounds, Ready, At, AtWork
  <2>2. config[Global] \in File /\ Global \in Targets
    BY DEF IdentInv, TypeInv, Targets
  <2>3. rec \in CallRec
    BY <2>2, ContentsAreRows DEF Writing, CallRec, ToGlobal
  <2>4. call'[c] = rec /\ Target(c)' = Global /\ WritesTo(Global) = {}
    BY <2>1, FreeProfiles DEF IdentInv, TypeInv, Writing, Target, Update, WritesTo, AtWork
  <2>5. GoalInv(c)'
    BY <1>2, <2>1, <2>4, ContentsAreRows DEF GoalInv, Writing, Update, Bound
  <2>6. Global \notin loose => FileInv(c)'
    <3>1. Global \notin loose => Fits(config[Global], Global)
      BY <2>2, <2>4 DEF IdentInv, QuietInv
    <3> QED
      BY <3>1, <2>1, <2>4 DEF FileInv, Writing, At, Fits, ProfileConfig, Semantic
  <2>7. rec.at # "committing" /\ rec.locks = {Global}
    BY DEF Writing
  <2> HIDE DEF rec
  <2> QED
    BY <2>1, <2>3, <2>4, <2>5, <2>6, <2>7, StartOfWork, CallStep DEF Update
<1> QED
  BY <1>1, <1>2

LEMMA SetGlobalStep ==
  ASSUME IdentInv, NEW c \in Calls, NEW p \in Profiles, SetGlobal(c, p)
  PROVE  IdentInv'
<1> DEFINE rec == Writing(c, "setGlobal", None, p, ProfileConfig(profiles[p]), Global, {Global})
<1>1. /\ call' = [call EXCEPT ![c] = rec]
      /\ UNCHANGED <<profiles, pointer, binding, config, loose, starting>>
      /\ ~starting /\ ~AtWork(c) /\ p \in Existing
  BY DEF SetGlobal, rows, bounds, Ready, At, AtWork
<1>2. config[Global] \in File /\ Global \in Targets
  BY DEF IdentInv, TypeInv, Targets
<1>3. rec \in CallRec
  BY <1>1, <1>2, RowsAreFiles DEF IdentInv, Writing, CallRec, ToGlobal
<1>4. call'[c] = rec /\ Target(c)' = Global /\ WritesTo(Global) = {}
  BY <1>1, FreeProfiles DEF IdentInv, TypeInv, Writing, Target, SetGlobal, WritesTo, AtWork
<1>5. GoalInv(c)'
  BY <1>1, <1>4 DEF GoalInv, Writing, Existing, ProfileConfig
<1>6. Global \notin loose => FileInv(c)'
  <2>1. Global \notin loose => Fits(config[Global], Global)
    BY <1>2, <1>4 DEF IdentInv, QuietInv
  <2> QED
    BY <2>1, <1>1, <1>4 DEF FileInv, Writing, At, Fits, ProfileConfig, Semantic
<1>7. rec.at # "committing" /\ rec.locks = {Global}
  BY DEF Writing
<1> HIDE DEF rec
<1> QED
  BY <1>1, <1>3, <1>4, <1>5, <1>6, <1>7, StartOfWork, CallStep DEF SetGlobal

LEMMA WaitStep ==
  ASSUME IdentInv, NEW c \in Calls, NEW op \in {"bind", "unbind"}, NEW r \in Repositories,
         NEW p \in Profiles \cup {None}, Wait(c, op, r, p)
  PROVE  IdentInv'
<1> DEFINE rec == [at |-> "waiting", locks |-> {Global}, op |-> op, repo |-> r, profile |-> p]
<1>1. /\ call' = [call EXCEPT ![c] = rec]
      /\ UNCHANGED <<profiles, pointer, binding, config, loose, starting>>
      /\ ~starting /\ ~AtWork(c)
  BY DEF Wait, rows, bounds, Ready, At, AtWork
<1>2. rec \in CallRec /\ rec.at = "waiting" /\ rec.locks = {Global}
  BY DEF CallRec, Waiting
<1>3. call'[c] = rec
  BY <1>1 DEF IdentInv, TypeInv
<1> HIDE DEF rec
<1>4. ~AtWork(c)'
  BY <1>2, <1>3 DEF AtWork
<1> QED
  BY <1>1, <1>2, <1>4, StartOfWork, CallStep DEF Wait

LEMMA EnterStep ==
  ASSUME IdentInv, IdentitiesAssumption, NEW c \in Calls, Enter(c)
  PROVE  IdentInv'
<1> DEFINE r == call[c].repo
           op == call[c].op
           p == call[c].profile
           goal == IF op = "bind" THEN ProfileConfig(profiles[p]) ELSE Empty
           rec == Writing(c, op, r, p, goal, r, {Global, r})
<1>1. call[c] \in Waiting
  <2>1. call[c] \in CallRec
    BY DEF IdentInv, TypeInv
  <2> QED
    BY <2>1 DEF Enter, At, CallRec, Idle, ToGlobal, ToRepository, Committing
<1>2. /\ r \in Repositories /\ r \in Targets /\ r # Global /\ op \in {"bind", "unbind"}
      /\ p \in Profiles \cup {None} /\ call[c].locks = {Global} /\ c \in Calls
      /\ config[r] \in File
  BY <1>1 DEF Waiting, Targets, IdentitiesAssumption, IdentInv, TypeInv
<1>3. /\ UNCHANGED <<profiles, pointer, binding, config, loose, starting>>
      /\ ~starting /\ ~AtWork(c)
  BY <1>1, <1>2 DEF Enter, rows, bounds, AtWork, At, IdentInv, LocksExclude, Idle
<1>4. CASE Refused(c)
  <2>1. call' = [call EXCEPT ![c] = Idle]
    BY <1>4 DEF Enter
  <2>2. ~AtWork(c)' /\ Idle \in CallRec /\ Idle.at # "committing" /\ Idle.locks = {}
    BY <2>1 DEF AtWork, Idle, CallRec, IdentInv, TypeInv
  <2> QED
    BY <1>3, <2>1, <2>2, CallStep
<1>5. CASE ~Refused(c)
  <2>1. call' = [call EXCEPT ![c] = rec]
    BY <1>5 DEF Enter
  <2>2. op = "bind" => p \in Existing
    BY <1>5 DEF Refused
  <2>3. goal \in File
    <3>1. Empty \in File
      BY DEF Empty, File, Keys, Value, Flag
    <3> QED
      BY <3>1, <2>2, RowsAreFiles DEF IdentInv
  <2>4. rec \in ToRepository
    <3>1. rec \in [at : {"writing", "storing", "restoring"}, locks : {{Global, r}},
                   op : {"bind", "unbind"}, repo : {r}, profile : Profiles \cup {None},
                   goal : File, before : File, left : SUBSET Keys]
      BY <1>2, <2>3 DEF Writing
    <3> QED
      BY <3>1, <1>2 DEF ToRepository
  <2>5. call'[c] = rec /\ Target(c)' = r
    BY <2>1, <1>2 DEF IdentInv, TypeInv, Writing, Target
  <2>6. GoalInv(c)'
    BY <2>2, <2>5, <1>2, <1>3 DEF GoalInv, Writing, Existing, ProfileConfig
  <2>7. FileInv(c)'
    <3>1. binding[r] # None => config[r] = ProfileConfig(profiles[binding[r]])
      BY <1>5 DEF Refused, Drifted
    <3> QED
      BY <3>1, <2>5, <1>2, <1>3 DEF FileInv, Writing, At, Fits, ProfileConfig, Semantic
  <2>8. rec.at # "committing" /\ rec.locks = {Global, r} /\ rec \in CallRec
    BY <2>4 DEF Writing, CallRec
  <2>9. \A d \in Calls : d # c => call[d].locks \cap {Global, r} = {}
    <3>1. Free(r)
      BY <1>2 DEF Enter
    <3> QED
      BY <3>1, <1>2 DEF Free, IdentInv, LocksExclude
  <2> HIDE DEF rec
  <2> QED
    BY <1>3, <2>1, <2>5, <2>6, <2>7, <2>8, <2>9, CallStep
<1> QED
  BY <1>4, <1>5

\* What a commit has resolved.
LEMMA EffectiveFacts ==
  ASSUME TypeInv, NEW r \in Repositories, NEW id \in Effective(r)
  PROVE  /\ id \in Resolved
         /\ id.source = "binding" =>
              /\ binding[r] = id.profile
              /\ ProfileConfig(profiles[id.profile]) = id.values
              /\ config[r] = id.values
<1> DEFINE below == IF pointer # None THEN ProfileConfig(profiles[pointer]) ELSE config[Global]
           values == [k \in Keys |-> Semantic(k, Overlay(config[r], below)[k])]
<1>1. /\ config[r] \in [Keys -> Value] /\ config[Global] \in [Keys -> Value]
      /\ pointer \in Profiles \cup {None} /\ binding[r] \in Profiles \cup {None}
  BY DEF TypeInv, Targets, File
<1>2. \A p \in Profiles : ProfileConfig(profiles[p]) \in [Keys -> Value]
  BY DEF TypeInv, Row, NoProfile, Value, Flag, ProfileConfig
<1>3. CASE binding[r] # None
  <2>1. /\ ~Drifted(r, profiles[binding[r]])
        /\ id = Identity("binding", binding[r], ProfileConfig(profiles[binding[r]]))
    BY <1>3 DEF Effective
  <2> QED
    BY <2>1, <1>1, <1>2, <1>3 DEF Drifted, Identity, Resolved
<1>4. CASE binding[r] = None
  <2>1. \E source \in {"local", "global", "external"} : id = Identity(source, pointer, values)
    BY <1>4 DEF Effective
  <2>2. values \in [Keys -> Value]
    BY <1>1, <1>2 DEF Overlay, Semantic, Value, Flag
  <2> HIDE DEF values
  <2> QED
    BY <2>1, <2>2, <1>1 DEF Identity, Resolved
<1> QED
  BY <1>3, <1>4

LEMMA CommitStep ==
  ASSUME IdentInv, IdentitiesAssumption, NEW c \in Calls, NEW r \in Repositories,
         NEW asked \in Existing \cup {None}, Commit(c, r, asked)
  PROVE  IdentInv'
<1> USE DEF IdentInv
<1>1. PICK id \in (IF asked = None THEN Effective(r) ELSE {Selected(asked)}) :
        call' = [call EXCEPT ![c] = [at |-> "committing", locks |-> {r}, op |-> "commit",
                                     repo |-> r, identity |-> id, edited |-> FALSE]]
  BY DEF Commit
<1>2. /\ id \in Resolved
      /\ id.source = "binding" =>
           /\ binding[r] = id.profile
           /\ ProfileConfig(profiles[id.profile]) = id.values
           /\ config[r] = id.values
  <2>1. CASE asked = None
    BY <2>1, EffectiveFacts
  <2>2. CASE asked # None
    <3>1. asked \in Profiles /\ ProfileConfig(profiles[asked]) \in [Keys -> Value]
      BY <2>2, RowsAreFiles DEF Existing, File
    <3> QED
      BY <2>2, <3>1 DEF Selected, Identity, Resolved
  <2> QED
    BY <2>1, <2>2
<1> DEFINE rec == [at |-> "committing", locks |-> {r}, op |-> "commit", repo |-> r,
                   identity |-> id, edited |-> FALSE]
<1>3. rec \in CallRec /\ rec.at = "committing" /\ rec.repo = r /\ rec.identity = id /\ rec.locks = {r}
  BY <1>2 DEF CallRec, Committing
<1>4. /\ call' = [call EXCEPT ![c] = rec]
      /\ UNCHANGED <<profiles, pointer, binding, config, loose, starting>>
      /\ ~starting /\ ~AtWork(c)
      /\ \A d \in Calls : call[d].locks \cap {r} = {}
  BY <1>1 DEF Commit, rows, bounds, Ready, At, AtWork, Free
<1> HIDE DEF rec
<1>5. ~AtWork(c)'
  BY <1>3, <1>4 DEF TypeInv, AtWork
<1> QED
  BY <1>2, <1>3, <1>4, <1>5, CallStep

LEMMA CommittedStep ==
  ASSUME IdentInv, NEW c \in Calls, Committed(c)
  PROVE  IdentInv'
<1>1. /\ call' = [call EXCEPT ![c] = Idle]
      /\ UNCHANGED <<profiles, pointer, binding, config, loose, starting>>
      /\ ~AtWork(c)
  BY DEF Committed, Return, rows, bounds, At, AtWork
<1>2. ~AtWork(c)' /\ Idle \in CallRec /\ Idle.at # "committing" /\ Idle.locks = {}
  BY <1>1 DEF AtWork, Idle, CallRec, IdentInv, TypeInv
<1> QED
  BY <1>1, <1>2, CallStep

-----------------------------------------------------------------------------
\* The call that writes goes on, or ends, and touches no file but its own; if
\* it goes on, or fails, the rows stay.
LEMMA WriterStep ==
  ASSUME IdentInv, IdentitiesAssumption, NEW c \in Calls, AtWork(c),
         NEW file \in File, NEW rec \in CallRec,
         call' = [call EXCEPT ![c] = rec],
         config' = [config EXCEPT ![Target(c)] = file],
         UNCHANGED <<profiles, pointer, binding, starting>>,
         \/ rec = Idle
         \/ /\ rec.at \in {"writing", "storing", "restoring"}
            /\ rec.locks = call[c].locks /\ rec.op = call[c].op /\ rec.repo = call[c].repo
            /\ rec.profile = call[c].profile /\ rec.goal = call[c].goal
            /\ rec.before = call[c].before,
         loose' = loose \/ loose' = loose \cup {Target(c)},
         Target(c) \notin loose' =>
           /\ rec = Idle => file = call[c].before
           /\ rec.at = "writing" => \A k \in Keys \ rec.left : file[k] = rec.goal[k]
           /\ rec.at = "storing" => file = rec.goal
           /\ rec.at = "restoring" => \A k \in Keys \ rec.left : file[k] = rec.before[k]
  PROVE  IdentInv'
<1> USE DEF IdentInv
<1>1. /\ call'[c] = rec /\ \A d \in Calls : d # c => call'[d] = call[d] /\ ~AtWork(d)
      /\ Target(c) \in Targets /\ config'[Target(c)] = file
      /\ \A t \in Targets : t # Target(c) => config'[t] = config[t]
  BY AtWorkFacts, OneWriter DEF TypeInv
<1>2. rec = Idle => rec.at = "idle" /\ rec.locks = {}
  BY DEF Idle
<1>3. TypeInv'
  BY <1>1 DEF TypeInv
<1>4. LocksExclude'
  <2>1. ~starting
    BY DEF LocksExclude, AtWork, Idle
  <2>2. rec.locks \subseteq call[c].locks
    BY <1>2
  <2> QED
    BY <2>1, <2>2, <1>1 DEF LocksExclude
<1>5. Referenced'
  BY DEF Referenced, Existing
<1>7. WorkInv'
  <2> SUFFICES ASSUME NEW d \in Calls, AtWork(d)'
               PROVE  GoalInv(d)' /\ (Target(d)' \notin loose' => FileInv(d)')
    BY DEF WorkInv
  <2>1. d = c /\ rec # Idle /\ Target(c)' = Target(c)
    BY <1>1, <1>2 DEF AtWork, Target
  <2>2. GoalInv(c) /\ (Target(c) \notin loose => FileInv(c))
    BY DEF WorkInv
  <2>3. GoalInv(c)'
    BY <2>1, <2>2, <1>1 DEF GoalInv, Existing, Bound, ProfileConfig
  <2>4. ASSUME Target(c) \notin loose'
        PROVE  FileInv(c)'
    <3>1. Fits(call[c].before, Target(c))'
      BY <2>1, <2>2, <2>4, <1>1 DEF FileInv, Fits, Semantic, ProfileConfig
    <3> QED
      BY <3>1, <2>1, <2>4, <1>1 DEF FileInv, At
  <2> QED
    BY <2>1, <2>3, <2>4
<1>8. QuietInv'
  <2> SUFFICES ASSUME NEW t \in Targets, t \notin loose', WritesTo(t)' = {}
               PROVE  Fits(config[t], t)'
    BY DEF QuietInv, Targets
  <2>1. CASE t # Target(c)
    <3>1. WritesTo(t) = {}
      BY <2>1, <1>1 DEF WritesTo, AtWork
    <3> QED
      BY <2>1, <3>1, <1>1 DEF QuietInv, Fits, Semantic, ProfileConfig
  <2>2. CASE t = Target(c)
    <3>1. rec = Idle
      BY <2>2, <1>1 DEF WritesTo, Target
    <3>2. FileInv(c)
      BY <2>2 DEF WorkInv
    <3> QED
      BY <2>2, <3>1, <3>2, <1>1 DEF FileInv, Fits, Semantic, ProfileConfig
  <2> QED
    BY <2>1, <2>2
<1>9. CommitsKeepTheirIdentity'
  <2> SUFFICES ASSUME NEW d \in Calls, At(d, "committing")', call'[d].identity.source = "binding"
               PROVE  /\ binding[call'[d].repo] = call'[d].identity.profile
                      /\ ProfileConfig(profiles[call'[d].identity.profile]) = call'[d].identity.values
                      /\ call'[d].edited \/ config'[call'[d].repo] = call'[d].identity.values
    BY DEF CommitsKeepTheirIdentity, ProfileConfig
  <2>1. d # c /\ At(d, "committing") /\ call'[d] = call[d]
    BY <1>1, <1>2 DEF At
  <2>2. call[d].repo \in Targets /\ call[d].repo # Target(c)
    BY <2>1, CommitFacts, CommitAlone DEF Targets
  <2> QED
    BY <2>1, <2>2, <1>1 DEF CommitsKeepTheirIdentity
<1> QED
  BY <1>3, <1>4, <1>5, <1>7, <1>8, <1>9

\* The next key, and a file with another value there.
LEMMA NextKeyFacts ==
  ASSUME NEW c \in Calls, NEW f \in File, NEW g \in File
  PROVE  /\ NextKey(c) \in Keys
         /\ [f EXCEPT ![NextKey(c)] = g[NextKey(c)]] \in File
         /\ [f EXCEPT ![NextKey(c)] = None] \in File
BY DEF NextKey, Keys, File, Flag, Value

\* What Put does to the file of a call.
LEMMA PutFacts ==
  ASSUME TypeInv, NEW t \in Targets, NEW k \in Keys, NEW v, Put(t, k, v)
  PROVE  config' = [config EXCEPT ![t] = [config[t] EXCEPT ![k] = v]]
BY DEF Put, TypeInv

LEMMA BotchedFacts ==
  ASSUME TypeInv, NEW c \in Calls, AtWork(c), NEW g \in File, Botched(c, g)
  PROVE  \E file \in File : config' = [config EXCEPT ![Target(c)] = file]
<1>1. Target(c) \in Targets /\ config[Target(c)] \in File
  BY AtWorkFacts DEF TypeInv
<1>2. PICK v \in {config[Target(c)][NextKey(c)], None, g[NextKey(c)]} :
        Put(Target(c), NextKey(c), v)
  BY DEF Botched
<1>3. [config[Target(c)] EXCEPT ![NextKey(c)] = v] \in File
  BY <1>1, <1>2, NextKeyFacts
<1> QED
  BY <1>1, <1>2, <1>3, NextKeyFacts, PutFacts

\* A call in the middle of its file.
Moved(c, at, left) == [call[c] EXCEPT !.left = left, !.at = at]

LEMMA MovedFacts ==
  ASSUME TypeInv, NEW c \in Calls, AtWork(c), NEW at \in {"writing", "storing", "restoring"},
         NEW left \in SUBSET Keys
  PROVE  /\ Moved(c, at, left) \in CallRec /\ Moved(c, at, left) # Idle
         /\ Moved(c, at, left).at = at /\ Moved(c, at, left).left = left
         /\ Moved(c, at, left).locks = call[c].locks
         /\ Moved(c, at, left).op = call[c].op
         /\ Moved(c, at, left).repo = call[c].repo
         /\ Moved(c, at, left).profile = call[c].profile
         /\ Moved(c, at, left).goal = call[c].goal
         /\ Moved(c, at, left).before = call[c].before
<1> USE DEF Moved
<1>1. CASE call[c] \in ToGlobal
  BY <1>1 DEF ToGlobal, CallRec, Idle, At
<1>2. CASE call[c] \in ToRepository
  <2>1. PICK r \in Repositories :
          call[c] \in [at : {"writing", "storing", "restoring"}, locks : {{Global, r}},
                       op : {"bind", "unbind"}, repo : {r}, profile : Profiles \cup {None},
                       goal : File, before : File, left : SUBSET Keys]
    BY <1>2 DEF ToRepository
  <2>2. Moved(c, at, left) \in ToRepository
    <3>1. Moved(c, at, left) \in
            [at : {"writing", "storing", "restoring"}, locks : {{Global, r}},
             op : {"bind", "unbind"}, repo : {r}, profile : Profiles \cup {None},
             goal : File, before : File, left : SUBSET Keys]
      BY <2>1
    <3> QED
      BY <3>1 DEF ToRepository
  <2> QED
    BY <2>1, <2>2 DEF CallRec, Idle, At
<1> QED
  BY <1>1, <1>2, AtWorkFacts

LEMMA MovedLeft ==
  ASSUME TypeInv, NEW c \in Calls, AtWork(c), NEW left
  PROVE  [call[c] EXCEPT !.left = left] = Moved(c, call[c].at, left)
<1>1. CASE call[c] \in ToGlobal
  BY <1>1 DEF ToGlobal, Moved
<1>2. CASE call[c] \in ToRepository
  BY <1>2 DEF ToRepository, Moved
<1> QED
  BY <1>1, <1>2, AtWorkFacts

\* A call that goes on: its record moves, and its file with it.
LEMMA MovedStep ==
  ASSUME IdentInv, IdentitiesAssumption, NEW c \in Calls, AtWork(c), NEW file \in File,
         NEW at \in {"writing", "storing", "restoring"}, NEW left \in SUBSET Keys,
         call' = [call EXCEPT ![c] = Moved(c, at, left)],
         config' = [config EXCEPT ![Target(c)] = file],
         UNCHANGED <<profiles, pointer, binding, starting, loose>>,
         Target(c) \notin loose =>
           /\ at = "writing" => \A k \in Keys \ left : file[k] = call[c].goal[k]
           /\ at = "storing" => file = call[c].goal
           /\ at = "restoring" => \A k \in Keys \ left : file[k] = call[c].before[k]
  PROVE  IdentInv'
<1> DEFINE rec == Moved(c, at, left)
<1>1. /\ rec \in CallRec /\ rec # Idle /\ rec.at = at /\ rec.left = left
      /\ rec.locks = call[c].locks /\ rec.op = call[c].op /\ rec.repo = call[c].repo
      /\ rec.profile = call[c].profile /\ rec.goal = call[c].goal
      /\ rec.before = call[c].before
  <2>1. TypeInv
    BY DEF IdentInv
  <2> QED
    BY <2>1, MovedFacts
<1>2. call' = [call EXCEPT ![c] = rec] /\ loose' = loose
  OBVIOUS
<1> HIDE DEF rec
<1>3. Target(c) \notin loose' =>
        /\ rec.at = "writing" => \A k \in Keys \ rec.left : file[k] = rec.goal[k]
        /\ rec.at = "storing" => file = rec.goal
        /\ rec.at = "restoring" => \A k \in Keys \ rec.left : file[k] = rec.before[k]
  BY <1>1, <1>2
<1> QED
  BY <1>1, <1>2, <1>3, WriterStep

\* A git that fails: whatever is in the file now, the call restores it, or is over.
LEMMA FailedStep ==
  ASSUME IdentInv, IdentitiesAssumption, NEW c \in Calls, AtWork(c), NEW file \in File,
         config' = [config EXCEPT ![Target(c)] = file],
         call' = [call EXCEPT ![c].left = Keys, ![c].at = "restoring"],
         UNCHANGED <<profiles, pointer, binding, starting, loose>>
  PROVE  IdentInv'
<1>1. call' = [call EXCEPT ![c] = Moved(c, "restoring", Keys)]
  BY DEF IdentInv, TypeInv, Moved
<1>2. Keys \in SUBSET Keys
  OBVIOUS
<1> QED
  BY <1>1, <1>2, MovedStep

LEMMA WriteKeyStep ==
  ASSUME IdentInv, IdentitiesAssumption, NEW c \in Calls, WriteKey(c)
  PROVE  IdentInv'
<1> DEFINE k == NextKey(c)
           left == call[c].left \ {k}
           at == IF call[c].left = {k} THEN "storing" ELSE "writing"
           file == [config[Target(c)] EXCEPT ![k] = call[c].goal[k]]
<1>1. /\ AtWork(c) /\ At(c, "writing")
      /\ UNCHANGED <<profiles, pointer, binding, starting, loose>>
  BY DEF WriteKey, At, AtWork, rows
<1>2. /\ Target(c) \in Targets /\ config[Target(c)] \in File
      /\ call[c].goal \in File /\ call[c].left \subseteq Keys /\ k \in Keys
  BY <1>1, AtWorkFacts, NextKeyFacts DEF IdentInv, TypeInv
<1>3. CASE /\ Put(Target(c), k, call[c].goal[k])
           /\ call' = [call EXCEPT ![c].left = @ \ {k},
                                   ![c].at = IF call[c].left = {k} THEN "storing" ELSE @]
  <2>1. config' = [config EXCEPT ![Target(c)] = file] /\ file \in File
    BY <1>2, <1>3, PutFacts, NextKeyFacts DEF IdentInv
  <2>2. call' = [call EXCEPT ![c] = Moved(c, at, left)]
    BY <1>1, <1>3 DEF IdentInv, TypeInv, At, Moved
  <2>3. at \in {"writing", "storing", "restoring"} /\ left \in SUBSET Keys
    BY <1>2
  <2>4. Target(c) \notin loose => \A j \in Keys \ left : file[j] = call[c].goal[j]
    BY <1>1, <1>2 DEF IdentInv, WorkInv, FileInv, File
  <2>5. at = "storing" /\ Target(c) \notin loose => file = call[c].goal
    BY <1>2, <2>1, <2>4 DEF File
  <2>6. at # "restoring"
    OBVIOUS
  <2> HIDE DEF at, left, file
  <2> QED
    BY <1>1, <2>1, <2>2, <2>3, <2>4, <2>5, <2>6, MovedStep
<1>4. CASE /\ Botched(c, call[c].goal)
           /\ call' = [call EXCEPT ![c].left = Keys, ![c].at = "restoring"]
  BY <1>1, <1>2, <1>4, BotchedFacts, FailedStep DEF IdentInv
<1> QED
  BY <1>3, <1>4 DEF WriteKey

LEMMA RestoreStep ==
  ASSUME IdentInv, IdentitiesAssumption, NEW c \in Calls, Restore(c)
  PROVE  IdentInv'
<1> DEFINE k == NextKey(c)
           left == call[c].left \ {k}
           file == [config[Target(c)] EXCEPT ![k] = call[c].before[k]]
<1>1. /\ AtWork(c) /\ At(c, "restoring")
      /\ UNCHANGED <<profiles, pointer, binding, starting>>
  BY DEF Restore, At, AtWork, rows
<1>2. /\ Target(c) \in Targets /\ config[Target(c)] \in File
      /\ call[c].before \in File /\ call[c].left \subseteq Keys /\ k \in Keys
      /\ Idle \in CallRec
  BY <1>1, AtWorkFacts, NextKeyFacts DEF IdentInv, TypeInv, CallRec
<1>3. CASE /\ Put(Target(c), k, call[c].before[k])
           /\ IF call[c].left = {k} THEN Return(c)
              ELSE call' = [call EXCEPT ![c].left = @ \ {k}]
           /\ loose' = loose
  <2>1. Put(Target(c), k, call[c].before[k])
    BY <1>3
  <2>2. config' = [config EXCEPT ![Target(c)] = file] /\ file \in File
    BY <1>2, <2>1, PutFacts, NextKeyFacts DEF IdentInv
  <2>3. Target(c) \notin loose => \A j \in Keys \ left : file[j] = call[c].before[j]
    BY <1>1, <1>2 DEF IdentInv, WorkInv, FileInv, File
  <2>4. CASE call[c].left = {k}
    <3>1. call' = [call EXCEPT ![c] = Idle]
      BY <1>3, <2>4 DEF Return
    <3>2. Target(c) \notin loose => file = call[c].before
      BY <1>2, <2>2, <2>3, <2>4 DEF File
    <3>3. Idle.at = "idle"
      BY DEF Idle
    <3>4. loose' = loose
      BY <1>3
    <3> HIDE DEF file
    <3> QED
      BY <1>1, <1>2, <2>2, <3>1, <3>2, <3>3, <3>4, WriterStep
  <2>5. CASE call[c].left # {k}
    <3>1. call' = [call EXCEPT ![c] = [call[c] EXCEPT !.left = left]]
      BY <1>3, <2>5 DEF IdentInv, TypeInv
    <3>2. left \in SUBSET Keys /\ loose' = loose
      BY <1>2, <1>3
    <3> HIDE DEF left, file
    <3>3. [call[c] EXCEPT !.left = left] = Moved(c, "restoring", left)
      BY <1>1, MovedLeft DEF IdentInv, At
    <3>4. call' = [call EXCEPT ![c] = Moved(c, "restoring", left)]
      BY <3>1, <3>3
    <3> QED
      BY <1>1, <2>2, <2>3, <3>2, <3>4, MovedStep
  <2> QED
    BY <2>4, <2>5
<1>4. CASE Botched(c, call[c].before) /\ Return(c) /\ loose' = loose \cup {Target(c)}
  <2>1. PICK rest \in File : config' = [config EXCEPT ![Target(c)] = rest]
    BY <1>1, <1>2, <1>4, BotchedFacts DEF IdentInv
  <2>2. call' = [call EXCEPT ![c] = Idle] /\ Target(c) \in loose'
    BY <1>4 DEF Return
  <2> QED
    BY <1>1, <1>2, <1>4, <2>1, <2>2, WriterStep
<1> QED
  BY <1>3, <1>4 DEF Restore
-----------------------------------------------------------------------------
\* The row is stored: from now on it says what the call has written.
LEMMA StoredRow ==
  ASSUME IdentInv, IdentitiesAssumption, NEW c \in Calls, At(c, "storing"), StoreRow(c)
  PROVE  /\ profiles' \in [Profiles -> Row \cup {NoProfile}]
         /\ pointer' \in Profiles \cup {None}
         /\ binding' \in [Repositories -> Profiles \cup {None}]
         /\ Existing \subseteq Existing'
         /\ Referenced'
         /\ \A f \in File, t \in Targets : f = call[c].goal /\ t = Target(c) => Fits(f, t)'
         /\ \A t \in Targets, f \in File : t # Target(c) /\ Fits(f, t) => Fits(f, t)'
         /\ \A r \in Repositories :
              r # Target(c) /\ binding[r] # None =>
                binding'[r] = binding[r] /\ profiles'[binding[r]] = profiles[binding[r]]
<1> USE DEF IdentInv
<1> DEFINE p == call[c].profile
<1>1. AtWork(c) /\ GoalInv(c)
  BY DEF At, AtWork, WorkInv
<1>2. CASE call[c].op = "update"
  <2>1. /\ profiles' = [profiles EXCEPT ![p] = <<call[c].goal["name"], call[c].goal["flag"]>>]
        /\ pointer' = pointer /\ binding' = binding /\ Target(c) = Global
        /\ p \in Profiles /\ p = pointer /\ Bound(p) = {}
        /\ call[c].goal["name"] \in Value /\ call[c].goal["flag"] \in {"off", "on"}
    BY <1>1, <1>2, AtWorkFacts DEF StoreRow, GoalInv, File, Flag, Keys
  <2>2. profiles' \in [Profiles -> Row \cup {NoProfile}]
    BY <2>1 DEF TypeInv, Row
  <2>3. profiles'[p] # NoProfile /\ \A q \in Profiles : q # p => profiles'[q] = profiles[q]
    BY <2>1 DEF TypeInv, NoProfile, None
  <2>4. Existing \subseteq Existing'
    BY <2>1, <2>3 DEF Existing
  <2>5. Referenced'
    BY <2>1, <2>4 DEF Referenced
  <2>6. \A f \in File, t \in Targets : f = call[c].goal /\ t = Target(c) => Fits(f, t)'
    <3>1. profiles'[p] = <<call[c].goal["name"], call[c].goal["flag"]>>
      BY <2>1 DEF TypeInv
    <3>2. call[c].goal["flag"] # None
      BY <2>1 DEF None
    <3>3. \A k \in Keys : Semantic(k, call[c].goal[k]) = ProfileConfig(profiles'[p])[k]
      BY <3>1, <3>2 DEF Semantic, ProfileConfig, Keys
    <3> QED
      BY <2>1, <3>3 DEF Fits, Semantic, ProfileConfig
  <2>7. \A r \in Repositories : binding[r] # None =>
          binding'[r] = binding[r] /\ profiles'[binding[r]] = profiles[binding[r]]
    BY <2>1, <2>3 DEF TypeInv, Bound
  <2>8. \A t \in Targets, f \in File : t # Target(c) /\ Fits(f, t) => Fits(f, t)'
    BY <2>1, <2>7 DEF Fits, Targets, ProfileConfig
  <2> QED
    BY <2>1, <2>2, <2>4, <2>5, <2>6, <2>7, <2>8 DEF TypeInv
<1>3. CASE call[c].op = "setGlobal"
  <2>1. /\ profiles' = profiles /\ pointer' = p /\ binding' = binding /\ Target(c) = Global
        /\ p \in Existing /\ call[c].goal = ProfileConfig(profiles[p])
    BY <1>1, <1>3, AtWorkFacts DEF StoreRow, GoalInv
  <2>2. p \in Profiles /\ call[c].goal["flag"] # None
    BY <2>1, RowsAreFiles DEF Existing
  <2>3. \A f \in File, t \in Targets : f = call[c].goal /\ t = Target(c) => Fits(f, t)'
    BY <2>1, <2>2 DEF Fits, Semantic, ProfileConfig, Keys
  <2>4. Referenced' /\ Existing' = Existing
    BY <2>1 DEF Referenced, Existing
  <2>5. \A t \in Targets, f \in File : t # Target(c) /\ Fits(f, t) => Fits(f, t)'
    BY <2>1 DEF Fits, ProfileConfig
  <2> QED
    BY <2>1, <2>2, <2>3, <2>4, <2>5 DEF TypeInv
<1>4. CASE call[c].op \in {"bind", "unbind"}
  <2> DEFINE q == IF call[c].op = "bind" THEN p ELSE None
  <2>1. /\ profiles' = profiles /\ pointer' = pointer
        /\ Target(c) \in Repositories /\ binding' = [binding EXCEPT ![Target(c)] = q]
    BY <1>1, <1>4, AtWorkFacts DEF StoreRow
  <2>2. q # None => q \in Existing /\ call[c].goal = ProfileConfig(profiles[q])
    BY <1>1, <1>4 DEF GoalInv
  <2>3. q \in Profiles \cup {None}
    BY <1>1, <1>4, AtWorkFacts
  <2> HIDE DEF q
  <2>4. /\ binding' \in [Repositories -> Profiles \cup {None}] /\ binding'[Target(c)] = q
        /\ \A r \in Repositories : r # Target(c) => binding'[r] = binding[r]
    BY <2>1, <2>3 DEF TypeInv
  <2>5. Referenced' /\ Existing' = Existing
    BY <2>1, <2>2, <2>4 DEF Referenced, Existing
  <2>6. \A f \in File, t \in Targets : f = call[c].goal /\ t = Target(c) => Fits(f, t)'
    <3>1. Target(c) # Global
      BY <2>1 DEF IdentitiesAssumption
    <3>2. q # None => call[c].goal = ProfileConfig(profiles'[q])
      BY <2>1, <2>2 DEF ProfileConfig
    <3> QED
      BY <2>4, <3>1, <3>2 DEF Fits, ProfileConfig
  <2>7. \A t \in Targets, f \in File : t # Target(c) /\ Fits(f, t) => Fits(f, t)'
    BY <2>1, <2>4 DEF Fits, Semantic, ProfileConfig, Targets
  <2> QED
    BY <2>1, <2>4, <2>5, <2>6, <2>7 DEF TypeInv
<1> QED
  BY <1>1, <1>2, <1>3, <1>4, AtWorkFacts

LEMMA StoredStep ==
  ASSUME IdentInv, IdentitiesAssumption, NEW c \in Calls, At(c, "storing"), Stored(c),
         starting' = starting
  PROVE  IdentInv'
<1> USE DEF IdentInv
<1>1. /\ AtWork(c) /\ config' = config /\ Target(c) \in Targets
      /\ call[c].goal \in File
      /\ (Target(c) \notin loose => FileInv(c))
      /\ loose' = IF config[Target(c)] = call[c].goal THEN loose \ {Target(c)} ELSE loose
  BY AtWorkFacts DEF At, AtWork, Stored, WorkInv
<1>2. /\ call'[c] = Idle
      /\ \A d \in Calls : d # c => call'[d] = call[d] /\ ~AtWork(d)
      /\ call' \in [Calls -> CallRec]
  BY <1>1, OneWriter DEF Stored, Return, TypeInv, CallRec
<1>3. \A d \in Calls : ~AtWork(d)'
  BY <1>2 DEF AtWork, Idle
<1>4. StoreRow(c)
  BY DEF Stored
<1>5. TypeInv'
  BY <1>1, <1>2, <1>4, StoredRow DEF TypeInv, Targets
<1>6. LocksExclude'
  BY <1>2 DEF LocksExclude, Idle
<1>7. Referenced'
  BY <1>4, StoredRow
<1>8. WorkInv'
  BY <1>3 DEF WorkInv
<1>9. QuietInv'
  <2> SUFFICES ASSUME NEW t \in Targets, t \notin loose'
               PROVE  Fits(config[t], t)'
    BY DEF QuietInv, Targets
  <2> DEFINE f == config[t]
  <2>1. config[t] \in File
    BY DEF TypeInv
  <2>2. CASE t = Target(c)
    <3>1. config[t] = call[c].goal
      BY <1>1, <2>2 DEF FileInv
    <3> QED
      BY <1>1, <1>4, <2>1, <2>2, <3>1, StoredRow DEF Fits, Semantic, ProfileConfig
  <2>3. CASE t # Target(c)
    <3>1. WritesTo(t) = {}
      BY <1>2, <2>3 DEF WritesTo, AtWork
    <3>2. Fits(config[t], t)
      BY <1>1, <2>3, <3>1 DEF QuietInv
    <3> QED
      BY <1>1, <1>4, <2>1, <2>3, <3>2, StoredRow DEF Fits, Semantic, ProfileConfig
  <2> QED
    BY <2>2, <2>3
<1>10. CommitsKeepTheirIdentity'
  <2> SUFFICES ASSUME NEW d \in Calls, At(d, "committing")', call'[d].identity.source = "binding"
               PROVE  /\ binding'[call'[d].repo] = call'[d].identity.profile
                      /\ ProfileConfig(profiles'[call'[d].identity.profile]) = call'[d].identity.values
                      /\ call'[d].edited \/ config'[call'[d].repo] = call'[d].identity.values
    BY DEF CommitsKeepTheirIdentity, ProfileConfig
  <2>1. call'[d] = call[d] /\ At(d, "committing")
    BY <1>2 DEF At, Idle
  <2>2. call[d].repo \in Repositories /\ call[d].repo # Target(c)
    BY <1>1, <2>1, CommitFacts, CommitAlone
  <2>3. /\ binding[call[d].repo] = call[d].identity.profile
        /\ ProfileConfig(profiles[call[d].identity.profile]) = call[d].identity.values
        /\ call[d].edited \/ config[call[d].repo] = call[d].identity.values
    BY <2>1 DEF CommitsKeepTheirIdentity
  <2>4. call[d].identity.profile # None
    BY <2>1, CommitFacts DEF Resolved
  <2> QED
    BY <1>1, <1>4, <2>1, <2>2, <2>3, <2>4, StoredRow
<1> QED
  BY <1>5, <1>6, <1>7, <1>8, <1>9, <1>10

LEMMA StoreStep ==
  ASSUME IdentInv, IdentitiesAssumption, NEW c \in Calls, Store(c)
  PROVE  IdentInv'
<1>1. AtWork(c) /\ At(c, "storing") /\ starting' = starting
  BY DEF Store, At, AtWork
<1>2. CASE Stored(c)
  BY <1>1, <1>2, StoredStep
<1>3. CASE /\ call' = [call EXCEPT ![c].left = Keys, ![c].at = "restoring"]
           /\ UNCHANGED <<rows, config, loose>>
  <2>1. config' = [config EXCEPT ![Target(c)] = config[Target(c)]] /\ config[Target(c)] \in File
    BY <1>1, <1>3, AtWorkFacts DEF IdentInv, TypeInv
  <2> QED
    BY <1>1, <1>3, <2>1, FailedStep DEF rows
<1> QED
  BY <1>2, <1>3 DEF Store
-----------------------------------------------------------------------------
\* The user changes a file: it is loose, and the commits in its repository
\* have been told.
LEMMA EditStep ==
  ASSUME IdentInv, NEW t \in Targets, NEW k \in Keys, NEW v \in Value,
         k = "flag" => v \in Flag, Edit(t, k, v)
  PROVE  IdentInv'
<1> USE DEF IdentInv
<1> DEFINE file == [config[t] EXCEPT ![k] = v]
<1>1. /\ UNCHANGED <<profiles, pointer, binding, starting>>
      /\ loose' = loose \cup {t}
      /\ call' = [c \in Calls |->
           IF At(c, "committing") /\ call[c].repo = t THEN [call[c] EXCEPT !.edited = TRUE]
           ELSE call[c]]
      /\ config' = [config EXCEPT ![t] = file]
  BY PutFacts DEF Edit, rows
<1>2. file \in File
  <2>1. config[t] \in File
    BY DEF TypeInv
  <2> QED
    BY <2>1 DEF File, Keys
<1> HIDE DEF file
<1>3. /\ config' \in [Targets -> File]
      /\ \A u \in Targets : u # t => config'[u] = config[u]
  BY <1>1, <1>2 DEF TypeInv
<1>4. ASSUME NEW c \in Calls, At(c, "committing"), call[c].repo = t
      PROVE  /\ call'[c] \in CallRec /\ At(c, "committing")' /\ call'[c].locks = call[c].locks
             /\ call'[c].repo = call[c].repo /\ call'[c].identity = call[c].identity
             /\ call'[c].edited
  <2>1. call'[c] = [call[c] EXCEPT !.edited = TRUE]
    BY <1>1, <1>4
  <2>2. /\ t \in Repositories
        /\ call[c] \in [at : {"committing"}, locks : {{t}}, op : {"commit"},
                        repo : {t}, identity : Resolved, edited : BOOLEAN]
    BY <1>4, CommitFacts
  <2>3. call'[c] \in [at : {"committing"}, locks : {{t}}, op : {"commit"},
                      repo : {t}, identity : Resolved, edited : BOOLEAN]
    BY <2>1, <2>2
  <2>4. call'[c] \in CallRec
    BY <2>2, <2>3 DEF CallRec, Committing
  <2> QED
    BY <2>1, <2>2, <2>4 DEF At
<1>5. ASSUME NEW c \in Calls, ~(At(c, "committing") /\ call[c].repo = t)
      PROVE  call'[c] = call[c]
  BY <1>1, <1>5
<1>6. ASSUME NEW c \in Calls
      PROVE  /\ call'[c] \in CallRec /\ call'[c].locks = call[c].locks
             /\ call'[c].at = call[c].at
             /\ AtWork(c)' => call'[c] = call[c]
             /\ AtWork(c) => call'[c] = call[c]
  BY <1>4, <1>5 DEF TypeInv, At, AtWork
<1>7. TypeInv'
  <2>1. call' = [c \in Calls |-> call'[c]]
    BY <1>1
  <2>2. call' \in [Calls -> CallRec]
    BY <1>6, <2>1
  <2> QED
    BY <1>1, <1>3, <2>2 DEF TypeInv, Targets
<1>8. LocksExclude'
  <2>1. \A c \in Calls : call[c] = Idle => call'[c] = Idle
    BY <1>5 DEF At, Idle
  <2> QED
    BY <1>1, <1>6, <2>1 DEF LocksExclude
<1>9. Referenced'
  BY <1>1 DEF Referenced, Existing
<1>10. WorkInv'
  <2> SUFFICES ASSUME NEW c \in Calls, AtWork(c)'
               PROVE  GoalInv(c)' /\ (Target(c)' \notin loose' => FileInv(c)')
    BY DEF WorkInv
  <2>1. call'[c] = call[c] /\ AtWork(c) /\ Target(c)' = Target(c)
    BY <1>6 DEF AtWork, Target
  <2>2. GoalInv(c)'
    BY <1>1, <2>1 DEF WorkInv, GoalInv, Existing, Bound, ProfileConfig
  <2>3. ASSUME Target(c) \notin loose'
        PROVE  FileInv(c)'
    <3>1. Target(c) # t /\ FileInv(c) /\ Target(c) \in Targets
      BY <1>1, <2>1, <2>3, AtWorkFacts DEF WorkInv
    <3>2. config'[Target(c)] = config[Target(c)]
      BY <1>3, <3>1
    <3> QED
      BY <1>1, <2>1, <3>1, <3>2 DEF FileInv, Fits, Semantic, ProfileConfig, At
  <2> QED
    BY <2>1, <2>2, <2>3
<1>11. QuietInv'
  <2> SUFFICES ASSUME NEW u \in Targets, u \notin loose', WritesTo(u)' = {}
               PROVE  Fits(config[u], u)'
    BY DEF QuietInv, Targets
  <2>1. u # t /\ u \notin loose
    BY <1>1
  <2>2. WritesTo(u) = {}
    BY <1>6 DEF WritesTo, Target, AtWork
  <2> QED
    BY <1>1, <1>3, <2>1, <2>2 DEF QuietInv, Fits, Semantic, ProfileConfig
<1>12. CommitsKeepTheirIdentity'
  <2> SUFFICES ASSUME NEW c \in Calls, At(c, "committing")', call'[c].identity.source = "binding"
               PROVE  /\ binding'[call'[c].repo] = call'[c].identity.profile
                      /\ ProfileConfig(profiles'[call'[c].identity.profile]) = call'[c].identity.values
                      /\ call'[c].edited \/ config'[call'[c].repo] = call'[c].identity.values
    BY DEF CommitsKeepTheirIdentity, ProfileConfig
  <2>1. At(c, "committing")
    BY <1>6 DEF At
  <2>2. call[c].repo \in Targets
    BY <2>1, CommitFacts DEF Targets
  <2>3. CASE call[c].repo = t
    BY <1>1, <1>4, <2>1, <2>3 DEF CommitsKeepTheirIdentity
  <2>4. CASE call[c].repo # t
    BY <1>1, <1>3, <1>5, <2>1, <2>2, <2>4 DEF CommitsKeepTheirIdentity
  <2> QED
    BY <2>3, <2>4
<1> QED
  BY <1>7, <1>8, <1>9, <1>10, <1>11, <1>12

\* A state in which no call runs.
LEMMA AllIdle ==
  ASSUME \A c \in Calls : call[c] = Idle
  PROVE  /\ LocksExclude /\ WorkInv /\ CommitsKeepTheirIdentity
         /\ \A t \in Targets : WritesTo(t) = {}
BY DEF Idle, LocksExclude, WorkInv, AtWork, CommitsKeepTheirIdentity, At, WritesTo

LEMMA CrashStep ==
  ASSUME IdentInv, Crash
  PROVE  IdentInv'
<1> USE DEF IdentInv
<1>1. /\ UNCHANGED <<profiles, pointer, binding>> /\ starting' = TRUE
      /\ call' = [c \in Calls |-> Idle]
      /\ loose' = loose \cup {t \in Targets : WritesTo(t) # {}}
  BY DEF Crash, rows
<1>2. /\ config' \in [Targets -> File]
      /\ \A t \in Targets : WritesTo(t) = {} => config'[t] = config[t]
  <2>1. CASE config' = config
    BY <2>1 DEF TypeInv
  <2>2. ASSUME NEW c \in Calls, call[c].at \in {"writing", "restoring"},
               Put(Target(c), NextKey(c), None)
        PROVE  /\ config' \in [Targets -> File]
               /\ \A t \in Targets : WritesTo(t) = {} => config'[t] = config[t]
    <3> DEFINE file == [config[Target(c)] EXCEPT ![NextKey(c)] = None]
    <3>1. AtWork(c) /\ c \in WritesTo(Target(c))
      BY <2>2 DEF AtWork, WritesTo
    <3>2. Target(c) \in Targets /\ config[Target(c)] \in File
      BY <3>1, AtWorkFacts DEF TypeInv
    <3>3. file \in File /\ config' = [config EXCEPT ![Target(c)] = file]
      BY <2>2, <3>2, NextKeyFacts, PutFacts
    <3> HIDE DEF file
    <3> QED
      BY <3>1, <3>2, <3>3 DEF TypeInv
  <2> QED
    BY <2>1, <2>2 DEF Crash
<1>3. TypeInv'
  BY <1>1, <1>2 DEF TypeInv, CallRec, Targets
<1>4. LocksExclude' /\ WorkInv' /\ CommitsKeepTheirIdentity'
  <2>1. (\A c \in Calls : call[c] = Idle)'
    BY <1>1
  <2> QED
    BY <2>1, AllIdle, PTL
<1>5. Referenced'
  BY <1>1 DEF Referenced, Existing
<1>6. QuietInv'
  <2> SUFFICES ASSUME NEW t \in Targets, t \notin loose'
               PROVE  Fits(config[t], t)'
    BY DEF QuietInv, Targets
  <2>1. t \notin loose /\ WritesTo(t) = {}
    BY <1>1
  <2>2. config'[t] = config[t] /\ Fits(config[t], t)
    BY <1>2, <2>1 DEF QuietInv
  <2> QED
    BY <1>1, <2>2 DEF Fits, Semantic, ProfileConfig
<1> QED
  BY <1>3, <1>4, <1>5, <1>6

LEMMA StartStep ==
  ASSUME IdentInv, IdentitiesAssumption, Start
  PROVE  IdentInv'
<1> USE DEF IdentInv
<1>1. /\ UNCHANGED <<config, call>> /\ starting' = FALSE
      /\ \A c \in Calls : call[c] = Idle
  BY DEF Start, LocksExclude
<1>2. LocksExclude' /\ WorkInv' /\ CommitsKeepTheirIdentity'
  <2>1. (\A c \in Calls : call[c] = Idle)'
    BY <1>1
  <2> QED
    BY <2>1, AllIdle, PTL
<1>3. \A t \in Targets : t \notin loose => Fits(config[t], t)
  BY <1>1, AllIdle DEF QuietInv
<1>4. CASE NothingToImport
  <2>1. UNCHANGED <<profiles, pointer, binding, loose>>
    BY <1>4 DEF NothingToImport, rows
  <2>2. TypeInv'
    BY <1>1, <2>1 DEF TypeInv, Targets
  <2>3. Referenced'
    BY <2>1 DEF Referenced, Existing
  <2>4. QuietInv'
    BY <1>1, <1>3, <2>1 DEF QuietInv, Fits, Semantic, ProfileConfig, Targets
  <2> QED
    BY <1>2, <2>2, <2>3, <2>4
<1>5. ASSUME NEW p \in Profiles, Import(p)
      PROVE  IdentInv'
  <2>1. Global \in Targets /\ config[Global] \in File
    BY DEF Targets, TypeInv
  <2> DEFINE name == config[Global]["name"]
             mark == Semantic("flag", config[Global]["flag"])
  <2>2. name \in Value /\ mark \in {"off", "on"}
    BY <2>1 DEF File, Keys, Flag, Semantic
  <2>3. PICK flag \in {"off", mark} :
          /\ Existing = {} /\ name # None
          /\ profiles' = [profiles EXCEPT ![p] = <<name, flag>>]
          /\ pointer' = p
          /\ loose' = IF flag = mark THEN loose ELSE loose \cup {Global}
          /\ binding' = binding
    BY <1>5 DEF Import
  <2> HIDE DEF name, mark
  <2>4. profiles'[p] = <<name, flag>> /\ profiles' \in [Profiles -> Row \cup {NoProfile}]
    BY <2>2, <2>3 DEF TypeInv, Row
  <2>5. TypeInv'
    BY <1>1, <2>1, <2>3, <2>4 DEF TypeInv, Targets
  <2>6. pointer = None /\ \A r \in Repositories : binding[r] = None
    BY <2>3 DEF Referenced
  <2>7. Referenced'
    BY <2>3, <2>4, <2>6 DEF Referenced, Existing, NoProfile
  <2>8. QuietInv'
    <3> SUFFICES ASSUME NEW t \in Targets, t \notin loose'
                 PROVE  Fits(config[t], t)'
      BY DEF QuietInv, Targets
    <3>1. CASE t = Global
      <4>1. flag = mark
        BY <2>3, <3>1
      <4>2. /\ Semantic("name", config[Global]["name"]) = name
            /\ Semantic("flag", config[Global]["flag"]) = flag
        BY <4>1 DEF Semantic, name, mark
      <4> QED
        BY <1>1, <2>3, <2>4, <3>1, <4>2 DEF Fits, ProfileConfig, Keys, Semantic
    <3>2. CASE t # Global
      BY <2>3, <2>6, <3>2 DEF Fits, Targets
    <3> QED
      BY <3>1, <3>2
  <2> QED
    BY <1>2, <2>5, <2>7, <2>8
<1> QED
  BY <1>4, <1>5 DEF Start

LEMMA InitInv == ASSUME IdentitiesAssumption, Init PROVE IdentInv
<1>1. \A c \in Calls : call[c] = Idle
  BY DEF Init
<1>2. config \in [Targets -> File]
  BY DEF Init, File, Value, Flag, Keys
<1>3. TypeInv
  BY <1>2 DEF Init, TypeInv, CallRec
<1>4. Referenced /\ QuietInv
  BY DEF Init, Referenced, QuietInv, Fits, Targets
<1> QED
  BY <1>1, <1>3, <1>4, AllIdle DEF IdentInv

LEMMA StutterStep == ASSUME IdentInv, UNCHANGED vars PROVE IdentInv'
<1>1. UNCHANGED <<profiles, pointer, binding, config, call, starting, loose>>
  BY DEF vars
<1> QED
  BY <1>1 DEF IdentInv, TypeInv, LocksExclude, Referenced, WorkInv, QuietInv, Fits, Existing, Bound,
     CommitsKeepTheirIdentity, GoalInv, FileInv, AtWork, WritesTo, Target, At, Semantic,
     ProfileConfig, Targets
\* One step of the whole, by its actions.
LEMMA NextStep == ASSUME IdentInv, IdentitiesAssumption, [Next]_vars PROVE IdentInv'
<1>1. CASE Start
  BY <1>1, StartStep
<1>2. CASE Crash
  BY <1>2, CrashStep
<1>3. ASSUME NEW c \in Calls, Step(c)
      PROVE  IdentInv'
  BY <1>3, WriteKeyStep, StoreStep, RestoreStep, CommittedStep DEF Step
<1>4. ASSUME NEW c \in Calls, Enter(c)
      PROVE  IdentInv'
  BY <1>4, EnterStep
<1>5. ASSUME NEW c \in Calls, NEW p \in Profiles,
             \/ Delete(c, p) \/ SetGlobal(c, p)
             \/ \E x \in Contents : Create(c, p, x) \/ Update(c, p, x)
      PROVE  IdentInv'
  BY <1>5, DeleteStep, SetGlobalStep, CreateStep, UpdateStep
<1>6. ASSUME NEW c \in Calls, NEW r \in Repositories,
             \/ Unbind(c, r) \/ \E p \in Profiles : Bind(c, r, p)
      PROVE  IdentInv'
  BY <1>6, WaitStep DEF Unbind, Bind
<1>7. ASSUME NEW c \in Calls, NEW r \in Repositories, NEW asked \in Existing \cup {None},
             Commit(c, r, asked)
      PROVE  IdentInv'
  BY <1>7, CommitStep
<1>8. ASSUME NEW t \in Targets,
             \/ \E v \in Names : Edit(t, "name", v)
             \/ \E v \in {None, "on"} : Edit(t, "flag", v)
      PROVE  IdentInv'
  <2>1. CASE \E v \in Names : Edit(t, "name", v)
    BY <2>1, EditStep DEF Value, Keys
  <2>2. CASE \E v \in {None, "on"} : Edit(t, "flag", v)
    BY <2>2, EditStep DEF Value, Flag, Keys
  <2> QED
    BY <1>8, <2>1, <2>2
<1>9. CASE UNCHANGED vars
  BY <1>9, StutterStep
<1> QED
  BY <1>1, <1>2, <1>3, <1>4, <1>5, <1>6, <1>7, <1>8, <1>9 DEF Next, CallNext

\* The inductive invariant holds in every state of identity.rs.
THEOREM IdentitiesInvariant == Spec => []IdentInv
<1>1. Init => IdentInv
  BY InitInv, IdentitiesAssumption
<1>2. IdentInv /\ [Next]_vars => IdentInv'
  BY NextStep, IdentitiesAssumption
<1> QED
  BY <1>1, <1>2, PTL DEF Spec

-----------------------------------------------------------------------------
\* Row and copy agree wherever no call is at work and nobody else has been
\* (bind_repository, unbind_repository, set_global, update).
THEOREM RowsAlwaysAgree == Spec => []RowsAndFilesAgree
<1>1. IdentInv => RowsAndFilesAgree
  <2> SUFFICES ASSUME IdentInv PROVE RowsAndFilesAgree
    OBVIOUS
  <2>1. ASSUME pointer # None, Global \notin loose, WritesTo(Global) = {}
        PROVE  pointer \in Existing /\ GlobalDrift(profiles[pointer]) = {}
    <3>1. Fits(config[Global], Global) /\ pointer \in Existing
      BY <2>1 DEF IdentInv, QuietInv, Referenced, Targets
    <3> QED
      BY <2>1, <3>1 DEF Fits, GlobalDrift
  <2>2. ASSUME NEW r \in Repositories, binding[r] # None, r \notin loose, WritesTo(r) = {}
        PROVE  binding[r] \in Existing /\ ~Drifted(r, profiles[binding[r]])
    <3>1. Fits(config[r], r) /\ binding[r] \in Existing /\ r # Global
      BY <2>2, IdentitiesAssumption DEF IdentInv, QuietInv, Referenced, Targets, IdentitiesAssumption
    <3> QED
      BY <2>2, <3>1 DEF Fits, Drifted
  <2> QED
    BY <2>1, <2>2 DEF RowsAndFilesAgree
<1> QED
  BY <1>1, IdentitiesInvariant, PTL

\* What a commit of a bound repository was resolved from stays what it was
\* (commit_with_identity holds the lock that bind_repository needs).
THEOREM CommitsAlwaysKeep == Spec => []CommitsKeepTheirIdentity
<1>1. IdentInv => CommitsKeepTheirIdentity
  BY DEF IdentInv
<1> QED
  BY <1>1, IdentitiesInvariant, PTL

\* No circle of calls that wait for each other's locks (bind_repository,
\* unbind_repository: the profiles before the repository).
THEOREM LocksNeverCircle == Spec => []NoCircularWait
<1>1. ASSUME TypeInv, NEW c \in Calls, At(c, "waiting")
      PROVE  call[c].locks = {Global} /\ call[c].repo # Global
  <2>1. call[c] \in CallRec
    BY <1>1 DEF TypeInv
  <2>2. call[c] \in Waiting
    BY <1>1, <2>1 DEF At, CallRec, Idle, ToGlobal, ToRepository, Committing
  <2> QED
    BY <2>2, IdentitiesAssumption DEF Waiting, IdentitiesAssumption
<1>2. IdentInv => NoCircularWait
  BY <1>1 DEF IdentInv, NoCircularWait, Needs
<1> QED
  BY <1>2, IdentitiesInvariant, PTL

-----------------------------------------------------------------------------
\* A step of one call leaves the others where they are.
LEMMA OthersStay ==
  ASSUME TypeInv, NEW c \in Calls, NEW d \in Calls, c # d, CallNext(d)
  PROVE  call'[c] = call[c]
<1>1. CASE Step(d)
  BY <1>1 DEF TypeInv, Step, WriteKey, Store, Stored, Restore, Committed, Return
<1>2. CASE Enter(d)
  BY <1>2 DEF TypeInv, Enter
<1>3. ASSUME NEW p \in Profiles, Delete(d, p) \/ SetGlobal(d, p)
      PROVE  call'[c] = call[c]
  BY <1>3 DEF TypeInv, Delete, SetGlobal
<1>4. ASSUME NEW p \in Profiles, NEW x \in Contents, Create(d, p, x) \/ Update(d, p, x)
      PROVE  call'[c] = call[c]
  BY <1>4 DEF TypeInv, Create, Update
<1>5. ASSUME NEW r \in Repositories, Unbind(d, r) \/ \E p \in Profiles : Bind(d, r, p)
      PROVE  call'[c] = call[c]
  BY <1>5 DEF TypeInv, Unbind, Bind, Wait
<1>6. ASSUME NEW r \in Repositories, NEW asked \in Existing \cup {None}, Commit(d, r, asked)
      PROVE  call'[c] = call[c]
  BY <1>6 DEF TypeInv, Commit
<1> QED
  BY <1>1, <1>2, <1>3, <1>4, <1>5, <1>6 DEF CallNext

\* A call that restores has nothing to do but this.
LEMMA OnlyRestores ==
  ASSUME NEW c \in Calls, At(c, "restoring"), CallNext(c)
  PROVE  Restore(c) \/ call' = call
BY DEF CallNext, Step, At, WriteKey, Store, Committed, Enter, Delete, SetGlobal, Create, Update,
       Unbind, Bind, Wait, Commit, Ready

LEMMA RestoredFile ==
  ASSUME IdentInv, NEW c \in Calls, Restore(c), call'[c] = Idle, Target(c) \notin loose'
  PROVE  config'[Target(c)] = call[c].before
<1> USE DEF IdentInv
<1> DEFINE k == NextKey(c)
<1>1. AtWork(c) /\ At(c, "restoring")
  BY DEF Restore, At, AtWork
<1>2. /\ Target(c) \in Targets /\ config[Target(c)] \in File
      /\ call[c].before \in File /\ k \in Keys
  BY <1>1, AtWorkFacts, NextKeyFacts DEF TypeInv
<1>3. Put(Target(c), k, call[c].before[k]) /\ loose' = loose /\ call[c].left = {k}
  <2>1. CASE call' = [call EXCEPT ![c].left = @ \ {k}]
    <3>1. call'[c] = Moved(c, "restoring", call[c].left \ {k})
      <4>1. call'[c] = [call[c] EXCEPT !.left = call[c].left \ {k}]
        BY <2>1 DEF TypeInv
      <4> QED
        BY <1>1, <4>1, MovedLeft DEF At
    <3>2. call[c].left \ {k} \in SUBSET Keys
      BY <1>1, AtWorkFacts
    <3> QED
      BY <1>1, <3>1, <3>2, MovedFacts
  <2> QED
    BY <2>1 DEF Restore
<1>4. config'[Target(c)] = [config[Target(c)] EXCEPT ![k] = call[c].before[k]]
  BY <1>2, <1>3, PutFacts DEF TypeInv
<1>5. \A j \in Keys \ {k} : config[Target(c)][j] = call[c].before[j]
  BY <1>1, <1>3 DEF WorkInv, FileInv
<1> QED
  BY <1>2, <1>4, <1>5 DEF File

\* A call that has failed and rolled back ends with the file as it found it
\* (restore_target_or_error), unless it says that it could not, or the user
\* has been there.
THEOREM FailuresAlwaysRestore == Spec => FailuresRestore
<1> DEFINE A == \A c \in Calls :
                  At(c, "restoring") /\ call'[c] = Idle /\ ~starting' /\ Target(c) \notin loose'
                    => config'[Target(c)] = call[c].before
<1>1. IdentInv /\ [Next]_vars => [A]_vars
  <2> SUFFICES ASSUME IdentInv, Next, NEW c \in Calls, At(c, "restoring"), call'[c] = Idle,
                      ~starting', Target(c) \notin loose'
               PROVE  config'[Target(c)] = call[c].before
    OBVIOUS
  <2>1. call[c] # Idle
    BY DEF At, Idle
  <2>2. ~Start
    BY <2>1 DEF Start, IdentInv, LocksExclude
  <2>3. ~Crash
    BY DEF Crash
  <2>4. ASSUME NEW t \in Targets, NEW k, NEW v, Edit(t, k, v)
        PROVE  call'[c] = call[c]
    BY <2>4 DEF Edit, At
  <2>5. CallNext(c)
    BY <2>1, <2>2, <2>3, <2>4, OthersStay DEF Next, IdentInv
  <2> QED
    BY <2>1, <2>5, OnlyRestores, RestoredFile
<1> QED
  BY <1>1, IdentitiesInvariant, PTL DEF Spec, FailuresRestore
=============================================================================
