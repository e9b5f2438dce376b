---------------------------- MODULE RemoteProofs ----------------------------
(***************************************************************************)
(* The parts that deal with remotes and share nothing with each other: the *)
(* transport profiles with the configuration of the repositories, one git  *)
(* process, and provider discovery.                                        *)
(*                                                                         *)
(* Every binding fits a profile that exists, and the configuration of a    *)
(* repository is accounted for, for all repositories, keys, profiles and   *)
(* contents (TransportProfiles). The invariants speak of a repository      *)
(* nobody is writing to; what makes them inductive is what the operation   *)
(* that writes carries with it: the row it is going to save fits a profile *)
(* that exists and keeps the base, what it wants to write is what that row *)
(* says, and what it found is what a compensation that works leaves        *)
(* behind.                                                                 *)
(*                                                                         *)
(* A run of git returns without git, and succeeds with the whole output,   *)
(* for pipes, limits, inputs and outputs of any size (GitProcess).         *)
(*                                                                         *)
(* A repository is suggested only when every address of a remote resolved  *)
(* to it, and a drain goes on only when those it cancelled are done, for   *)
(* any calls, accounts, remotes and limits (Discovery). What makes them    *)
(* inductive is that the registry holds exactly the calls at work, each    *)
(* under its key, that whom a drain cancelled is at work in its scope or   *)
(* about to wake it, and what a match carries from one address to the next.*)
(*                                                                         *)
(* Following the cursors of a listing gives every matching repository once *)
(* and in order, for any pages, queries and page sizes (Discovery). What a *)
(* listing gave, has left over and may still ask for add up to the whole   *)
(* at each of its steps, and at every cursor.                              *)
(***************************************************************************)
EXTENDS TransportProfiles, GitProcess, Discovery, FiniteSetTheorems, SequenceTheorems,
        WellFoundedInduction, TLAPS

Configs == [Keys -> Contents \cup {Outside, Unset}]

Rows == [profile : Profiles, before : Configs, applied : Configs, drifted : BOOLEAN]

Operations ==
  [repo : Repositories, step : {"read", "write", "verify", "save", "repair"},
   target : Configs, restore : Configs, expected : Configs,
   row : Rows \cup {NoBinding}, undoing : BOOLEAN]

Deletions == [profile : Profiles, plan : UNION {[S -> Resolutions] : S \in SUBSET Repositories}]

ProfileTypes ==
  /\ config \in [Repositories -> Configs]
  /\ profiles \in [Profiles -> Contents \cup {None}]
  /\ bindings \in [Repositories -> Rows \cup {NoBinding}]
  /\ repairs \subseteq Repositories
  /\ op \in Operations \cup {NoOp}
  /\ base \in [Repositories -> Configs]
  /\ tampered \in [Repositories -> {"no", "edited", "lost"}]

\* The row that is going to be saved is of a profile that exists, and says
\* what the profile says.
Fits(row) == row # NoBinding =>
  profiles[row.profile] # None /\ row.applied = Desired(row.profile)

OpFits == op # NoOp => Fits(op.row)

\* What is known of repository r, when it is neither under repair nor lost.
Known(r) == r \notin repairs /\ tampered[r] # "lost"

\* Configuration c would be that of repository r between operations.
Settled(r, c) ==
  /\ IsBound(r) => /\ bindings[r].before = base[r]
                   /\ tampered[r] = "no" => c = bindings[r].applied
  /\ ~IsBound(r) => c = base[r]

\* What is undone goes back to what was found; what is done goes to what the
\* row says or, if no row is left, to what the user had.
OpAccounted(r) ==
  /\ Settled(r, op.restore)
  /\ op.row # NoBinding => op.row.before = base[r]
  /\ op.undoing => op.target = op.restore /\ op.step # "save"
  /\ ~op.undoing /\ op.row = NoBinding => op.target = base[r]
  /\ ~op.undoing /\ op.row # NoBinding => op.target = op.row.applied
  /\ op.step = "save" => config[r] = op.target

RepoOK(r) == Known(r) =>
  IF op.repo = r THEN OpAccounted(r) ELSE Settled(r, config[r])

MainInv ==
  /\ ProfileTypes
  /\ \A r \in Repositories : Fits(bindings[r])
  /\ OpFits
  /\ \A r \in Repositories : RepoOK(r)

\* Of a deletion: what is left of its plan is what is still bound to the
\* profile, but for the repository that is being written to, which will be
\* bound to it no more.
DeletionInv ==
  /\ deleting \in Deletions \cup {NoDeletion}
  /\ deleting # NoDeletion =>
       /\ \A r \in DOMAIN deleting.plan : deleting.plan[r] # deleting.profile
       /\ op = NoOp => BoundTo(deleting.profile) = DOMAIN deleting.plan
       /\ op # NoOp => /\ BoundTo(deleting.profile) = DOMAIN deleting.plan \cup {op.repo}
                       /\ op.repo \notin DOMAIN deleting.plan
                       /\ op.row.profile # deleting.profile

ProfilesInv == MainInv /\ DeletionInv
-----------------------------------------------------------------------------
\* The elements of the types.
LEMMA BindingTypes ==
  ASSUME ProfileTypes, NEW r \in Repositories
  PROVE  /\ bindings[r] \in Rows \cup {NoBinding}
         /\ IsBound(r) => /\ bindings[r] \in Rows
                          /\ bindings[r].profile \in Profiles
                          /\ bindings[r].before \in Configs
                          /\ bindings[r].applied \in Configs
         /\ ~IsBound(r) => bindings[r].profile = None
         /\ config[r] \in Configs
<1>1. bindings[r] \in Rows \cup {NoBinding} /\ config[r] \in Configs
  BY DEF ProfileTypes
<1> QED BY <1>1 DEF IsBound, Rows, NoBinding

\* An operation is a record of its kind, and of a repository; when there is
\* none, it is of no repository.
LEMMA OpTypes ==
  ASSUME ProfileTypes
  PROVE  /\ op # NoOp => /\ op \in Operations
                         /\ op.repo \in Repositories
                         /\ op.target \in Configs
                         /\ op.restore \in Configs
                         /\ op.expected \in Configs
                         /\ op.row \in Rows \cup {NoBinding}
         /\ op = NoOp => op.repo = None
         /\ \A r \in Repositories : op.repo = r => op # NoOp
BY ProfilesAssumption DEF ProfileTypes, NoOp, Operations

\* What a profile that exists wants is a configuration.
LEMMA DesiredTypes ==
  ASSUME ProfileTypes, NEW p \in Profiles, profiles[p] # None
  PROVE  Desired(p) \in Configs
BY DEF ProfileTypes, Desired, Configs

\* A repository nobody touches stays as it was accounted for.
LEMMA Untouched ==
  ASSUME NEW r \in Repositories, RepoOK(r),
         config'[r] = config[r], bindings'[r] = bindings[r], base'[r] = base[r],
         tampered'[r] = tampered[r], r \in repairs' <=> r \in repairs,
         op.repo # r, op'.repo # r
  PROVE  RepoOK(r)'
BY DEF RepoOK, Known, Settled, IsBound

\* A profile nobody is bound to may change, or go, between operations.
LEMMA RedefineKeeps ==
  ASSUME MainInv, op = NoOp, NEW p, NEW value \in Contents \cup {None},
         BoundTo(p) = {}, profiles' = [profiles EXCEPT ![p] = value],
         UNCHANGED <<config, bindings, repairs, op, base, tampered>>
  PROVE  MainInv'
<1>1. ProfileTypes'
  BY DEF MainInv, ProfileTypes
<1>2. ASSUME NEW r \in Repositories PROVE Fits(bindings[r])'
  <2>1. bindings[r].profile # p
    BY DEF BoundTo
  <2>2. bindings[r] # NoBinding => bindings[r].profile \in Profiles
    BY BindingTypes DEF MainInv, IsBound
  <2>3. Fits(bindings[r])
    BY DEF MainInv
  <2>4. bindings[r] # NoBinding =>
          profiles'[bindings[r].profile] = profiles[bindings[r].profile]
    BY <2>1, <2>2 DEF MainInv, ProfileTypes
  <2> QED BY <2>3, <2>4 DEF Fits, Desired
<1>3. OpFits'
  BY DEF OpFits
<1>4. ASSUME NEW r \in Repositories PROVE RepoOK(r)'
  BY OpTypes, Untouched DEF MainInv
<1> QED BY <1>1, <1>2, <1>3, <1>4 DEF MainInv

\* To notice a drift changes nothing that is accounted for.
LEMMA MarkKeeps ==
  ASSUME MainInv, NEW r \in Repositories, IsBound(r), RepoFree(r),
         bindings' = [bindings EXCEPT ![r].drifted = TRUE],
         UNCHANGED <<config, profiles, repairs, op, base, tampered>>
  PROVE  /\ MainInv'
         /\ \A s \in Repositories : bindings'[s].profile = bindings[s].profile
<1>1. bindings[r] \in Rows
  BY BindingTypes DEF MainInv
<1>2. /\ bindings'[r] \in Rows
      /\ bindings'[r].profile = bindings[r].profile
      /\ bindings'[r].before = bindings[r].before
      /\ bindings'[r].applied = bindings[r].applied
  <2>1. PICK row \in Rows : row = bindings[r]
    BY <1>1
  <2>2. bindings'[r] = [row EXCEPT !.drifted = TRUE]
    BY <2>1 DEF MainInv, ProfileTypes
  <2>3. bindings'[r] \in Rows
    BY <2>2 DEF Rows
  <2>4. /\ bindings'[r].profile = row.profile
        /\ bindings'[r].before = row.before
        /\ bindings'[r].applied = row.applied
    BY <2>2 DEF Rows
  <2> QED BY <2>1, <2>3, <2>4
<1>3. bindings'[r] # NoBinding
  BY <1>2, ProfilesAssumption DEF Rows, NoBinding
<1>4. \A s \in Repositories : s # r => bindings'[s] = bindings[s]
  BY DEF MainInv, ProfileTypes
<1>5. ProfileTypes'
  <2>1. bindings' \in [Repositories -> Rows \cup {NoBinding}]
    BY <1>2 DEF MainInv, ProfileTypes
  <2> QED BY <2>1 DEF MainInv, ProfileTypes
<1>6. ASSUME NEW s \in Repositories PROVE Fits(bindings[s])'
  <2>1. Fits(bindings[s])
    BY DEF MainInv
  <2>2. CASE s # r
    BY <2>1, <2>2, <1>4 DEF Fits, Desired
  <2>3. CASE s = r
    <3>1. profiles[bindings[r].profile] # None
          /\ bindings[r].applied = Desired(bindings[r].profile)
      BY <2>1, <2>3 DEF Fits, IsBound
    <3> QED BY <3>1, <2>3, <1>2 DEF Fits, Desired
  <2> QED BY <2>2, <2>3
<1>7. OpFits'
  BY DEF MainInv, OpFits, Fits, Desired
<1>8. ASSUME NEW s \in Repositories PROVE RepoOK(s)'
  <2>1. CASE s = r
    BY <2>1, <1>2, <1>3 DEF MainInv, RepoOK, Known, Settled, IsBound, RepoFree
  <2>2. CASE s # r /\ op.repo # s
    BY <2>2, <1>4, Untouched DEF MainInv
  <2>3. CASE s # r /\ op.repo = s
    BY <2>3, <1>4 DEF MainInv, RepoOK, Known, OpAccounted, Settled, IsBound
  <2> QED BY <2>1, <2>2, <2>3
<1>9. ASSUME NEW s \in Repositories PROVE bindings'[s].profile = bindings[s].profile
  BY <1>2, <1>4
<1> QED BY <1>5, <1>6, <1>7, <1>8, <1>9 DEF MainInv
-----------------------------------------------------------------------------
\* An operation that starts knows what it has found, and means well.
LEMMA LaunchKeeps ==
  ASSUME MainInv, op = NoOp, NEW r \in Repositories,
         NEW target \in Configs, NEW row \in Rows \cup {NoBinding},
         Launch(r, target, row), UNCHANGED <<profiles, repairs>>,
         Fits(row),
         Known(r) => /\ row # NoBinding => row.before = base[r] /\ target = row.applied
                     /\ row = NoBinding => target = base[r]
  PROVE  MainInv'
<1>1. config[r] \in Configs
  BY BindingTypes DEF MainInv
<1>2. /\ op' \in Operations
      /\ op'.repo = r /\ op'.row = row /\ op'.target = target /\ op'.restore = config[r]
      /\ op'.undoing = FALSE /\ op'.step = "read"
  BY <1>1 DEF Launch, Operations
<1>3. UNCHANGED <<config, profiles, bindings, repairs, base, tampered>>
  BY DEF Launch
<1>4. ProfileTypes'
  BY <1>2, <1>3 DEF MainInv, ProfileTypes
<1>5. ASSUME NEW s \in Repositories PROVE Fits(bindings[s])'
  BY <1>3 DEF MainInv, Fits, Desired
<1>6. OpFits'
  BY <1>2, <1>3 DEF OpFits, Fits, Desired
<1>7. ASSUME NEW s \in Repositories PROVE RepoOK(s)'
  <2>0. op.repo # s
    BY OpTypes DEF MainInv
  <2>1. CASE s # r
    BY <2>0, <2>1, <1>2, <1>3, Untouched DEF MainInv
  <2>2. CASE s = r
    <3>1. Known(r) => Settled(r, config[r])
      BY <2>0, <2>2 DEF MainInv, RepoOK
    <3>2. Known(r)' => Known(r) /\ Settled(r, config[r])'
      BY <3>1, <1>3 DEF Known, Settled, IsBound
    <3>3. Known(r)' => OpAccounted(r)'
      BY <3>2, <1>2, <1>3 DEF OpAccounted, Settled, IsBound
    <3> QED BY <3>3, <2>2, <1>2 DEF RepoOK
  <2> QED BY <2>1, <2>2
<1> QED BY <1>4, <1>5, <1>6, <1>7 DEF MainInv

\* bind: what was there before the first of the profiles stays the base.
LEMMA BindKeeps ==
  ASSUME MainInv, op = NoOp, NEW r \in Repositories, NEW p \in Profiles, NEW replace,
         StartBind(r, p, replace), UNCHANGED <<profiles, repairs>>
  PROVE  MainInv'
<1> DEFINE before == IF IsBound(r) THEN bindings[r].before ELSE config[r]
           row    == NewBinding(p, before)
<1>1. profiles[p] # None /\ Launch(r, Desired(p), row)
  BY DEF StartBind
<1>2. Desired(p) \in Configs
  BY <1>1, DesiredTypes DEF MainInv
<1>3. before \in Configs
  BY BindingTypes DEF MainInv
<1> HIDE DEF before
<1>4. row \in Rows /\ row.profile = p /\ row.before = before /\ row.applied = Desired(p)
  BY <1>2, <1>3 DEF NewBinding, Rows
<1>5. Fits(row)
  BY <1>1, <1>4 DEF Fits
<1>6. Known(r) => before = base[r]
  <2>1. Known(r) => Settled(r, config[r])
    BY OpTypes DEF MainInv, RepoOK
  <2> QED BY <2>1 DEF before, Settled
<1>7. row # NoBinding
  BY <1>4, ProfilesAssumption DEF NoBinding
<1> HIDE DEF row
<1> QED BY <1>1, <1>2, <1>4, <1>5, <1>6, <1>7, LaunchKeeps

\* unbind: what is written back is the base.
LEMMA UnbindKeeps ==
  ASSUME MainInv, op = NoOp, NEW r \in Repositories,
         StartUnbind(r), UNCHANGED <<profiles, repairs>>
  PROVE  MainInv'
<1>1. IsBound(r) /\ Launch(r, bindings[r].before, NoBinding)
  BY DEF StartUnbind
<1>2. bindings[r].before \in Configs
  BY <1>1, BindingTypes DEF MainInv
<1>3. Known(r) => bindings[r].before = base[r]
  <2>1. Known(r) => Settled(r, config[r])
    BY OpTypes DEF MainInv, RepoOK
  <2> QED BY <2>1, <1>1 DEF Settled
<1>4. Fits(NoBinding)
  BY DEF Fits
<1> QED BY <1>1, <1>2, <1>3, <1>4, LaunchKeeps

\* reapply: what is written is what had been applied.
LEMMA ReapplyKeeps ==
  ASSUME MainInv, op = NoOp, NEW r \in Repositories,
         StartReapply(r), UNCHANGED <<profiles, repairs>>
  PROVE  MainInv'
<1> DEFINE row == [bindings[r] EXCEPT !.drifted = FALSE]
<1>1. IsBound(r) /\ Launch(r, bindings[r].applied, row)
  BY DEF StartReapply, Drifted
<1>2. bindings[r] \in Rows /\ bindings[r].applied \in Configs
  BY <1>1, BindingTypes DEF MainInv
<1>3. /\ row \in Rows
      /\ row.profile = bindings[r].profile
      /\ row.before = bindings[r].before
      /\ row.applied = bindings[r].applied
  BY <1>2 DEF Rows
<1>4. row # NoBinding
  BY <1>3, ProfilesAssumption DEF Rows, NoBinding
<1>5. Fits(row)
  BY <1>1, <1>3 DEF MainInv, Fits, IsBound
<1>6. Known(r) => row.before = base[r]
  <2>1. Known(r) => Settled(r, config[r])
    BY OpTypes DEF MainInv, RepoOK
  <2> QED BY <2>1, <1>1, <1>3 DEF Settled
<1> HIDE DEF row
<1> QED BY <1>1, <1>2, <1>3, <1>4, <1>5, <1>6, LaunchKeeps

\* A binding that is given up leaves the configuration to the user.
LEMMA KeepExternalKeeps ==
  ASSUME MainInv, op = NoOp, NEW r \in Repositories,
         KeepExternal(r), UNCHANGED <<profiles, repairs>>
  PROVE  /\ MainInv'
         /\ \A s \in Repositories :
              bindings'[s] = IF s = r THEN NoBinding ELSE bindings[s]
<1>1. /\ UNCHANGED <<config, op>>
      /\ bindings'[r] = NoBinding /\ base'[r] = config[r] /\ tampered'[r] = "no"
      /\ \A s \in Repositories \ {r} : /\ bindings'[s] = bindings[s]
                                       /\ base'[s] = base[s]
                                       /\ tampered'[s] = tampered[s]
  BY DEF MainInv, ProfileTypes, KeepExternal
<1>2. ProfileTypes'
  <2>1. config[r] \in Configs
    BY BindingTypes DEF MainInv
  <2> QED BY <2>1, <1>1 DEF MainInv, ProfileTypes, KeepExternal
<1>3. ASSUME NEW s \in Repositories PROVE Fits(bindings[s])'
  BY <1>1 DEF MainInv, Fits, Desired
<1>4. OpFits'
  BY <1>1 DEF OpFits
<1>5. ASSUME NEW s \in Repositories PROVE RepoOK(s)'
  <2>0. op.repo # s
    BY OpTypes DEF MainInv
  <2>1. CASE s = r
    BY <2>0, <2>1, <1>1 DEF RepoOK, Settled, IsBound
  <2>2. CASE s # r
    BY <2>0, <2>2, <1>1, Untouched DEF MainInv
  <2> QED BY <2>1, <2>2
<1> QED BY <1>1, <1>2, <1>3, <1>4, <1>5 DEF MainInv
-----------------------------------------------------------------------------
\* A step of the operation that is under way: it may write to its repository
\* only, and go on as an operation on it.
LEMMA OpStepKeeps ==
  ASSUME MainInv, op # NoOp, op' \in Operations, op'.repo = op.repo, op'.row = op.row,
         config' \in [Repositories -> Configs],
         \A r \in Repositories \ {op.repo} : config'[r] = config[r],
         UNCHANGED <<profiles, bindings, repairs, base, tampered>>,
         Known(op.repo) /\ OpAccounted(op.repo) => OpAccounted(op.repo)'
  PROVE  MainInv'
<1>1. ProfileTypes'
  BY DEF MainInv, ProfileTypes
<1>2. ASSUME NEW r \in Repositories PROVE Fits(bindings[r])'
  BY DEF MainInv, Fits, Desired
<1>3. OpFits'
  BY DEF MainInv, OpFits, Fits, Desired
<1>4. ASSUME NEW r \in Repositories PROVE RepoOK(r)'
  <2>1. CASE r = op.repo
    <3>1. Known(op.repo)' => Known(op.repo) /\ OpAccounted(op.repo)
      BY <2>1 DEF MainInv, RepoOK, Known
    <3>2. Known(op.repo)' => OpAccounted(op.repo)'
      BY <3>1
    <3> QED BY <3>2, <2>1 DEF RepoOK, Known, OpAccounted, Settled, IsBound
  <2>2. CASE r # op.repo
    BY <2>2, Untouched DEF MainInv
  <2> QED BY <2>1, <2>2
<1> QED BY <1>1, <1>2, <1>3, <1>4 DEF MainInv

\* What a failure makes of the operation.
LEMMA FailedOp ==
  ASSUME ProfileTypes, op # NoOp, Fail
  PROVE  /\ op' \in Operations /\ op'.repo = op.repo /\ op'.row = op.row
         /\ op'.restore = op.restore /\ op'.undoing /\ op'.step # "save"
         /\ IF op.undoing THEN op'.target = op.target ELSE op'.target = op.restore
         /\ deleting' = deleting
<1>1. op \in Operations
  BY OpTypes
<1>2. CASE op.undoing
  BY <1>1, <1>2 DEF Fail, Step, Operations
<1>3. CASE ~op.undoing
  BY <1>1, <1>3 DEF Fail, Operations
<1> QED BY <1>2, <1>3

\* An operation that fails, whatever it has written, is undone, or will have
\* to be repaired.
LEMMA FailKeeps ==
  ASSUME MainInv, op # NoOp, Fail,
         config' \in [Repositories -> Configs],
         \A r \in Repositories \ {op.repo} : config'[r] = config[r],
         UNCHANGED <<profiles, bindings, repairs, base, tampered>>
  PROVE  MainInv'
<1>1. /\ op' \in Operations /\ op'.repo = op.repo /\ op'.row = op.row
      /\ op'.restore = op.restore /\ op'.undoing /\ op'.step # "save"
      /\ IF op.undoing THEN op'.target = op.target ELSE op'.target = op.restore
  BY FailedOp DEF MainInv
<1>2. OpAccounted(op.repo) => OpAccounted(op.repo)'
  BY <1>1 DEF OpAccounted, Settled, IsBound
<1> QED BY <1>1, <1>2, OpStepKeeps

\* An operation that goes by what is there writes on, has something to save,
\* or has put back what it found.
LEMMA ContinueKeeps ==
  ASSUME MainInv, op # NoOp, NEW expected \in Configs, expected = config[op.repo],
         Continue(expected),
         UNCHANGED <<config, profiles, bindings, repairs, base, tampered>>
  PROVE  MainInv'
<1>1. op \in Operations /\ op.repo \in Repositories
  BY OpTypes DEF MainInv
<1>2. /\ config' \in [Repositories -> Configs]
      /\ \A r \in Repositories \ {op.repo} : config'[r] = config[r]
  BY DEF MainInv, ProfileTypes
<1>3. CASE expected # op.target
  <2>1. op' = [op EXCEPT !.expected = expected, !.step = "write"]
    BY <1>1, <1>3 DEF Continue, Operations
  <2>2. /\ op' \in Operations /\ op'.repo = op.repo /\ op'.row = op.row
        /\ op'.target = op.target /\ op'.restore = op.restore /\ op'.undoing = op.undoing
        /\ op'.step = "write"
    BY <1>1, <2>1 DEF Operations
  <2>3. OpAccounted(op.repo) => OpAccounted(op.repo)'
    BY <2>2 DEF OpAccounted, Settled, IsBound
  <2> QED BY <1>2, <2>2, <2>3, OpStepKeeps
<1>4. CASE expected = op.target /\ ~op.undoing
  <2>1. op' = [op EXCEPT !.expected = expected, !.step = "save"]
    BY <1>1, <1>4 DEF Continue, Operations
  <2>2. /\ op' \in Operations /\ op'.repo = op.repo /\ op'.row = op.row
        /\ op'.target = op.target /\ op'.restore = op.restore /\ op'.undoing = op.undoing
        /\ op'.step = "save"
    BY <1>1, <2>1 DEF Operations
  <2>3. OpAccounted(op.repo) => OpAccounted(op.repo)'
    BY <1>4, <2>2 DEF OpAccounted, Settled, IsBound
  <2> QED BY <1>2, <2>2, <2>3, OpStepKeeps
<1>5. CASE expected = op.target /\ op.undoing
  <2>1. op' = NoOp
    BY <1>5 DEF Continue, Restored
  <2>2. ProfileTypes'
    BY <2>1 DEF MainInv, ProfileTypes
  <2>3. ASSUME NEW r \in Repositories PROVE Fits(bindings[r])'
    BY DEF MainInv, Fits, Desired
  <2>4. OpFits'
    BY <2>1 DEF OpFits, NoOp
  <2>5. ASSUME NEW r \in Repositories PROVE RepoOK(r)'
    <3>0. op'.repo # r
      BY <2>1, ProfilesAssumption DEF NoOp
    <3>1. CASE r = op.repo
      <4>1. Known(r)' => OpAccounted(r)
        BY <3>1 DEF MainInv, RepoOK, Known
      <4>2. Known(r)' => Settled(r, config[r])'
        BY <4>1, <3>1, <1>5 DEF OpAccounted, Settled, IsBound
      <4> QED BY <4>2, <3>0 DEF RepoOK
    <3>2. CASE r # op.repo
      BY <3>0, <3>2, Untouched DEF MainInv
    <3> QED BY <3>1, <3>2
  <2> QED BY <2>2, <2>3, <2>4, <2>5 DEF MainInv
<1> QED BY <1>3, <1>4, <1>5

\* ReadConfig, WriteKey and VerifyKey: one key is written, by itself.
LEMMA WritingKeeps ==
  ASSUME MainInv, ReadConfig \/ WriteKey \/ VerifyKey
  PROVE  MainInv'
<1>1. op # NoOp /\ UNCHANGED <<profiles, bindings, repairs, base, tampered>>
  BY DEF ReadConfig, WriteKey, VerifyKey
<1>2. op \in Operations /\ op.repo \in Repositories /\ op.target \in Configs
      /\ op.expected \in Configs /\ config[op.repo] \in Configs
  BY <1>1, OpTypes DEF MainInv, ProfileTypes
<1>3. CASE ReadConfig \/ VerifyKey
  <2>1. UNCHANGED config
    BY <1>3 DEF ReadConfig, VerifyKey
  <2>2. \/ \E expected \in Configs : expected = config[op.repo] /\ Continue(expected)
        \/ Fail
    BY <1>2, <1>3 DEF ReadConfig, VerifyKey
  <2>3. CASE Fail
    BY <1>1, <2>1, <2>3, FailKeeps DEF MainInv, ProfileTypes
  <2>4. ASSUME NEW expected \in Configs, expected = config[op.repo], Continue(expected)
        PROVE  MainInv'
    BY <1>1, <2>1, <2>4, ContinueKeeps
  <2> QED BY <2>2, <2>3, <2>4
<1>4. CASE WriteKey
  <2>1. PICK k : k = NextKey
    OBVIOUS
  <2> DEFINE after == [config EXCEPT ![op.repo][k] = op.target[k]]
  <2>2. \/ /\ config' = after
           /\ op' = [op EXCEPT !.expected[k] = op.target[k], !.step = "verify"]
        \/ config' \in {config, after} /\ Fail
    BY <1>4, <2>1 DEF WriteKey
  <2>3. /\ after \in [Repositories -> Configs]
        /\ \A r \in Repositories \ {op.repo} : after[r] = config[r]
    <3>1. [config[op.repo] EXCEPT ![k] = op.target[k]] \in Configs
      BY <1>2 DEF Configs
    <3> QED BY <1>2, <3>1 DEF MainInv, ProfileTypes
  <2>4. CASE config' \in {config, after} /\ Fail
    <3>1. /\ config' \in [Repositories -> Configs]
          /\ \A r \in Repositories \ {op.repo} : config'[r] = config[r]
      BY <2>3, <2>4 DEF MainInv, ProfileTypes
    <3> HIDE DEF after
    <3> QED BY <3>1, <1>1, <2>4, FailKeeps
  <2>5. CASE /\ config' = after
             /\ op' = [op EXCEPT !.expected[k] = op.target[k], !.step = "verify"]
    <3>1. [op.expected EXCEPT ![k] = op.target[k]] \in Configs
      BY <1>2 DEF Configs
    <3>2. op' = [op EXCEPT !.expected = [op.expected EXCEPT ![k] = op.target[k]],
                           !.step = "verify"]
      BY <2>5
    <3>3. /\ op' \in Operations /\ op'.repo = op.repo /\ op'.row = op.row
          /\ op'.target = op.target /\ op'.restore = op.restore
          /\ op'.undoing = op.undoing /\ op'.step = "verify"
      BY <1>2, <3>1, <3>2 DEF Operations
    <3>4. OpAccounted(op.repo) => OpAccounted(op.repo)'
      BY <1>1, <3>3 DEF OpAccounted, Settled, IsBound
    <3>5. /\ config' \in [Repositories -> Configs]
          /\ \A r \in Repositories \ {op.repo} : config'[r] = config[r]
      BY <2>3, <2>5
    <3> HIDE DEF after
    <3> QED BY <1>1, <3>3, <3>4, <3>5, OpStepKeeps
  <2> QED BY <2>2, <2>4, <2>5
<1> QED BY <1>3, <1>4

\* The row that is saved is the row the operation carries, and what is in the
\* configuration by then is what that row says.
LEMMA SaveKeeps ==
  ASSUME MainInv, SaveRow
  PROVE  MainInv'
<1>1. op # NoOp /\ op.step = "save" /\ UNCHANGED <<config, profiles, repairs, base>>
  BY DEF SaveRow
<1>2. op \in Operations /\ op.repo \in Repositories /\ op.row \in Rows \cup {NoBinding}
  BY <1>1, OpTypes DEF MainInv
<1>3. CASE Fail /\ UNCHANGED <<bindings, tampered>>
  BY <1>1, <1>3, FailKeeps DEF MainInv, ProfileTypes
<1>4. CASE /\ bindings' = [bindings EXCEPT ![op.repo] = op.row]
           /\ tampered' = [tampered EXCEPT ![op.repo] = IF @ = "edited" THEN "no" ELSE @]
           /\ op' = NoOp
  <2>1. /\ bindings'[op.repo] = op.row
        /\ tampered'[op.repo] = "lost" <=> tampered[op.repo] = "lost"
        /\ \A r \in Repositories \ {op.repo} : /\ bindings'[r] = bindings[r]
                                               /\ tampered'[r] = tampered[r]
    BY <1>2, <1>4 DEF MainInv, ProfileTypes
  <2>2. ProfileTypes'
    BY <1>1, <1>2, <1>4 DEF MainInv, ProfileTypes
  <2>3. ASSUME NEW r \in Repositories PROVE Fits(bindings[r])'
    <3>1. CASE r = op.repo
      BY <3>1, <2>1, <1>1 DEF MainInv, OpFits, Fits, Desired
    <3>2. CASE r # op.repo
      BY <3>2, <2>1, <1>1 DEF MainInv, Fits, Desired
    <3> QED BY <3>1, <3>2
  <2>4. OpFits'
    BY <1>4 DEF OpFits, NoOp
  <2>5. ASSUME NEW r \in Repositories PROVE RepoOK(r)'
    <3>0. op'.repo # r
      BY <1>4, ProfilesAssumption DEF NoOp
    <3>1. CASE r = op.repo
      <4>1. Known(r)' => OpAccounted(r)
        BY <3>1, <2>1, <1>1 DEF MainInv, RepoOK, Known
      <4>2. OpAccounted(r) => Settled(r, config[r])'
        BY <3>1, <2>1, <1>1 DEF OpAccounted, Settled, IsBound
      <4> QED BY <4>1, <4>2, <3>0 DEF RepoOK
    <3>2. CASE r # op.repo
      BY <3>0, <3>2, <2>1, <1>1, Untouched DEF MainInv
    <3> QED BY <3>1, <3>2
  <2> QED BY <2>2, <2>3, <2>4, <2>5 DEF MainInv
<1> QED BY <1>3, <1>4 DEF SaveRow

\* What could not be put back is under repair, or the repair is lost.
LEMMA RepairKeeps ==
  ASSUME MainInv, RecordRepair
  PROVE  MainInv'
<1>1. op # NoOp /\ op' = NoOp /\ UNCHANGED <<config, profiles, bindings, base>>
  BY DEF RecordRepair
<1>2. op.repo \in Repositories
  BY <1>1, OpTypes DEF MainInv
<1>3. /\ \A r \in Repositories : r = op.repo => ~Known(r)'
      /\ \A r \in Repositories \ {op.repo} : /\ r \in repairs' <=> r \in repairs
                                             /\ tampered'[r] = tampered[r]
  BY <1>2 DEF MainInv, ProfileTypes, RecordRepair, Known
<1>4. ProfileTypes'
  BY <1>1, <1>2 DEF MainInv, ProfileTypes, RecordRepair
<1>5. ASSUME NEW r \in Repositories PROVE Fits(bindings[r])'
  BY <1>1 DEF MainInv, Fits, Desired
<1>6. OpFits'
  BY <1>1 DEF OpFits, NoOp
<1>7. ASSUME NEW r \in Repositories PROVE RepoOK(r)'
  <2>1. CASE r = op.repo
    BY <2>1, <1>3 DEF RepoOK, Known
  <2>2. CASE r # op.repo
    BY <2>2, <1>1, <1>3, Untouched, ProfilesAssumption DEF MainInv, NoOp
  <2> QED BY <2>1, <2>2
<1> QED BY <1>4, <1>5, <1>6, <1>7 DEF MainInv

\* An edit is the user's where nothing is bound, and is noted where something
\* is; under an operation it leaves the repository lost.
LEMMA EditKeeps ==
  ASSUME MainInv, NEW r \in Repositories, Edit(r)
  PROVE  MainInv'
<1>1. PICK k \in Keys, value \in {Outside, Unset} :
        config' = [config EXCEPT ![r][k] = value]
  BY DEF Edit
<1>2. UNCHANGED <<profiles, bindings, repairs, op>>
  BY DEF Edit, lockVars
<1>3. /\ config' \in [Repositories -> Configs]
      /\ \A s \in Repositories \ {r} : config'[s] = config[s]
  <2>1. [config[r] EXCEPT ![k] = value] \in Configs
    BY <1>1, BindingTypes DEF MainInv, Configs
  <2> QED BY <1>1, <2>1 DEF MainInv, ProfileTypes
<1> DEFINE
  Lost   == op.repo = r /\ tampered' = [tampered EXCEPT ![r] = "lost"] /\ UNCHANGED base
  Noted  == /\ RepoFree(r) /\ IsBound(r)
            /\ tampered' = [tampered EXCEPT ![r] = IF @ = "no" THEN "edited" ELSE @]
            /\ UNCHANGED base
  Theirs == /\ RepoFree(r) /\ ~IsBound(r)
            /\ base' = [base EXCEPT ![r] = config'[r]] /\ UNCHANGED tampered
<1>4. Lost \/ Noted \/ Theirs
  BY DEF Edit
<1>5. /\ base' \in [Repositories -> Configs]
      /\ tampered' \in [Repositories -> {"no", "edited", "lost"}]
      /\ \A s \in Repositories \ {r} : base'[s] = base[s] /\ tampered'[s] = tampered[s]
  <2>1. config'[r] \in Configs
    BY <1>3
  <2> QED BY <2>1, <1>4 DEF MainInv, ProfileTypes
<1>6. ProfileTypes'
  BY <1>2, <1>3, <1>5 DEF MainInv, ProfileTypes
<1>7. ASSUME NEW s \in Repositories PROVE Fits(bindings[s])'
  BY <1>2 DEF MainInv, Fits, Desired
<1>8. OpFits'
  BY <1>2 DEF MainInv, OpFits, Fits, Desired
<1>9. RepoOK(r)'
  <2>1. CASE Lost
    BY <2>1 DEF MainInv, ProfileTypes, RepoOK, Known
  <2>2. CASE Noted
    <3>1. /\ tampered'[r] # "no"
          /\ tampered'[r] = "lost" <=> tampered[r] = "lost"
      BY <2>2 DEF MainInv, ProfileTypes
    <3>2. Known(r)' => Settled(r, config[r])
      BY <3>1, <2>2, <1>2 DEF MainInv, RepoOK, Known, RepoFree
    <3>3. Known(r)' => Settled(r, config[r])'
      BY <3>1, <3>2, <2>2, <1>2 DEF Settled, IsBound
    <3> QED BY <3>3, <2>2, <1>2 DEF RepoOK, RepoFree
  <2>3. CASE Theirs
    <3>1. base'[r] = config'[r]
      BY <2>3 DEF MainInv, ProfileTypes
    <3> QED BY <3>1, <2>3, <1>2 DEF RepoOK, RepoFree, Settled, IsBound
  <2> QED BY <1>4, <2>1, <2>2, <2>3
<1>10. ASSUME NEW s \in Repositories, s # r PROVE RepoOK(s)'
  <2>1. CASE op.repo # s
    BY <2>1, <1>2, <1>3, <1>5, <1>10, Untouched DEF MainInv
  <2>2. CASE op.repo = s
    BY <2>2, <1>2, <1>3, <1>5, <1>10 DEF MainInv, RepoOK, Known, OpAccounted, Settled, IsBound
  <2> QED BY <2>1, <2>2
<1> QED BY <1>6, <1>7, <1>8, <1>9, <1>10 DEF MainInv

\* What a crash interrupts is lost.
LEMMA CrashKeeps ==
  ASSUME MainInv, Crash
  PROVE  MainInv'
<1>1. /\ op' = NoOp /\ UNCHANGED <<config, profiles, bindings, repairs, base>>
      /\ tampered' = [r \in Repositories |-> IF op.repo = r THEN "lost" ELSE tampered[r]]
  BY DEF Crash
<1>2. ProfileTypes'
  BY <1>1 DEF MainInv, ProfileTypes
<1>3. ASSUME NEW r \in Repositories PROVE Fits(bindings[r])'
  BY <1>1 DEF MainInv, Fits, Desired
<1>4. OpFits'
  BY <1>1 DEF OpFits, NoOp
<1>5. ASSUME NEW r \in Repositories PROVE RepoOK(r)'
  <2>1. CASE op.repo = r
    BY <2>1, <1>1 DEF RepoOK, Known
  <2>2. CASE op.repo # r
    BY <2>2, <1>1, Untouched, ProfilesAssumption DEF MainInv, NoOp
  <2> QED BY <2>1, <2>2
<1> QED BY <1>2, <1>3, <1>4, <1>5 DEF MainInv

\* delete_profile touches a profile when nobody is bound to it any more.
LEMMA DeletingKeeps ==
  ASSUME MainInv, NEW p \in Profiles, BeginDelete(p) \/ DeleteLast
  PROVE  MainInv'
<1> DEFINE Still == UNCHANGED <<config, profiles, bindings, repairs, op, base, tampered>>
<1>0. Still => MainInv'
  BY DEF MainInv, ProfileTypes, Fits, Desired, OpFits, RepoOK, Known, OpAccounted, Settled, IsBound
<1>1. CASE BeginDelete(p)
  <2>1. op = NoOp /\ UNCHANGED <<config, profiles, repairs, op, base, tampered>>
    BY <1>1 DEF BeginDelete, Free
  <2>2. UNCHANGED bindings \/ \E r \in Repositories : Drifted(r) /\ MarkDrifted(r)
    BY <1>1 DEF BeginDelete, BoundTo
  <2>3. ASSUME NEW r \in Repositories, Drifted(r),
               bindings' = [bindings EXCEPT ![r].drifted = TRUE]
        PROVE  MainInv'
    BY <2>1, <2>3, OpTypes, MarkKeeps DEF MainInv, Drifted, RepoFree
  <2> QED BY <1>0, <2>1, <2>2, <2>3 DEF MarkDrifted
<1>2. CASE DeleteLast
  <2>1. op = NoOp /\ UNCHANGED <<config, bindings, repairs, op, base, tampered>>
    BY <1>2 DEF DeleteLast
  <2>2. CASE UNCHANGED profiles
    BY <1>0, <2>1, <2>2
  <2>3. CASE /\ BoundTo(deleting.profile) = {}
             /\ profiles' = [profiles EXCEPT ![deleting.profile] = None]
    BY <2>1, <2>3, RedefineKeeps
  <2> QED BY <1>2, <2>2, <2>3 DEF DeleteLast
<1> QED BY <1>1, <1>2

\* Every step keeps the first part.
LEMMA MainStep ==
  ASSUME MainInv, [Next]_vars
  PROVE  MainInv'
<1> DEFINE Still == UNCHANGED <<config, profiles, bindings, repairs, op, base, tampered>>
<1>0. Still => MainInv'
  BY DEF MainInv, ProfileTypes, Fits, Desired, OpFits, RepoOK, Known, OpAccounted, Settled, IsBound
<1>1. CASE \E p \in Profiles, content \in Contents : Create(p, content) \/ Update(p, content)
  <2>1. PICK p \in Profiles, content \in Contents : Create(p, content) \/ Update(p, content)
    BY <1>1
  <2>2. /\ op = NoOp /\ profiles' = [profiles EXCEPT ![p] = content]
        /\ UNCHANGED <<config, bindings, repairs, op, base, tampered>>
    BY <2>1 DEF Create, Update, Free, lockVars
  <2>3. BoundTo(p) = {}
    <3>1. CASE Update(p, content)
      BY <3>1 DEF Update
    <3>2. CASE Create(p, content)
      <4>1. \A r \in Repositories : bindings[r].profile # p
        BY <3>2, BindingTypes, ProfilesAssumption DEF MainInv, Fits, IsBound, Create
      <4> QED BY <4>1 DEF BoundTo
    <3> QED BY <2>1, <3>1, <3>2
  <2> QED BY <2>2, <2>3, RedefineKeeps
<1>2. CASE \E p \in Profiles, r \in Repositories : Bind(r, p)
  BY <1>2, BindKeeps DEF Bind, Free
<1>3. CASE \E p \in Profiles : BeginDelete(p)
  BY <1>3, DeletingKeeps
<1>4. ASSUME NEW r \in Repositories, RefuseDrift(r), op = NoOp, UNCHANGED <<profiles, repairs>>
      PROVE  MainInv'
  BY <1>0, <1>4, OpTypes, MarkKeeps DEF MainInv, RefuseDrift, MarkDrifted, Drifted, RepoFree
<1>5. CASE \E r \in Repositories : Unbind(r)
  <2>1. PICK r \in Repositories : Unbind(r)
    BY <1>5
  <2>2. op = NoOp /\ UNCHANGED <<profiles, repairs>>
    BY <2>1 DEF Unbind, Free
  <2> QED BY <2>1, <2>2, <1>4, UnbindKeeps, ReapplyKeeps, KeepExternalKeeps DEF Unbind
<1>6. CASE \E r \in Repositories : NoticeDrift(r)
  BY <1>6, MarkKeeps DEF NoticeDrift, Drifted, lockVars
<1>7. CASE \E r \in Repositories : DeleteNext(r)
  <2>1. PICK r \in Repositories : DeleteNext(r)
    BY <1>7
  <2>2. op = NoOp /\ UNCHANGED <<profiles, repairs>>
    BY <2>1 DEF DeleteNext
  <2>3. \/ \E p \in Profiles : StartBind(r, p, TRUE)
        \/ StartUnbind(r) \/ KeepExternal(r) \/ RefuseDrift(r)
        \/ UNCHANGED <<config, bindings, op, base, tampered>>
    BY <2>1 DEF DeleteNext
  <2> QED BY <2>2, <2>3, <1>0, <1>4, BindKeeps, UnbindKeeps, KeepExternalKeeps
<1>8. CASE \E r \in Repositories : Edit(r)
  BY <1>8, EditKeeps
<1>9. CASE ReadConfig \/ WriteKey \/ VerifyKey
  BY <1>9, WritingKeeps
<1>10. CASE SaveRow
  BY <1>10, SaveKeeps
<1>11. CASE RecordRepair
  BY <1>11, RepairKeeps
<1>12. CASE DeleteLast
  <2>1. CASE \E p : p \in Profiles
    BY <2>1, <1>12, DeletingKeeps
  <2>2. CASE ~ \E p : p \in Profiles
    <3>1. profiles' = profiles
      BY <1>12, <2>2 DEF MainInv, ProfileTypes, DeleteLast
    <3> QED BY <3>1, <1>0, <1>12 DEF DeleteLast
  <2> QED BY <2>1, <2>2
<1>13. CASE Crash
  BY <1>13, CrashKeeps
<1>14. CASE UNCHANGED vars
  BY <1>14, <1>0 DEF vars, lockVars
<1> QED BY <1>1, <1>2, <1>3, <1>5, <1>6, <1>7, <1>8, <1>9, <1>10, <1>11, <1>12, <1>13, <1>14
        DEF Next
-----------------------------------------------------------------------------
\* A deletion that has its plan begins with all that is bound to the profile.
LEMMA DeletionTypes ==
  ASSUME DeletionInv, deleting # NoDeletion
  PROVE  /\ deleting.profile \in Profiles
         /\ deleting.plan \in UNION {[S -> Resolutions] : S \in SUBSET Repositories}
         /\ DOMAIN deleting.plan \subseteq Repositories
         /\ deleting = [profile |-> deleting.profile, plan |-> deleting.plan]
BY DEF DeletionInv, Deletions

\* A deletion that ends leaves nothing to say.
LEMMA DeletionEnds ==
  ASSUME deleting' = NoDeletion
  PROVE  DeletionInv'
BY DEF DeletionInv

\* The same bindings, by the same operation.
LEMMA DeletionStays ==
  ASSUME DeletionInv, deleting' = deleting,
         \A r \in Repositories : bindings'[r].profile = bindings[r].profile,
         op' = NoOp <=> op = NoOp,
         op # NoOp => op'.repo = op.repo /\ op'.row = op.row
  PROVE  DeletionInv'
<1>1. \A p : BoundTo(p)' = BoundTo(p)
  BY DEF BoundTo
<1> QED BY <1>1 DEF DeletionInv

\* delete_profile plans for all repositories that are bound to the profile.
LEMMA PlanHolds ==
  ASSUME MainInv, NEW p \in Profiles, BeginDelete(p)
  PROVE  DeletionInv'
<1>1. op = NoOp /\ op' = NoOp /\ deleting = NoDeletion
  BY DEF BeginDelete, Free
<1>2. PICK plan \in [BoundTo(p) -> Resolutions \ {p}] :
        \/ deleting' = [profile |-> p, plan |-> plan] /\ UNCHANGED bindings
        \/ UNCHANGED deleting
  BY DEF BeginDelete
<1>3. CASE UNCHANGED deleting
  BY <1>1, <1>3, DeletionEnds
<1>4. CASE deleting' = [profile |-> p, plan |-> plan] /\ UNCHANGED bindings
  <2>1. BoundTo(p) \subseteq Repositories
    BY DEF BoundTo
  <2>2. /\ deleting'.profile = p /\ deleting'.plan = plan
        /\ DOMAIN plan = BoundTo(p)
        /\ plan \in [BoundTo(p) -> Resolutions]
        /\ \A r \in DOMAIN plan : plan[r] # p
    BY <1>4
  <2>3. deleting' \in Deletions
    BY <1>4, <2>1, <2>2 DEF Deletions
  <2>4. BoundTo(p)' = BoundTo(p)
    BY <1>4 DEF BoundTo
  <2>5. (BoundTo(deleting.profile) = DOMAIN deleting.plan)'
    BY <2>2, <1>4 DEF BoundTo
  <2> QED BY <1>1, <2>2, <2>3, <2>5 DEF DeletionInv
<1> QED BY <1>2, <1>3, <1>4

\* One repository of the plan: it is not bound to the profile any more, or an
\* operation is under way by which it will not be.
LEMMA PlanGoesOn ==
  ASSUME MainInv, DeletionInv, NEW r \in Repositories, DeleteNext(r)
  PROVE  DeletionInv'
<1> DEFINE rest == [s \in DOMAIN deleting.plan \ {r} |-> deleting.plan[s]]
<1>1. op = NoOp /\ deleting # NoDeletion /\ r \in DOMAIN deleting.plan
  BY DEF DeleteNext
<1>2. PICK p \in Profiles : p = deleting.profile
  BY <1>1, DeletionTypes
<1>3. /\ BoundTo(p) = DOMAIN deleting.plan
      /\ \A s \in DOMAIN deleting.plan : deleting.plan[s] # p
  BY <1>1, <1>2 DEF DeletionInv
<1>4. CASE deleting' = NoDeletion
  BY <1>4, DeletionEnds
<1>5. CASE deleting' = [deleting EXCEPT !.plan = rest]
  <2>1. rest \in UNION {[S -> Resolutions] : S \in SUBSET Repositories}
    <3>1. DOMAIN deleting.plan \in SUBSET Repositories
          /\ deleting.plan \in [DOMAIN deleting.plan -> Resolutions]
      BY <1>1, DeletionTypes
    <3>2. rest \in [DOMAIN deleting.plan \ {r} -> Resolutions]
      BY <3>1
    <3> QED BY <3>1, <3>2
  <2>2. /\ DOMAIN rest = DOMAIN deleting.plan \ {r}
        /\ \A s \in DOMAIN rest : rest[s] = deleting.plan[s]
    OBVIOUS
  <2> HIDE DEF rest
  <2>3. deleting' = [profile |-> p, plan |-> rest]
    BY <1>1, <1>2, <1>5, DeletionTypes
  <2>4. deleting' \in Deletions /\ deleting'.profile = p /\ deleting'.plan = rest
    BY <2>1, <2>3 DEF Deletions
  <2>5. \A s \in DOMAIN rest : rest[s] # p
    BY <2>2, <1>3
  <2>6. ASSUME bindings' = bindings, op' # NoOp, op'.repo = r, op'.row.profile # p
        PROVE  DeletionInv'
    <3>1. BoundTo(p)' = DOMAIN rest \cup {r}
      BY <2>6, <2>2, <1>1, <1>3 DEF BoundTo
    <3>2. r \notin DOMAIN rest
      BY <2>2
    <3>3. (BoundTo(deleting.profile) = DOMAIN deleting.plan \cup {op.repo})'
      BY <2>4, <2>6, <3>1 DEF BoundTo
    <3> QED BY <2>4, <2>5, <2>6, <3>2, <3>3 DEF DeletionInv
  <2>7. CASE StartUnbind(r)
    <3>1. bindings' = bindings /\ op'.repo = r /\ op'.row = NoBinding
      BY <2>7 DEF StartUnbind, Launch
    <3>2. op' # NoOp /\ op'.row.profile # p
      BY <3>1, ProfilesAssumption DEF NoOp, NoBinding
    <3> QED BY <3>1, <3>2, <2>6
  <2>8. CASE deleting.plan[r] \in Profiles /\ StartBind(r, deleting.plan[r], TRUE)
    <3>1. bindings' = bindings /\ op'.repo = r /\ op'.row.profile = deleting.plan[r]
      BY <2>8 DEF StartBind, Launch, NewBinding
    <3>2. op' # NoOp /\ op'.row.profile # p
      BY <3>1, <1>1, <1>3, ProfilesAssumption DEF NoOp
    <3> QED BY <3>1, <3>2, <2>6
  <2>9. CASE KeepExternal(r) /\ UNCHANGED <<profiles, repairs>>
    <3>1. \A s \in Repositories : bindings'[s] = IF s = r THEN NoBinding ELSE bindings[s]
      BY <1>1, <2>9, KeepExternalKeeps
    <3>2. BoundTo(p)' = DOMAIN rest
      BY <3>1, <2>2, <1>3, ProfilesAssumption DEF BoundTo, NoBinding
    <3>3. op' = NoOp
      BY <1>1, <2>9 DEF KeepExternal
    <3>4. (BoundTo(deleting.profile) = DOMAIN deleting.plan)'
      BY <2>4, <3>2 DEF BoundTo
    <3> QED BY <2>4, <2>5, <3>3, <3>4 DEF DeletionInv
  <2>10. deleting' # NoDeletion
    BY <2>4, ProfilesAssumption DEF NoDeletion
  <2> QED BY <2>7, <2>8, <2>9, <2>10 DEF DeleteNext
<1> QED BY <1>4, <1>5 DEF DeleteNext

\* The row that is saved under a deletion is of another profile, or of none.
LEMMA PlanIsSaved ==
  ASSUME MainInv, DeletionInv, SaveRow
  PROVE  DeletionInv'
<1>1. op # NoOp
  BY DEF SaveRow
<1>2. op.repo \in Repositories
  BY <1>1, OpTypes DEF MainInv
<1>3. CASE Fail /\ UNCHANGED bindings
  <2>1. /\ op' \in Operations /\ op'.repo = op.repo /\ op'.row = op.row
        /\ deleting' = deleting
    BY <1>1, <1>3, FailedOp DEF MainInv
  <2>2. op' # NoOp
    BY <2>1, <1>2, ProfilesAssumption DEF NoOp
  <2> QED BY <1>1, <1>3, <2>1, <2>2, DeletionStays
<1>4. CASE /\ bindings' = [bindings EXCEPT ![op.repo] = op.row]
           /\ op' = NoOp
           /\ UNCHANGED deleting
  <2>1. CASE deleting = NoDeletion
    BY <1>4, <2>1, DeletionEnds
  <2>2. CASE deleting # NoDeletion
    <3>1. PICK p : p = deleting.profile
      OBVIOUS
    <3>2. /\ BoundTo(p) = DOMAIN deleting.plan \cup {op.repo}
          /\ op.repo \notin DOMAIN deleting.plan
          /\ op.row.profile # p
      BY <1>1, <2>2, <3>1 DEF DeletionInv
    <3>3. \A s \in Repositories :
            bindings'[s] = IF s = op.repo THEN op.row ELSE bindings[s]
      BY <1>4 DEF MainInv, ProfileTypes
    <3>4. BoundTo(p)' = DOMAIN deleting.plan
      BY <3>2, <3>3 DEF BoundTo
    <3>5. (BoundTo(deleting.profile) = DOMAIN deleting.plan)'
      BY <1>4, <3>1, <3>4 DEF BoundTo
    <3> QED BY <1>4, <3>5 DEF DeletionInv
  <2> QED BY <2>1, <2>2
<1> QED BY <1>3, <1>4 DEF SaveRow

\* Every step keeps the second part.
LEMMA DeletionStep ==
  ASSUME MainInv, DeletionInv, [Next]_vars
  PROVE  DeletionInv'
<1>1. ASSUME bindings' = bindings, op' = op, deleting' = deleting
      PROVE  DeletionInv'
  BY <1>1, DeletionStays
<1>2. CASE \E p \in Profiles, content \in Contents : Create(p, content) \/ Update(p, content)
  BY <1>2, <1>1 DEF Create, Update, lockVars
<1>3. CASE \/ \E p \in Profiles, r \in Repositories : Bind(r, p)
           \/ \E r \in Repositories : Unbind(r)
  BY <1>3, DeletionEnds DEF Bind, Unbind, Free
<1>4. CASE \E p \in Profiles : BeginDelete(p)
  BY <1>4, PlanHolds
<1>5. CASE \E r \in Repositories : NoticeDrift(r)
  BY <1>5, MarkKeeps, DeletionStays DEF NoticeDrift, Drifted, lockVars
<1>6. CASE \E r \in Repositories : DeleteNext(r)
  BY <1>6, PlanGoesOn
<1>7. CASE \E r \in Repositories : Edit(r)
  BY <1>7, <1>1 DEF Edit, lockVars
<1>8. CASE ReadConfig \/ WriteKey \/ VerifyKey
  <2>1. op # NoOp /\ bindings' = bindings
    BY <1>8 DEF ReadConfig, WriteKey, VerifyKey
  <2>2. op \in Operations /\ op.repo \in Repositories
    BY <2>1, OpTypes DEF MainInv
  <2>3. ASSUME op'.repo = op.repo, op'.row = op.row, deleting' = deleting
        PROVE  DeletionInv'
    <3>1. op' # NoOp
      BY <2>2, <2>3, ProfilesAssumption DEF NoOp
    <3> QED BY <2>1, <2>3, <3>1, DeletionStays
  <2>4. CASE Fail
    BY <2>1, <2>3, <2>4, FailedOp DEF MainInv
  <2>5. ASSUME NEW expected, Continue(expected)
        PROVE  DeletionInv'
    <3>1. CASE Restored
      BY <3>1, DeletionEnds DEF Restored
    <3>2. CASE \E step : /\ op' = [op EXCEPT !.expected = expected, !.step = step]
                         /\ deleting' = deleting
      BY <3>2, <2>2, <2>3 DEF Operations
    <3> QED BY <2>5, <3>1, <3>2 DEF Continue
  <2>6. CASE WriteKey /\ ~Fail
    <3>1. \E k : op' = [op EXCEPT !.expected[k] = op.target[k], !.step = "verify"]
      BY <2>6 DEF WriteKey
    <3>2. op'.repo = op.repo /\ op'.row = op.row
      BY <3>1, <2>2 DEF Operations
    <3> QED BY <3>2, <2>3, <2>6 DEF WriteKey
  <2> QED BY <1>8, <2>4, <2>5, <2>6 DEF ReadConfig, VerifyKey
<1>9. CASE SaveRow
  BY <1>9, PlanIsSaved
<1>10. CASE RecordRepair \/ DeleteLast \/ Crash
  BY <1>10, DeletionEnds DEF RecordRepair, DeleteLast, Crash
<1>11. CASE UNCHANGED vars
  BY <1>11, <1>1 DEF vars, lockVars
<1> QED BY <1>2, <1>3, <1>4, <1>5, <1>6, <1>7, <1>8, <1>9, <1>10, <1>11 DEF Next

-----------------------------------------------------------------------------
\* Nothing is bound and nothing is under way at first.
LEMMA ProfilesInit ==
  ASSUME Init
  PROVE  ProfilesInv
<1>1. ProfileTypes
  <2>1. Empty \in Configs /\ [k \in Keys |-> Outside] \in Configs
    BY DEF Empty, Configs
  <2>2. config \in [Repositories -> Configs]
    BY <2>1 DEF Init
  <2> QED BY <2>2 DEF Init, ProfileTypes
<1>2. op.repo = None
  BY DEF Init, NoOp
<1>3. \A r \in Repositories : bindings[r] = NoBinding /\ config[r] = base[r]
  BY DEF Init
<1>4. \A r \in Repositories : RepoOK(r)
  BY <1>2, <1>3, ProfilesAssumption DEF RepoOK, Settled, IsBound
<1>5. (\A r \in Repositories : Fits(bindings[r])) /\ OpFits
  BY <1>3 DEF Init, Fits, OpFits
<1>6. DeletionInv
  BY DEF Init, DeletionInv
<1> QED BY <1>1, <1>4, <1>5, <1>6 DEF ProfilesInv, MainInv

\* The inductive invariant of the bindings: rows and operations fit profiles,
\* repositories are accounted for, and a deletion holds to its plan.
THEOREM ProfilesInvariant == Spec => []ProfilesInv
<1>1. Init => ProfilesInv
  BY ProfilesInit
<1>2. ProfilesInv /\ [Next]_vars => ProfilesInv'
  BY MainStep, DeletionStep DEF ProfilesInv
<1> QED BY <1>1, <1>2, PTL DEF Spec

\* A binding is to a profile that exists and has applied what the profile
\* says: the lock keeps every change of a profile, and its deletion, away from
\* a bind that is still writing it (profile_service.rs).
THEOREM BindingsAlwaysFit == Spec => []BindingsFitProfiles
<1>1. ProfilesInv => BindingsFitProfiles
  BY DEF ProfilesInv, MainInv, Fits, BindingsFitProfiles, IsBound
<1> QED BY <1>1, ProfilesInvariant, PTL

\* Between operations the configuration of a repository is what its profile
\* says or what the user had, through switches, failures on any key and of the
\* database and all that is written back after them, unless it is under repair
\* or was lost (write_with_compensation, compensate_or_partial).
THEOREM ConfigIsAlwaysAccounted == Spec => []ConfigIsAccounted
<1>1. ProfilesInv => ConfigIsAccounted
  BY DEF ProfilesInv, MainInv, RepoOK, Known, Settled, ConfigIsAccounted, RepoFree
<1> QED BY <1>1, ProfilesInvariant, PTL

\* When delete_profile has gone through its plan no binding to the profile is
\* left: the count before the row goes can only fail, not refuse.
DeletionsLeaveNoBinding ==
  deleting # NoDeletion /\ op = NoOp /\ DOMAIN deleting.plan = {} =>
    BoundTo(deleting.profile) = {}

\* The rebinds and unbinds of delete_profile have all taken effect by the time
\* it counts the bindings (profile_service.rs).
THEOREM DeletionsAlwaysLeaveNoBinding == Spec => []DeletionsLeaveNoBinding
<1>1. ProfilesInv => DeletionsLeaveNoBinding
  BY DEF ProfilesInv, DeletionInv, DeletionsLeaveNoBinding
<1> QED BY <1>1, ProfilesInvariant, PTL

-----------------------------------------------------------------------------
\* The inductive invariant of a run.  Before git is started there is nothing;
\* once the wait is over git is gone, and whoever was with it in its group has
\* been killed with it, unless git ended by itself.
Runners == [at : {"ready", "waiting", "collecting", "finishing", "returned"},
            ended : {"not yet", "exited", "canceled", "timed out", "late"}]

Helpers == [state : {"none", "alive", "gone"}, holds : SUBSET Pipes, grouped : BOOLEAN]

Inputs == [left : Nat, writing : BOOLEAN]

RunTypeOK ==
  /\ runner \in Runners
  /\ result \in {"none", "Canceled", "Git", "Timeout", "OutputLimit", "Ok"}
  /\ git \in {"none", "alive", "exited", "reaped", "killed"}
  /\ helper \in Helpers
  /\ pipe \in [Pipes -> Nat] /\ written \in [Outputs -> Nat] /\ kept \in [Outputs -> Nat]
  /\ limited \subseteq Outputs /\ reading \subseteq Outputs
  /\ input \in Inputs

Gone == git \in {"none", "reaped", "killed"}

Deserted == ~(helper.state = "alive" /\ helper.grouped)

PhaseInv ==
  /\ runner.at = "ready" =>
       /\ git = "none" /\ helper.state = "none" /\ result = "none" /\ runner.ended = "not yet"
       /\ \A s \in Outputs : pipe[s] = 0 /\ written[s] = 0 /\ kept[s] = 0
  /\ git = "none" => runner.at \in {"ready", "returned"} /\ helper.state = "none"
  /\ runner.at = "waiting" => result = "none" /\ runner.ended = "not yet"
  /\ runner.at \in {"collecting", "finishing", "returned"} => Gone
  /\ runner.at \in {"collecting", "finishing"} =>
       /\ result = "none"
       /\ runner.ended # "not yet"
       /\ runner.ended \in {"canceled", "timed out"} => Deserted
       /\ runner.ended = "exited" => git = "reaped" \/ limited # {}
  /\ runner.at = "finishing" /\ runner.ended # "late" => reading = {}
  /\ runner.at = "returned" => result # "none" /\ (result \in {"Canceled", "Timeout"} => Deserted)

\* What was written is in the pipe, or its reader has kept it, as long as the
\* limit allows; a reader that has ended has seen the last of it.
Stream(s) ==
  /\ s \notin limited => written[s] = kept[s] + pipe[s]
  /\ git # "none" /\ s \notin reading => pipe[s] = 0 /\ ~Held(s)

StreamInv == \A s \in Outputs : Stream(s)

OkInv == result = "Ok" => git = "reaped" /\ reading = {} /\ limited = {}

RunInv == RunTypeOK /\ PhaseInv /\ StreamInv /\ OkInv

\* Before the run nothing is spawned and nothing written.
LEMMA RunInitInv == ProcessInit => RunInv
<1> SUFFICES ASSUME ProcessInit PROVE RunInv
  OBVIOUS
<1>1. /\ runner = Idle /\ result = "none" /\ git = "none" /\ helper = NoHelper
      /\ \A s \in Outputs : pipe[s] = 0 /\ written[s] = 0 /\ kept[s] = 0
      /\ limited = {} /\ reading = {} /\ input = NoInput
  BY DEF ProcessInit, Pipes
<1>2. RunTypeOK
  <2>1. runner \in Runners /\ helper \in Helpers /\ input \in Inputs
    BY <1>1 DEF Runners, Helpers, Inputs, Idle, NoHelper, NoInput
  <2>2. pipe \in [Pipes -> Nat] /\ written \in [Outputs -> Nat] /\ kept \in [Outputs -> Nat]
    BY DEF ProcessInit
  <2> QED BY <1>1, <2>1, <2>2 DEF RunTypeOK
<1>3. PhaseInv
  BY <1>1 DEF PhaseInv, Idle, NoHelper
<1>4. StreamInv
  BY <1>1 DEF StreamInv, Stream
<1>5. OkInv
  BY <1>1 DEF OkInv
<1> QED BY <1>2, <1>3, <1>4, <1>5 DEF RunInv

\* A step of the clock or of the user, or none.
LEMMA FrameKeeps ==
  ASSUME RunInv, UNCHANGED <<runVars, procVars, kept, limited, reading, input>>
  PROVE  RunInv'
BY DEF RunInv, RunTypeOK, PhaseInv, Gone, Deserted, StreamInv, Stream, Held, OkInv, runVars, procVars

\* The run is refused,
LEMMA RefuseKeeps ==
  ASSUME RunInv, Refuse
  PROVE  RunInv'
<1>1. RunTypeOK'
  <2>1. runner' \in Runners
    BY DEF RunInv, RunTypeOK, Runners, Refuse
  <2>2. result' \in {"none", "Canceled", "Git", "Timeout", "OutputLimit", "Ok"}
    BY DEF RunInv, RunTypeOK, Runners, PhaseInv, Refuse
  <2> QED BY <2>1, <2>2 DEF RunInv, RunTypeOK, Refuse, runVars, procVars, readVars, flags
<1>2. PhaseInv'
  BY DEF RunInv, RunTypeOK, Runners, Helpers, PhaseInv, Gone, Deserted, Refuse, runVars, procVars, readVars, flags, Pipes
<1>3. StreamInv'
  <2> SUFFICES ASSUME NEW t \in Outputs PROVE Stream(t)'
    BY DEF StreamInv
  <2>1. Stream(t) /\ t \in Pipes
    BY DEF RunInv, StreamInv, Pipes
  <2> QED BY <2>1 DEF RunInv, RunTypeOK, Runners, Helpers, Stream, PhaseInv, Held, Refuse, runVars, procVars, readVars, flags, Outputs
<1>4. OkInv'
  BY DEF RunInv, RunTypeOK, Runners, OkInv, PhaseInv, Refuse, runVars, procVars, readVars, flags
<1> QED BY <1>1, <1>2, <1>3, <1>4 DEF RunInv

\* git is spawned,
LEMMA SpawnKeeps ==
  ASSUME RunInv, Spawn
  PROVE  RunInv'
<1>1. RunTypeOK'
  <2>1. runner' \in Runners
    BY DEF RunInv, RunTypeOK, Runners, Spawn
  <2>2. git' \in {"none", "alive", "exited", "reaped", "killed"}
    BY DEF RunInv, RunTypeOK, Spawn
  <2>3. reading' \subseteq Outputs
    BY DEF RunInv, RunTypeOK, Spawn
  <2>4. input' \in Inputs
    <3>1. NoInput \in Inputs /\ [left |-> InputSize, writing |-> TRUE] \in Inputs
      BY GitProcessAssumption DEF Inputs, NoInput
    <3> QED BY <3>1 DEF Spawn
  <2> QED BY <2>1, <2>2, <2>3, <2>4 DEF RunInv, RunTypeOK, Spawn, runVars, procVars, readVars, flags
<1>2. PhaseInv'
  <2>1. /\ runner'.at = "waiting" /\ runner'.ended = runner.ended /\ git' = "alive"
        /\ result' = result
    BY DEF RunInv, RunTypeOK, Runners, Spawn, runVars, procVars, readVars, flags
  <2>2. result = "none" /\ runner.ended = "not yet"
    BY DEF RunInv, PhaseInv, Spawn
  <2> QED BY <2>1, <2>2 DEF PhaseInv
<1>3. StreamInv'
  <2> SUFFICES ASSUME NEW t \in Outputs PROVE Stream(t)'
    BY DEF StreamInv
  <2>1. Stream(t) /\ t \in Pipes
    BY DEF RunInv, StreamInv, Pipes
  <2> QED BY <2>1 DEF RunInv, RunTypeOK, Runners, Helpers, Stream, PhaseInv, Held, Spawn, runVars, procVars, readVars, flags, Outputs
<1>4. OkInv'
  BY DEF RunInv, RunTypeOK, Runners, OkInv, PhaseInv, Spawn, runVars, procVars, readVars, flags
<1> QED BY <1>1, <1>2, <1>3, <1>4 DEF RunInv

\* it is looked at: it goes on, has ended or is killed,
LEMMA PollKeeps ==
  ASSUME RunInv, Poll
  PROVE  RunInv'
<1>1. RunTypeOK'
  <2>1. runner' \in Runners
    <3>1. \A why \in {"exited", "canceled", "timed out"} :
            [at |-> "collecting", ended |-> why] \in Runners
      BY DEF Runners
    <3> QED BY <3>1 DEF Poll, Kill, KillTree
  <2>2. git' \in {"none", "alive", "exited", "reaped", "killed"}
    BY DEF RunInv, RunTypeOK, Poll, Kill, KillTree
  <2>3. helper' \in Helpers
    BY DEF RunInv, RunTypeOK, Helpers, Poll, Kill, KillTree
  <2> QED BY <2>1, <2>2, <2>3 DEF RunInv, RunTypeOK, Poll, runVars, procVars, readVars, flags
<1>2. PhaseInv'
  <2>1. runner.at = "waiting" /\ result = "none" /\ git # "none"
    BY DEF RunInv, PhaseInv, Poll
  <2>2. result' = "none" /\ limited' = limited
    BY <2>1 DEF Poll, runVars, procVars, readVars, flags
  <2>3. ASSUME NEW why, Kill(why)
        PROVE  /\ runner' = [at |-> "collecting", ended |-> why]
               /\ git' \in {"reaped", "killed"} /\ Deserted'
    BY <2>1, <2>3 DEF RunInv, RunTypeOK, PhaseInv, Helpers, Kill, KillTree, Deserted
  <2>4. CASE git' = "reaped" /\ runner' = [at |-> "collecting", ended |-> "exited"]
    BY <2>2, <2>4 DEF PhaseInv, Gone
  <2>5. CASE limited # {} /\ Kill("exited")
    <3>1. runner' = [at |-> "collecting", ended |-> "exited"] /\ git' \in {"reaped", "killed"} /\ Deserted'
      BY <2>3, <2>5
    <3> QED BY <2>2, <2>5, <3>1 DEF PhaseInv, Gone
  <2>6. ASSUME NEW why \in {"canceled", "timed out"}, git # "exited", Kill(why)
        PROVE  PhaseInv'
    <3>1. runner' = [at |-> "collecting", ended |-> why] /\ git' \in {"reaped", "killed"} /\ Deserted'
      BY <2>3, <2>6
    <3> QED BY <2>2, <2>6, <3>1 DEF PhaseInv, Gone
  <2> QED BY <2>4, <2>5, <2>6 DEF Poll
<1>3. StreamInv'
  <2> SUFFICES ASSUME NEW t \in Outputs PROVE Stream(t)'
    BY DEF StreamInv
  <2>1. Stream(t) /\ t \in Pipes
    BY DEF RunInv, StreamInv, Pipes
  <2> QED BY <2>1 DEF RunInv, RunTypeOK, Runners, Helpers, Stream, PhaseInv, Held, Poll, Kill, KillTree, runVars, procVars, readVars, flags, Outputs
<1>4. OkInv'
  BY DEF RunInv, RunTypeOK, Runners, OkInv, PhaseInv, Poll, Kill, KillTree, runVars, procVars, readVars, flags
<1> QED BY <1>1, <1>2, <1>3, <1>4 DEF RunInv

\* what it wrote is collected,
LEMMA CollectKeeps ==
  ASSUME RunInv, Collect
  PROVE  RunInv'
<1>1. RunTypeOK'
  <2>1. runner' \in Runners
    BY DEF RunInv, RunTypeOK, Runners, Collect
  <2> QED BY <2>1 DEF RunInv, RunTypeOK, Collect, runVars, procVars, readVars, flags
<1>2. PhaseInv'
  BY DEF RunInv, RunTypeOK, Runners, Helpers, PhaseInv, Gone, Deserted, Collect, runVars, procVars, readVars, flags, Pipes
<1>3. StreamInv'
  <2> SUFFICES ASSUME NEW t \in Outputs PROVE Stream(t)'
    BY DEF StreamInv
  <2>1. Stream(t) /\ t \in Pipes
    BY DEF RunInv, StreamInv, Pipes
  <2> QED BY <2>1 DEF RunInv, RunTypeOK, Runners, Helpers, Stream, PhaseInv, Held, Collect, runVars, procVars, readVars, flags, Outputs
<1>4. OkInv'
  BY DEF RunInv, RunTypeOK, Runners, OkInv, PhaseInv, Collect, runVars, procVars, readVars, flags
<1> QED BY <1>1, <1>2, <1>3, <1>4 DEF RunInv

\* and the run returns.
LEMMA FinishKeeps ==
  ASSUME RunInv, Finish
  PROVE  RunInv'
<1>1. RunTypeOK'
  <2>1. runner' \in Runners
    BY DEF RunInv, RunTypeOK, Runners, Finish, Verdict, Late, KillTree
  <2>2. result' \in {"none", "Canceled", "Git", "Timeout", "OutputLimit", "Ok"}
    BY DEF RunInv, RunTypeOK, Runners, PhaseInv, Finish, Verdict, Late, KillTree
  <2>3. git' \in {"none", "alive", "exited", "reaped", "killed"}
    BY DEF RunInv, RunTypeOK, Finish, Verdict, Late, KillTree
  <2>4. helper' \in Helpers
    BY DEF RunInv, RunTypeOK, Helpers, Finish, Verdict, Late, KillTree
  <2> QED BY <2>1, <2>2, <2>3, <2>4 DEF RunInv, RunTypeOK, Finish, runVars, procVars, readVars, flags
<1>2. PhaseInv'
  BY DEF RunInv, RunTypeOK, Runners, Helpers, PhaseInv, Gone, Deserted, Finish, Verdict, Late, KillTree, runVars, procVars, readVars, flags, Pipes
<1>3. StreamInv'
  <2> SUFFICES ASSUME NEW t \in Outputs PROVE Stream(t)'
    BY DEF StreamInv
  <2>1. Stream(t) /\ t \in Pipes
    BY DEF RunInv, StreamInv, Pipes
  <2> QED BY <2>1 DEF RunInv, RunTypeOK, Runners, Helpers, Stream, PhaseInv, Held, Finish, Verdict, Late, KillTree, runVars, procVars, readVars, flags, Outputs
<1>4. OkInv'
  BY DEF RunInv, RunTypeOK, Runners, OkInv, PhaseInv, Finish, Verdict, Late, KillTree, runVars, procVars, readVars, flags
<1> QED BY <1>1, <1>2, <1>3, <1>4 DEF RunInv

\* The input is written to git,
LEMMA WriteInputKeeps ==
  ASSUME RunInv, WriteInput
  PROVE  RunInv'
<1>1. RunTypeOK'
  <2>1. pipe' \in [Pipes -> Nat]
    BY DEF RunInv, RunTypeOK, Pipes, Outputs, WriteInput
  <2>2. input' \in Inputs
    <3>1. NoInput \in Inputs /\ input \in Inputs
      BY DEF RunInv, RunTypeOK, Inputs, NoInput
    <3>2. input.left > 0 => [input EXCEPT !.left = @ - 1] \in Inputs
      BY <3>1 DEF Inputs
    <3> QED BY <3>1, <3>2 DEF WriteInput
  <2> QED BY <2>1, <2>2 DEF RunInv, RunTypeOK, WriteInput, runVars, procVars, readVars, flags
<1>2. PhaseInv'
  <2>1. UNCHANGED <<runner, result, git, helper, written, kept, limited, reading>>
    BY DEF WriteInput, runVars, procVars, readVars, flags
  <2>2. runner.at = "ready" => UNCHANGED <<pipe, written, kept>>
    BY DEF RunInv, PhaseInv, Held, WriteInput, runVars, procVars, readVars, flags, Outputs
  <2>3. limited # {} => limited' # {}
    BY DEF WriteInput, runVars, procVars, readVars, flags
  <2> QED BY <2>1, <2>2, <2>3 DEF RunInv, PhaseInv, Gone, Deserted
<1>3. StreamInv'
  <2> SUFFICES ASSUME NEW t \in Outputs PROVE Stream(t)'
    BY DEF StreamInv
  <2>1. Stream(t) /\ t \in Pipes
    BY DEF RunInv, StreamInv, Pipes
  <2> QED BY <2>1 DEF RunInv, RunTypeOK, Runners, Helpers, Stream, PhaseInv, Held, WriteInput, runVars, procVars, readVars, flags, Outputs
<1>4. OkInv'
  BY DEF RunInv, RunTypeOK, Runners, OkInv, PhaseInv, WriteInput, runVars, procVars, readVars, flags
<1> QED BY <1>1, <1>2, <1>3, <1>4 DEF RunInv

\* which reads it.
LEMMA TakeInputKeeps ==
  ASSUME RunInv, TakeInput
  PROVE  RunInv'
<1>1. RunTypeOK'
  <2>1. pipe' \in [Pipes -> Nat]
    BY DEF RunInv, RunTypeOK, Pipes, Outputs, TakeInput
  <2> QED BY <2>1 DEF RunInv, RunTypeOK, TakeInput, runVars, procVars, readVars, flags
<1>2. PhaseInv'
  <2>1. UNCHANGED <<runner, result, git, helper, written, kept, limited, reading>>
    BY DEF TakeInput, runVars, procVars, readVars, flags
  <2>2. runner.at = "ready" => UNCHANGED <<pipe, written, kept>>
    BY DEF RunInv, PhaseInv, Held, TakeInput, runVars, procVars, readVars, flags, Outputs
  <2>3. limited # {} => limited' # {}
    BY DEF TakeInput, runVars, procVars, readVars, flags
  <2> QED BY <2>1, <2>2, <2>3 DEF RunInv, PhaseInv, Gone, Deserted
<1>3. StreamInv'
  <2> SUFFICES ASSUME NEW t \in Outputs PROVE Stream(t)'
    BY DEF StreamInv
  <2>1. Stream(t) /\ t \in Pipes
    BY DEF RunInv, StreamInv, Pipes
  <2> QED BY <2>1 DEF RunInv, RunTypeOK, Runners, Helpers, Stream, PhaseInv, Held, TakeInput, runVars, procVars, readVars, flags, Outputs
<1>4. OkInv'
  BY DEF RunInv, RunTypeOK, Runners, OkInv, PhaseInv, TakeInput, runVars, procVars, readVars, flags
<1> QED BY <1>1, <1>2, <1>3, <1>4 DEF RunInv

\* Git starts a helper, which has its pipes,
LEMMA StartHelperKeeps ==
  ASSUME RunInv, StartHelper
  PROVE  RunInv'
<1>1. RunTypeOK'
  <2>1. helper' \in Helpers
    BY DEF RunInv, RunTypeOK, Helpers, StartHelper
  <2> QED BY <2>1 DEF RunInv, RunTypeOK, StartHelper, runVars, procVars, readVars, flags
<1>2. PhaseInv'
  BY DEF RunInv, RunTypeOK, Runners, Helpers, PhaseInv, Gone, Deserted, StartHelper, runVars, procVars, readVars, flags, Pipes
<1>3. StreamInv'
  <2> SUFFICES ASSUME NEW t \in Outputs PROVE Stream(t)'
    BY DEF StreamInv
  <2>1. Stream(t) /\ t \in Pipes
    BY DEF RunInv, StreamInv, Pipes
  <2> QED BY <2>1 DEF RunInv, RunTypeOK, Runners, Helpers, Stream, PhaseInv, Held, StartHelper, runVars, procVars, readVars, flags, Outputs
<1>4. OkInv'
  BY DEF RunInv, RunTypeOK, Runners, OkInv, PhaseInv, StartHelper, runVars, procVars, readVars, flags
<1> QED BY <1>1, <1>2, <1>3, <1>4 DEF RunInv

\* git exits,
LEMMA GitExitsKeeps ==
  ASSUME RunInv, GitExits
  PROVE  RunInv'
<1>1. RunTypeOK'
  <2>1. git' \in {"none", "alive", "exited", "reaped", "killed"}
    BY DEF RunInv, RunTypeOK, GitExits
  <2> QED BY <2>1 DEF RunInv, RunTypeOK, GitExits, runVars, procVars, readVars, flags
<1>2. PhaseInv'
  BY DEF RunInv, RunTypeOK, Runners, Helpers, PhaseInv, Gone, Deserted, GitExits, runVars, procVars, readVars, flags, Pipes
<1>3. StreamInv'
  <2> SUFFICES ASSUME NEW t \in Outputs PROVE Stream(t)'
    BY DEF StreamInv
  <2>1. Stream(t) /\ t \in Pipes
    BY DEF RunInv, StreamInv, Pipes
  <2> QED BY <2>1 DEF RunInv, RunTypeOK, Runners, Helpers, Stream, PhaseInv, Held, GitExits, runVars, procVars, readVars, flags, Outputs
<1>4. OkInv'
  BY DEF RunInv, RunTypeOK, Runners, OkInv, PhaseInv, GitExits, runVars, procVars, readVars, flags
<1> QED BY <1>1, <1>2, <1>3, <1>4 DEF RunInv

\* or the helper does.
LEMMA HelperExitsKeeps ==
  ASSUME RunInv, HelperExits
  PROVE  RunInv'
<1>1. RunTypeOK'
  <2>1. helper' \in Helpers
    BY DEF RunInv, RunTypeOK, Helpers, HelperExits
  <2> QED BY <2>1 DEF RunInv, RunTypeOK, HelperExits, runVars, procVars, readVars, flags
<1>2. PhaseInv'
  BY DEF RunInv, RunTypeOK, Runners, Helpers, PhaseInv, Gone, Deserted, HelperExits, runVars, procVars, readVars, flags, Pipes
<1>3. StreamInv'
  <2> SUFFICES ASSUME NEW t \in Outputs PROVE Stream(t)'
    BY DEF StreamInv
  <2>1. Stream(t) /\ t \in Pipes
    BY DEF RunInv, StreamInv, Pipes
  <2> QED BY <2>1 DEF RunInv, RunTypeOK, Runners, Helpers, Stream, PhaseInv, Held, HelperExits, runVars, procVars, readVars, flags, Outputs
<1>4. OkInv'
  BY DEF RunInv, RunTypeOK, Runners, OkInv, PhaseInv, HelperExits, runVars, procVars, readVars, flags
<1> QED BY <1>1, <1>2, <1>3, <1>4 DEF RunInv

\* A reader takes what a pipe holds,
LEMMA ReadKeeps ==
  ASSUME RunInv, NEW s \in Outputs, Read(s)
  PROVE  RunInv'
<1>1. RunTypeOK'
  <2>1. pipe' \in [Pipes -> Nat]
    BY DEF RunInv, RunTypeOK, Pipes, Outputs, Read
  <2>2. kept' \in [Outputs -> Nat]
    BY DEF RunInv, RunTypeOK, Read
  <2>3. limited' \subseteq Outputs
    BY DEF RunInv, RunTypeOK, Read
  <2> QED BY <2>1, <2>2, <2>3 DEF RunInv, RunTypeOK, Read, runVars, procVars, readVars, flags
<1>2. PhaseInv'
  <2>1. UNCHANGED <<runner, result, git, helper, written, reading>>
    BY DEF Read, runVars, procVars, readVars, flags
  <2>2. runner.at # "ready"
    <3>1. runner.at = "ready" => pipe[s] = 0
      BY DEF RunInv, PhaseInv
    <3>2. pipe[s] > 0 /\ pipe[s] \in Nat
      BY DEF RunInv, RunTypeOK, Read, Pipes
    <3> QED BY <3>1, <3>2
  <2>3. limited # {} => limited' # {}
    BY DEF Read, runVars, procVars, readVars, flags
  <2> QED BY <2>1, <2>2, <2>3 DEF RunInv, PhaseInv, Gone, Deserted
<1>3. StreamInv'
  <2> SUFFICES ASSUME NEW t \in Outputs PROVE Stream(t)'
    BY DEF StreamInv
  <2>1. Stream(t) /\ t \in Pipes
    BY DEF RunInv, StreamInv, Pipes
  <2>2. UNCHANGED <<git, helper, written, reading>> /\ s \in Pipes
    BY DEF Read, runVars, procVars, readVars, flags, Pipes
  <2>3. Held(t)' = Held(t)
    BY <2>2 DEF Held
  <2>4. CASE t # s
    <3>1. pipe'[t] = pipe[t] /\ kept'[t] = kept[t] /\ (t \in limited' <=> t \in limited)
      BY <2>1, <2>4 DEF RunInv, RunTypeOK, Read
    <3> QED BY <2>1, <2>2, <2>3, <3>1 DEF Stream
  <2>5. CASE t = s
    <3>1. pipe[s] \in Nat /\ kept[s] \in Nat /\ written[s] \in Nat /\ pipe'[s] = pipe[s] - 1
      BY <2>2 DEF RunInv, RunTypeOK, Read
    <3>2. \/ kept'[s] = kept[s] + 1 /\ limited' = limited
          \/ s \in limited'
      BY DEF RunInv, RunTypeOK, Read
    <3>3. s \in reading'
      BY <2>2 DEF Read
    <3> QED BY <2>1, <2>2, <2>3, <2>5, <3>1, <3>2, <3>3 DEF Stream
  <2> QED BY <2>4, <2>5
<1>4. OkInv'
  BY DEF RunInv, RunTypeOK, Runners, OkInv, PhaseInv, Read, runVars, procVars, readVars, flags
<1> QED BY <1>1, <1>2, <1>3, <1>4 DEF RunInv

\* or sees its end,
LEMMA EndOfOutputKeeps ==
  ASSUME RunInv, NEW s \in Outputs, EndOfOutput(s)
  PROVE  RunInv'
<1>1. RunTypeOK'
  <2>1. reading' \subseteq Outputs
    BY DEF RunInv, RunTypeOK, EndOfOutput
  <2> QED BY <2>1 DEF RunInv, RunTypeOK, EndOfOutput, runVars, procVars, readVars, flags
<1>2. PhaseInv'
  BY DEF RunInv, RunTypeOK, Runners, Helpers, PhaseInv, Gone, Deserted, EndOfOutput, runVars, procVars, readVars, flags, Pipes
<1>3. StreamInv'
  <2> SUFFICES ASSUME NEW t \in Outputs PROVE Stream(t)'
    BY DEF StreamInv
  <2>1. Stream(t) /\ t \in Pipes
    BY DEF RunInv, StreamInv, Pipes
  <2> QED BY <2>1 DEF RunInv, RunTypeOK, Runners, Helpers, Stream, PhaseInv, Held, EndOfOutput, runVars, procVars, readVars, flags, Outputs
<1>4. OkInv'
  BY DEF RunInv, RunTypeOK, Runners, OkInv, PhaseInv, EndOfOutput, runVars, procVars, readVars, flags
<1> QED BY <1>1, <1>2, <1>3, <1>4 DEF RunInv

\* and git or the helper writes to it.
LEMMA OutputKeeps ==
  ASSUME RunInv, NEW s \in Outputs, Output(s)
  PROVE  RunInv'
<1>1. RunTypeOK'
  <2>1. pipe' \in [Pipes -> Nat]
    BY DEF RunInv, RunTypeOK, Pipes, Outputs, Output
  <2>2. written' \in [Outputs -> Nat]
    BY DEF RunInv, RunTypeOK, Output
  <2> QED BY <2>1, <2>2 DEF RunInv, RunTypeOK, Output, runVars, procVars, readVars, flags
<1>2. PhaseInv'
  <2>1. UNCHANGED <<runner, result, git, helper, kept, limited, reading>>
    BY DEF Output, runVars, procVars, readVars, flags
  <2>2. runner.at = "ready" => UNCHANGED <<pipe, written, kept>>
    BY DEF RunInv, PhaseInv, Held, Output, runVars, procVars, readVars, flags, Outputs
  <2>3. limited # {} => limited' # {}
    BY DEF Output, runVars, procVars, readVars, flags
  <2> QED BY <2>1, <2>2, <2>3 DEF RunInv, PhaseInv, Gone, Deserted
<1>3. StreamInv'
  <2> SUFFICES ASSUME NEW t \in Outputs PROVE Stream(t)'
    BY DEF StreamInv
  <2>1. Stream(t) /\ t \in Pipes
    BY DEF RunInv, StreamInv, Pipes
  <2>2. UNCHANGED <<git, helper, kept, limited, reading>> /\ s \in Pipes
    BY DEF Output, runVars, procVars, readVars, flags, Pipes
  <2>3. Held(t)' = Held(t)
    BY <2>2 DEF Held
  <2>4. CASE t # s
    <3>1. pipe'[t] = pipe[t] /\ written'[t] = written[t]
      BY <2>1, <2>4 DEF RunInv, RunTypeOK, Output
    <3> QED BY <2>1, <2>2, <2>3, <3>1 DEF Stream
  <2>5. CASE t = s
    <3>1. /\ pipe[s] \in Nat /\ kept[s] \in Nat /\ written[s] \in Nat
          /\ pipe'[s] = pipe[s] + 1 /\ written'[s] = written[s] + 1
      BY <2>2 DEF RunInv, RunTypeOK, Output
    <3>2. Held(s)
      BY DEF Output
    <3> QED BY <2>1, <2>2, <2>3, <2>5, <3>1, <3>2 DEF Stream
  <2> QED BY <2>4, <2>5
<1>4. OkInv'
  BY DEF RunInv, RunTypeOK, Runners, OkInv, PhaseInv, Output, runVars, procVars, readVars, flags
<1> QED BY <1>1, <1>2, <1>3, <1>4 DEF RunInv

\* Every step of a run keeps the invariant.
LEMMA RunNextInv == RunInv /\ [ProcessNext]_processVars => RunInv'
<1> SUFFICES ASSUME RunInv, [ProcessNext]_processVars PROVE RunInv'
  OBVIOUS
<1>1. CASE UNCHANGED processVars
  BY <1>1, FrameKeeps DEF processVars, readVars
<1>2. CASE Refuse \/ Spawn \/ Runner
  BY <1>2, RefuseKeeps, SpawnKeeps, PollKeeps, CollectKeeps, FinishKeeps DEF Runner
<1>3. ASSUME NEW s \in Outputs, Read(s) \/ EndOfOutput(s) PROVE RunInv'
  BY <1>3, ReadKeeps, EndOfOutputKeeps
<1>4. CASE WriteInput
  BY <1>4, WriteInputKeeps
<1>5. CASE Programs
  <2>1. ASSUME NEW s \in Outputs, Output(s) PROVE RunInv'
    BY <2>1, OutputKeeps
  <2> QED BY <1>5, <2>1, TakeInputKeeps, StartHelperKeeps, GitExitsKeeps, HelperExitsKeeps DEF Programs
<1>6. CASE Expire \/ FallSilent \/ Cancel
  BY <1>6, FrameKeeps DEF Expire, FallSilent, Cancel, readVars
<1> QED BY <1>1, <1>2, <1>3, <1>4, <1>5, <1>6 DEF ProcessNext

\* The inductive invariant of a run holds: where the caller is, what is left of
\* git and its group, and what became of every chunk (run_with_context).
THEOREM RunInvariant == ProcessSpec => []RunInv
<1> QED BY RunInitInv, RunNextInv, PTL DEF ProcessSpec

\* When run has returned git is gone, and after a cancellation or a timeout so
\* is its group, however its checks, its clean-up and the ends of git and of the
\* helper come together (wait_bounded, finish_io_before_disarm).
THEOREM RunsAlwaysReturnAlone == ProcessSpec => []ReturnsAlone
<1>1. RunInv => ReturnsAlone
  BY DEF RunInv, RunTypeOK, PhaseInv, Gone, Deserted, ReturnsAlone
<1> QED BY <1>1, RunInvariant, PTL

\* A run that succeeds has the whole output, for pipes, limits and outputs of
\* any size: a reader that has ended has seen the last chunk of the last process
\* that had the pipe (collect_output_bounded, spawn_reader).
THEOREM SuccessIsAlwaysWhole == ProcessSpec => []SuccessIsWhole
<1>1. RunInv => SuccessIsWhole
  <2> SUFFICES ASSUME RunInv, result = "Ok" PROVE git = "reaped" /\ kept = written
    BY DEF SuccessIsWhole
  <2>1. git = "reaped" /\ reading = {} /\ limited = {}
    BY DEF RunInv, OkInv
  <2>2. \A s \in Outputs : kept[s] = written[s]
    <3> SUFFICES ASSUME NEW s \in Outputs PROVE kept[s] = written[s]
      OBVIOUS
    <3>1. kept[s] \in Nat /\ Stream(s)
      BY DEF RunInv, RunTypeOK, StreamInv
    <3> QED BY <2>1, <3>1 DEF Stream
  <2>3. kept \in [Outputs -> Nat] /\ written \in [Outputs -> Nat]
    BY DEF RunInv, RunTypeOK
  <2> QED BY <2>1, <2>2, <2>3
<1> QED BY <1>1, RunInvariant, PTL
-----------------------------------------------------------------------------
(* Discovery.                                                              *)

\* What a call remembers.
Fields == DOMAIN Resting

DrainSteps == {"Idle", "Cancel", "Listen", "Check", "Sleep", "Drained", "Row", "Forget"}

DrainStates ==
  [pc : DrainSteps, plugin : Plugins \cup {Nothing}, account : Accounts \cup {Nothing},
   woken : BOOLEAN, old : SUBSET Calls]

\* What may be said of a local remote.
Remarks ==
  [status : {"None", "Ambiguous", "Suggested", "Unverified"}, repository : Resolved,
   answers : Seq(Resolved)]

DiscoveryTypes ==
  /\ DOMAIN call = Calls
  /\ \A c \in Calls : DOMAIN call[c] = Fields
  /\ drain \in [Drains -> DrainStates]
  /\ permits \subseteq Calls /\ canceled \subseteq Calls

\* A call that is registered.
AtWork(c) == call[c].pc \notin {"Idle", "Start", "Notify"}

\* The registry holds the calls at work, each under its key.
RegistryFits ==
  /\ \A k \in DOMAIN tokens : tokens[k] \in Calls /\ AtWork(tokens[k]) /\ KeyOf(call[tokens[k]]) = k
  /\ \A c \in Calls : AtWork(c) => KeyOf(call[c]) \in DOMAIN tokens /\ tokens[KeyOf(call[c])] = c
  /\ \A c \in permits : AtWork(c)

\* Whom a drain cancelled is at work in its scope, or about to wake it.
DrainFits(d) ==
  /\ drain[d].pc \in {"Listen", "Check", "Sleep"} =>
       \A c \in drain[d].old : call[c].pc = "Notify" \/ (AtWork(c) /\ InScope(d, KeyOf(call[c])))
  /\ drain[d].pc \in {"Drained", "Row", "Forget"} => \A c \in drain[d].old : call[c].pc = "Notify"
  /\ drain[d].pc = "Sleep" /\ ~drain[d].woken => Busy(d) \/ \E c \in Calls : call[c].pc = "Notify"

\* What is said of the i-th local remote follows from the answers.
Earned(s, i) ==
  /\ Len(s.answers) = Len(Locals[i])
  /\ s.status = "Suggested" <=>
       /\ Len(s.answers) > 0
       /\ \A j \in DOMAIN s.answers : s.answers[j] # Nothing /\ s.answers[j] = s.answers[1]
  /\ s.status = "Suggested" => s.repository = s.answers[1]

\* A match: what it has said of the remotes it is done with, and what it has
\* been answered of the one it is at.
MatchFits(r) ==
  /\ r.pc \notin {"Idle", "Notify"} => r.kind \in {"List", "Match"}
  /\ r.pc = "Remote" => r.kind = "Match"
  /\ r.suggestions \in Seq(Remarks) /\ Len(r.suggestions) <= Len(Locals)
  /\ \A i \in DOMAIN r.suggestions : Earned(r.suggestions[i], i)
  /\ r.answers \in Seq(Resolved)
  /\ r.failed <=> \E j \in DOMAIN r.answers : r.answers[j] = Nothing
  /\ IF r.kind = "Match" /\ r.pc \in AtTheService
       THEN RemoteOf(r) \in DOMAIN Locals /\ Len(r.answers) < Len(AddressesOf(r))
       ELSE r.answers = <<>>

DiscoveryInv ==
  /\ DiscoveryTypes /\ RegistryFits
  /\ \A d \in Drains : DrainFits(d)
  /\ \A c \in Calls : MatchFits(call[c])
-----------------------------------------------------------------------------
\* Records of calls.
Working(r) == r.pc \notin {"Idle", "Start", "Notify"}

\* s is a call with the request of r.
Same(s, r) ==
  /\ DOMAIN s = Fields /\ s.kind = r.kind
  /\ s.plugin = r.plugin /\ s.account = r.account /\ s.op = r.op

\* s has said and been answered what r has.
Quiet(s, r) == s.suggestions = r.suggestions /\ s.answers = r.answers /\ s.failed = r.failed

\* A call that goes on with the same request.
Moved(s, r) == Same(s, r) /\ Working(s) /\ MatchFits(s)

\* What a call at rest is made of.
LEMMA FieldFacts ==
  /\ Fields = {"pc", "kind", "plugin", "account", "op", "query", "cursor", "next", "attempt", "read",
               "seen", "buffered", "items", "before", "outcome", "suggestions", "failed", "answers"}
  /\ Resting.pc = "Idle" /\ Resting.suggestions = <<>> /\ Resting.answers = <<>>
  /\ Resting.failed = FALSE /\ Resting.kind = Nothing
BY DEF Fields, Resting

\* An address may resolve to nothing.
LEMMA NothingResolves == Nothing \in Resolved
BY DEF Resolved

\* A call that has said nothing and been answered nothing fits.
LEMMA SilentFits ==
  ASSUME NEW s, Quiet(s, Resting), s.pc \notin AtTheService, s.pc # "Remote",
         s.pc \notin {"Idle", "Notify"} => s.kind \in {"List", "Match"}
  PROVE  MatchFits(s)
<1>1. <<>> \in Seq(Remarks) /\ Len(<<>>) = 0 /\ <<>> \in Seq(Resolved) /\ DOMAIN <<>> = {}
  OBVIOUS
<1>2. Len(Locals) \in Nat
  BY DiscoveryAssumption
<1>3. s.suggestions = <<>> /\ s.answers = <<>> /\ s.failed = FALSE
  BY FieldFacts DEF Quiet
<1> QED BY <1>1, <1>2, <1>3 DEF MatchFits

\* A call at rest fits.
LEMMA RestingFits == MatchFits(Resting)
BY SilentFits, FieldFacts DEF Quiet, AtTheService

\* What a match has said depends on few fields.
LEMMA QuietFits ==
  ASSUME NEW r, NEW s, MatchFits(r), Quiet(s, r), s.kind = r.kind,
         s.pc \in AtTheService <=> r.pc \in AtTheService,
         r.pc \notin {"Idle", "Notify"}, s.pc = "Remote" => r.kind = "Match"
  PROVE  MatchFits(s)
BY DEF MatchFits, Quiet, RemoteOf, AddressesOf

\* Going to another place changes nothing else of a call.
LEMMA ToFacts ==
  ASSUME NEW r, DOMAIN r = Fields, NEW pc
  PROVE  Same(To(r, pc), r) /\ Quiet(To(r, pc), r) /\ To(r, pc).pc = pc
BY FieldFacts DEF To, Same, Quiet

\* A call that goes to another place goes on with its request.
LEMMA ToMoves ==
  ASSUME NEW r, DOMAIN r = Fields, MatchFits(r), NEW pc, pc = "Remote" => r.kind = "Match",
         r.pc \notin AtTheService \cup {"Idle", "Notify"},
         pc \notin AtTheService \cup {"Idle", "Start", "Notify"}
  PROVE  Moved(To(r, pc), r)
<1>1. Same(To(r, pc), r) /\ Quiet(To(r, pc), r) /\ To(r, pc).pc = pc
  BY ToFacts
<1>2. MatchFits(To(r, pc))
  <2> HIDE DEF To
  <2> QED BY <1>1, QuietFits DEF Same
<1> QED BY <1>1, <1>2 DEF Moved, Working

\* So does one that fails,
LEMMA FailedMoves ==
  ASSUME NEW r, NEW error, r.kind \in {"List", "Match"}
  PROVE  Moved(Failed(r, error), r)
<1>1. /\ Same(Failed(r, error), r) /\ Failed(r, error).pc = "Leave"
      /\ Quiet(Failed(r, error), Resting)
  BY FieldFacts DEF Failed, Same, Quiet, Fields
<1>4. MatchFits(Failed(r, error))
  <2>1. \A s : Same(s, r) /\ s.pc = "Leave" /\ Quiet(s, Resting) => MatchFits(s)
    BY SilentFits DEF Same, AtTheService
  <2> QED BY <1>1, <2>1
<1> QED BY <1>1, <1>4 DEF Moved, Working

\* one at the head of the loop of a listing,
LEMMA TurnMoves ==
  ASSUME NEW r, DOMAIN r = Fields, MatchFits(r), r.kind = "List", Working(r), NEW fetch
  PROVE  Moved(Turn(r, fetch), r)
<1>1. r.answers = <<>>
  BY DEF MatchFits
<1>2. Moved(To(r, "Finish"), r)
  <2>1. /\ Same(To(r, "Finish"), r) /\ Quiet(To(r, "Finish"), r) /\ To(r, "Finish").pc = "Finish"
    BY ToFacts
  <2>2. \A s : Same(s, r) /\ Quiet(s, r) /\ s.pc = "Finish" => MatchFits(s)
    BY <1>1 DEF MatchFits, Same, Quiet, AtTheService
  <2> QED BY <2>1, <2>2 DEF Moved, Working
<1>3. Moved(Failed(r, "Partial"), r) /\ Moved(Failed(r, "InvalidResponse"), r)
  BY FailedMoves
<1>4. Moved([To(r, "Send") EXCEPT !.attempt = 1, !.seen = r.seen \cup ({r.next} \ {0})], r)
  <2>1. PICK s : s = To(r, "Send")
    OBVIOUS
  <2>2. PICK t : t = [s EXCEPT !.attempt = 1, !.seen = r.seen \cup ({r.next} \ {0})]
    OBVIOUS
  <2>3. Same(s, r) /\ Quiet(s, r) /\ s.pc = "Send"
    BY <2>1, ToFacts
  <2>4. Same(t, r) /\ Quiet(t, r) /\ t.pc = "Send"
    BY <2>2, <2>3, FieldFacts DEF Same, Quiet
  <2>5. MatchFits(t)
    BY <1>1, <2>4 DEF MatchFits, Same, Quiet
  <2> QED BY <2>1, <2>2, <2>4, <2>5 DEF Moved, Working
<1> QED BY <1>2, <1>3, <1>4 DEF Turn

\* and one that goes on from a call with the same request.
LEMMA SameFits ==
  ASSUME NEW r, NEW s, NEW t, Same(s, r), Moved(t, s)
  PROVE  Moved(t, r)
BY DEF Moved, Same

\* So does a listing with what an earlier request left over,
LEMMA StartListingMoves ==
  ASSUME NEW r, DOMAIN r = Fields, MatchFits(r), r.kind = "List", Working(r)
  PROVE  Moved(StartListing(r), r)
<1>1. PICK n : n = Min({Len(r.buffered), Size[r.query]})
  OBVIOUS
<1>2. PICK s : s = [r EXCEPT !.items = SubSeq(r.buffered, 1, n),
                             !.buffered = SubSeq(r.buffered, n + 1, Len(r.buffered))]
  OBVIOUS
<1>3. StartListing(r) = Turn(s, r.cursor = 0 \/ (Len(s.items) < Size[r.query] /\ s.next # 0))
  BY <1>1, <1>2, Zenon DEF StartListing
<1>4. Same(s, r) /\ Quiet(s, r) /\ s.pc = r.pc
  BY <1>2, FieldFacts DEF Same, Quiet
<1>5. MatchFits(s)
  BY <1>4 DEF MatchFits, Same, Quiet, RemoteOf, AddressesOf
<1>6. DOMAIN s = Fields /\ s.kind = "List" /\ Working(s)
  BY <1>4 DEF Same, Working
<1>7. Moved(StartListing(r), s)
  BY <1>3, <1>5, <1>6, TurnMoves
<1> QED BY <1>4, <1>7, SameFits

\* and one with a page it has read.
LEMMA PageReadMoves ==
  ASSUME NEW r, DOMAIN r = Fields, MatchFits(r), r.kind = "List", Working(r)
  PROVE  Moved(PageRead(r), r)
<1>1. PICK found : found = Matching(upstream.pages[PageOf(r)], r.query)
  OBVIOUS
<1>2. PICK n : n = Min({Len(found), Size[r.query] - Len(r.items)})
  OBVIOUS
<1>3. PICK s : s = [r EXCEPT !.items = @ \o SubSeq(found, 1, n),
                             !.buffered = @ \o SubSeq(found, n + 1, Len(found)),
                             !.next = NextPage(r), !.read = @ + 1]
  OBVIOUS
<1>4. PageRead(r) = Turn(s, s.next # 0)
  BY <1>1, <1>2, <1>3, Zenon DEF PageRead
<1>5. Same(s, r) /\ Quiet(s, r) /\ s.pc = r.pc
  BY <1>3, FieldFacts DEF Same, Quiet
<1>6. MatchFits(s)
  BY <1>5 DEF MatchFits, Same, Quiet, RemoteOf, AddressesOf
<1>7. DOMAIN s = Fields /\ s.kind = "List" /\ Working(s)
  BY <1>5 DEF Same, Working
<1>8. Moved(PageRead(r), s)
  BY <1>4, <1>6, <1>7, TurnMoves
<1> QED BY <1>5, <1>8, SameFits

\* The distinct answers of a remote are finitely many.
LEMMA UniqueIsFinite ==
  ASSUME NEW answers \in Seq(Resolved)
  PROVE  IsFiniteSet(Unique(answers))
<1> DEFINE all == {answers[i] : i \in DOMAIN answers}
<1>1. Len(answers) \in Nat /\ DOMAIN answers = 1..Len(answers) /\ answers \in [1..Len(answers) -> all]
  OBVIOUS
<1>2. IsFiniteSet(1..Len(answers))
  <2>1. 1 \in Int /\ Len(answers) \in Int
    BY <1>1
  <2> QED BY <2>1, FS_Interval
<1>3. answers \in Surjection(1..Len(answers), all)
  BY <1>1, Zenon DEF Surjection
<1>4. IsFiniteSet(all)
  BY <1>2, <1>3, FS_Surjection
<1>5. Unique(answers) \in SUBSET all
  BY DEF Unique
<1> QED BY <1>4, <1>5, FS_Subset

\* All answers are one repository exactly when they leave one and none failed.
LEMMA UniqueIsOne ==
  ASSUME NEW answers \in Seq(Resolved), \A j \in DOMAIN answers : answers[j] # Nothing
  PROVE  /\ Cardinality(Unique(answers)) = 1 <=>
              /\ Len(answers) > 0
              /\ \A j \in DOMAIN answers : answers[j] = answers[1]
         /\ Cardinality(Unique(answers)) = 1 => Unique(answers) = {answers[1]}
<1>1. IsFiniteSet(Unique(answers))
  BY UniqueIsFinite
<1>2. Len(answers) \in Nat /\ DOMAIN answers = 1..Len(answers)
  OBVIOUS
<1>3. Unique(answers) = {answers[i] : i \in DOMAIN answers}
  BY DEF Unique
<1>4. Cardinality(Unique(answers)) = 1 <=> \E x : Unique(answers) = {x}
  BY <1>1, FS_Singleton
<1>5. ASSUME NEW x, Unique(answers) = {x}
      PROVE  Len(answers) > 0 /\ x = answers[1] /\ \A j \in DOMAIN answers : answers[j] = answers[1]
  <2>1. Len(answers) > 0
    BY <1>2, <1>3, <1>5
  <2>2. \A j \in DOMAIN answers : answers[j] = x
    BY <1>3, <1>5
  <2> QED BY <1>2, <2>1, <2>2
<1>6. ASSUME Len(answers) > 0, \A j \in DOMAIN answers : answers[j] = answers[1]
      PROVE  Unique(answers) = {answers[1]}
  BY <1>2, <1>3, <1>6
<1> QED BY <1>4, <1>5, <1>6

\* What is said of a remote whose addresses were all looked up is earned.
LEMMA SuggestionIsEarned ==
  ASSUME NEW r, r.answers \in Seq(Resolved), NEW i, Len(r.answers) = Len(Locals[i]),
         r.failed <=> \E j \in DOMAIN r.answers : r.answers[j] = Nothing
  PROVE  Suggestion(r) \in Remarks /\ Earned(Suggestion(r), i)
<1> DEFINE n == Cardinality(Unique(r.answers))
           answers == r.answers
           status == CASE Len(answers) = 0 -> "None"
                       [] n > 1 -> "Ambiguous"
                       [] n = 1 /\ ~r.failed -> "Suggested"
                       [] OTHER -> "Unverified"
           x == IF status = "Suggested" THEN CHOOSE y \in Unique(answers) : TRUE ELSE Nothing
<1>1. Suggestion(r) = [status |-> status, repository |-> x, answers |-> answers]
  BY Zenon DEF Suggestion
<1>2. answers \in Seq(Resolved) /\ Len(answers) = Len(Locals[i])
  OBVIOUS
<1>3. IsFiniteSet(Unique(answers))
  BY UniqueIsFinite
<1>4. n \in Nat /\ (n = 0 <=> Unique(answers) = {})
  BY <1>3, FS_CardinalityType, FS_EmptySet
<1>5. Len(answers) = 0 => n = 0
  BY <1>4 DEF Unique
<1>6. r.failed <=> \E j \in DOMAIN answers : answers[j] = Nothing
  OBVIOUS
<1>7. /\ status \in {"None", "Ambiguous", "Suggested", "Unverified"}
      /\ status = "Suggested" <=> n = 1 /\ ~r.failed
  <2> HIDE DEF n, answers
  <2> QED BY <1>4, <1>5
<1>8. ~r.failed => /\ n = 1 <=> Len(answers) > 0 /\ \A j \in DOMAIN answers : answers[j] = answers[1]
                   /\ n = 1 => Unique(answers) = {answers[1]}
  BY <1>2, <1>6, UniqueIsOne
<1> HIDE DEF n, answers
<1>9. status = "Suggested" <=> /\ Len(answers) > 0
                               /\ \A j \in DOMAIN answers : answers[j] # Nothing /\ answers[j] = answers[1]
  <2> HIDE DEF status
  <2> QED BY <1>6, <1>7, <1>8
<1>10. status = "Suggested" => Unique(answers) = {answers[1]}
  BY <1>7, <1>8
<1> HIDE DEF status
<1>12. status = "Suggested" => x = answers[1]
  BY <1>10
<1>13. x \in Resolved
  <2>1. Nothing \in Resolved
    BY NothingResolves
  <2>2. Len(answers) > 0 => answers[1] \in Resolved
    BY <1>2
  <2>3. CASE status = "Suggested"
    BY <1>9, <1>12, <2>2, <2>3
  <2>4. CASE status # "Suggested"
    BY <2>1, <2>4
  <2> QED BY <2>3, <2>4
<1> HIDE DEF x
<1> QED BY <1>1, <1>2, <1>7, <1>9, <1>12, <1>13 DEF Remarks, Earned

\* A longer sequence holds what it held and the new element.
LEMMA AppendFacts ==
  ASSUME NEW S, NEW q \in Seq(S), NEW x \in S
  PROVE  /\ Append(q, x) \in Seq(S) /\ Len(Append(q, x)) = Len(q) + 1 /\ Len(q) \in Nat
         /\ \A i \in DOMAIN Append(q, x) :
              \/ i \in DOMAIN q /\ Append(q, x)[i] = q[i]
              \/ i = Len(q) + 1 /\ Append(q, x)[i] = x
         /\ \A i \in DOMAIN q : i \in DOMAIN Append(q, x)
         /\ Len(q) + 1 \in DOMAIN Append(q, x)
<1>1. Append(q, x) \in Seq(S) /\ Len(Append(q, x)) = Len(q) + 1 /\ Len(q) \in Nat
  OBVIOUS
<1>2. DOMAIN q = 1..Len(q) /\ DOMAIN Append(q, x) = 1..Len(q) + 1
  BY <1>1
<1>3. \A i \in 1..Len(q) : Append(q, x)[i] = q[i]
  OBVIOUS
<1>4. Append(q, x)[Len(q) + 1] = x
  OBVIOUS
<1>5. \A i \in 1..Len(q) + 1 : i \in 1..Len(q) \/ i = Len(q) + 1
  BY <1>1
<1> QED BY <1>1, <1>2, <1>3, <1>4, <1>5

\* One remote more has been spoken of.
LEMMA RemoteDone ==
  ASSUME NEW r, MatchFits(r), r.kind = "Match", RemoteOf(r) \in DOMAIN Locals,
         NEW x \in Remarks, Earned(x, RemoteOf(r)),
         NEW s, s.kind = "Match", s.pc = "Remote", s.answers = <<>>, s.failed = FALSE,
         s.suggestions = Append(r.suggestions, x)
  PROVE  MatchFits(s)
<1>1. PICK q \in Seq(Remarks) : q = r.suggestions
  BY DEF MatchFits
<1>2. /\ Append(q, x) \in Seq(Remarks) /\ Len(Append(q, x)) = Len(q) + 1
      /\ \A i \in DOMAIN Append(q, x) :
           \/ i \in DOMAIN q /\ Append(q, x)[i] = q[i]
           \/ i = Len(q) + 1 /\ Append(q, x)[i] = x
  BY AppendFacts
<1>3. RemoteOf(r) = Len(q) + 1 /\ Len(q) + 1 <= Len(Locals)
  BY <1>1, DiscoveryAssumption DEF RemoteOf
<1>4. \A i \in DOMAIN q : Earned(q[i], i)
  BY <1>1 DEF MatchFits
<1>5. \A i \in DOMAIN Append(q, x) : Earned(Append(q, x)[i], i)
  BY <1>2, <1>3, <1>4
<1>6. <<>> \in Seq(Resolved) /\ DOMAIN <<>> = {}
  OBVIOUS
<1> HIDE DEF Earned
<1> QED BY <1>1, <1>2, <1>3, <1>5, <1>6 DEF MatchFits, AtTheService

\* A match that was answered goes on with its request,
LEMMA AnsweredMoves ==
  ASSUME NEW r, DOMAIN r = Fields, MatchFits(r), r.kind = "Match", r.pc \in AtTheService,
         NEW answer \in Resolved
  PROVE  Moved(Answered(r, answer), r)
<1>1. PICK q \in Seq(Resolved) : q = r.answers
  BY DEF MatchFits
<1>2. PICK s : s = [r EXCEPT !.answers = Append(@, answer), !.failed = @ \/ answer = Nothing]
  OBVIOUS
<1>3. PICK b : b = (r.failed \/ answer = Nothing)
  OBVIOUS
<1>4. /\ DOMAIN s = Fields /\ s.kind = "Match" /\ s.answers = Append(q, answer) /\ s.failed = b
      /\ s.suggestions = r.suggestions /\ Same(s, r)
  BY <1>1, <1>2, <1>3, FieldFacts DEF Same
<1>5. /\ Append(q, answer) \in Seq(Resolved) /\ Len(Append(q, answer)) = Len(q) + 1 /\ Len(q) \in Nat
      /\ \A i \in DOMAIN Append(q, answer) :
           \/ i \in DOMAIN q /\ Append(q, answer)[i] = q[i]
           \/ i = Len(q) + 1 /\ Append(q, answer)[i] = answer
      /\ \A i \in DOMAIN q : i \in DOMAIN Append(q, answer)
      /\ Len(q) + 1 \in DOMAIN Append(q, answer)
  BY AppendFacts
<1>6. \A i \in DOMAIN q : Append(q, answer)[i] = q[i]
  OBVIOUS
<1>7. Append(q, answer)[Len(q) + 1] = answer
  OBVIOUS
<1>8. s.failed <=> \E j \in DOMAIN s.answers : s.answers[j] = Nothing
  <2>1. r.failed <=> \E j \in DOMAIN q : q[j] = Nothing
    BY <1>1 DEF MatchFits
  <2> QED BY <1>3, <1>4, <1>5, <1>6, <1>7, <2>1
<1>9. /\ RemoteOf(r) \in DOMAIN Locals /\ Len(q) < Len(AddressesOf(r))
      /\ RemoteOf(s) = RemoteOf(r) /\ AddressesOf(s) = AddressesOf(r)
      /\ Len(AddressesOf(r)) \in Nat
  <2>1. RemoteOf(r) \in DOMAIN Locals /\ Len(q) < Len(AddressesOf(r))
    BY <1>1 DEF MatchFits
  <2>2. RemoteOf(s) = RemoteOf(r) /\ AddressesOf(s) = AddressesOf(r)
    BY <1>4 DEF RemoteOf, AddressesOf
  <2>3. AddressesOf(r) \in Seq(Resolved)
    BY <2>1, DiscoveryAssumption DEF AddressesOf
  <2> QED BY <2>1, <2>2, <2>3
<1>10. CASE Len(s.answers) < Len(AddressesOf(r))
  <2>1. Answered(r, answer) = [To(s, "Send") EXCEPT !.attempt = 1]
    BY <1>2, <1>10 DEF Answered
  <2>2. PICK t : t = To(s, "Send")
    OBVIOUS
  <2>3. Same(t, s) /\ Quiet(t, s) /\ t.pc = "Send"
    BY <1>4, <2>2, ToFacts
  <2>4. PICK u : u = [t EXCEPT !.attempt = 1]
    OBVIOUS
  <2>5. Same(u, s) /\ Quiet(u, s) /\ u.pc = "Send"
    BY <2>3, <2>4, FieldFacts DEF Same, Quiet
  <2>6. MatchFits(u)
    <3>1. /\ u.kind = "Match" /\ u.suggestions = r.suggestions /\ u.answers = s.answers
          /\ u.failed = s.failed
      BY <1>4, <2>5 DEF Same, Quiet
    <3>2. RemoteOf(u) = RemoteOf(r) /\ AddressesOf(u) = AddressesOf(r)
      BY <3>1 DEF RemoteOf, AddressesOf
    <3>3. /\ u.answers \in Seq(Resolved)
          /\ (u.failed <=> \E j \in DOMAIN u.answers : u.answers[j] = Nothing)
      BY <1>4, <1>5, <1>8, <3>1
    <3>4. Len(u.answers) < Len(AddressesOf(u))
      BY <1>10, <3>1, <3>2
    <3> QED BY <1>9, <2>5, <3>1, <3>2, <3>3, <3>4 DEF MatchFits, AtTheService
  <2> QED BY <1>4, <2>1, <2>2, <2>4, <2>5, <2>6 DEF Moved, Working, Same
<1>11. CASE ~(Len(s.answers) < Len(AddressesOf(r)))
  <2>1. Answered(r, answer) =
          [To(s, "Remote") EXCEPT !.suggestions = Append(@, Suggestion(s)), !.answers = <<>>,
                                  !.failed = FALSE]
    BY <1>2, <1>11 DEF Answered
  <2>2. PICK t : t = To(s, "Remote")
    OBVIOUS
  <2>3. Same(t, s) /\ Quiet(t, s) /\ t.pc = "Remote"
    BY <1>4, <2>2, ToFacts
  <2>4. PICK x : x = Suggestion(s)
    OBVIOUS
  <2>5. PICK u : u = [t EXCEPT !.suggestions = Append(@, x), !.answers = <<>>, !.failed = FALSE]
    OBVIOUS
  <2>6. /\ Same(u, s) /\ u.pc = "Remote" /\ u.suggestions = Append(r.suggestions, x)
        /\ u.answers = <<>> /\ u.failed = FALSE
    BY <1>4, <2>3, <2>5, FieldFacts DEF Same, Quiet
  <2>7. Len(s.answers) = Len(Locals[RemoteOf(r)]) /\ s.answers \in Seq(Resolved)
    BY <1>4, <1>5, <1>9, <1>11 DEF AddressesOf
  <2>8. x \in Remarks /\ Earned(x, RemoteOf(r))
    BY <1>8, <2>4, <2>7, SuggestionIsEarned
  <2>9. MatchFits(u)
    BY <1>4, <1>9, <2>6, <2>8, RemoteDone DEF Same
  <2> QED BY <1>4, <2>1, <2>2, <2>4, <2>5, <2>6, <2>9 DEF Moved, Working, Same
<1> QED BY <1>10, <1>11

\* and so does any request that remained without an answer.
LEMMA UnansweredMoves ==
  ASSUME NEW c, NEW error, DOMAIN call[c] = Fields, MatchFits(call[c]), call[c].pc \in AtTheService,
         Unanswered(c, error)
  PROVE  \E s : Becomes(c, s) /\ Moved(s, call[c])
<1>1. PICK r : r = call[c]
  OBVIOUS
<1>2. r.kind \in {"List", "Match"}
  BY <1>1 DEF MatchFits, AtTheService
<1>3. \A e : Moved(Failed(r, e), r)
  BY <1>2, FailedMoves
<1>4. r.kind = "Match" => Moved(Answered(r, Nothing), r)
  BY <1>1, NothingResolves, AnsweredMoves
<1>5. PICK s : s = CASE r.kind = "List" ->
                          Failed(r, IF r.cursor # 0 /\ error # "Canceled" THEN "Partial" ELSE error)
                     [] r.kind = "Match" /\ error = "Canceled" -> Failed(r, error)
                     [] OTHER -> Answered(r, Nothing)
  OBVIOUS
<1>6. Becomes(c, s)
  BY <1>1, <1>5 DEF Unanswered
<1>7. Moved(s, r)
  BY <1>2, <1>3, <1>4, <1>5
<1> QED BY <1>1, <1>6, <1>7
-----------------------------------------------------------------------------
(* The steps of calls.                                                    *)

\* A step of one call leaves the others alone.
LEMMA Others ==
  ASSUME DiscoveryTypes, NEW c \in Calls, NEW s, DOMAIN s = Fields, Becomes(c, s)
  PROVE  /\ call'[c] = s /\ \A x \in Calls \ {c} : call'[x] = call[x]
         /\ DOMAIN call' = Calls /\ \A x \in Calls : DOMAIN call'[x] = Fields
BY DEF DiscoveryTypes, Becomes

\* A call at work goes on with its request.
LEMMA CallMoves ==
  ASSUME DiscoveryInv, NEW c \in Calls, AtWork(c), NEW s, Moved(s, call[c]), Becomes(c, s),
         UNCHANGED <<registry, drain>>, permits' \subseteq permits \cup {c}
  PROVE  DiscoveryInv'
<1>1. DOMAIN s = Fields /\ Working(s) /\ MatchFits(s) /\ Same(s, call[c])
  BY DEF Moved, Same
<1>2. /\ call'[c] = s /\ \A x \in Calls \ {c} : call'[x] = call[x]
      /\ DOMAIN call' = Calls /\ \A x \in Calls : DOMAIN call'[x] = Fields
  BY <1>1, Others DEF DiscoveryInv
<1>3. tokens' = tokens /\ canceled' = canceled /\ drain' = drain
  BY DEF registry
<1>4. DiscoveryTypes'
  BY <1>2, <1>3 DEF DiscoveryInv, DiscoveryTypes
<1>5. \A x \in Calls : AtWork(x)' <=> AtWork(x)
  BY <1>1, <1>2 DEF AtWork, Working
<1>6. \A x \in Calls : AtWork(x) => KeyOf(call[x])' = KeyOf(call[x])
  BY <1>1, <1>2 DEF KeyOf, Same
<1>7. RegistryFits'
  BY <1>2, <1>3, <1>5, <1>6 DEF DiscoveryInv, DiscoveryTypes, RegistryFits
<1>8. \A x \in Calls : call'[x].pc = "Notify" <=> call[x].pc = "Notify"
  BY <1>1, <1>2 DEF AtWork, Working
<1>9. ASSUME NEW d \in Drains PROVE DrainFits(d)'
  <2>1. drain[d].old \subseteq Calls /\ DrainFits(d)
    BY DEF DiscoveryInv, DiscoveryTypes, DrainStates
  <2>2. Busy(d)' <=> Busy(d)
    BY <1>3 DEF Busy, InScope
  <2>3. \A k : InScope(d, k)' <=> InScope(d, k)
    BY <1>3 DEF InScope
  <2> QED BY <1>3, <1>5, <1>6, <1>8, <2>1, <2>2, <2>3 DEF DrainFits
<1>10. \A x \in Calls : MatchFits(call[x])'
  <2>1. \A r : MatchFits(r)' <=> MatchFits(r)
    BY DEF MatchFits, Earned, RemoteOf, AddressesOf
  <2> QED BY <1>1, <1>2, <2>1 DEF DiscoveryInv
<1> QED BY <1>4, <1>7, <1>9, <1>10 DEF DiscoveryInv

\* A call that was not at work, and is not.
LEMMA IdleMoves ==
  ASSUME DiscoveryInv, NEW c \in Calls, call[c].pc \in {"Idle", "Start"}, NEW s, DOMAIN s = Fields,
         s.pc \in {"Idle", "Start"}, MatchFits(s), Becomes(c, s),
         UNCHANGED <<registry, permits, drain>>
  PROVE  DiscoveryInv'
<1>2. /\ call'[c] = s /\ \A x \in Calls \ {c} : call'[x] = call[x]
      /\ DOMAIN call' = Calls /\ \A x \in Calls : DOMAIN call'[x] = Fields
  BY Others DEF DiscoveryInv
<1>3. tokens' = tokens /\ canceled' = canceled /\ drain' = drain /\ permits' = permits
  BY DEF registry
<1>4. DiscoveryTypes'
  BY <1>2, <1>3 DEF DiscoveryInv, DiscoveryTypes
<1>5. \A x \in Calls : AtWork(x)' <=> AtWork(x)
  BY <1>2 DEF AtWork
<1>6. \A x \in Calls : AtWork(x) => KeyOf(call[x])' = KeyOf(call[x])
  BY <1>2 DEF KeyOf, AtWork
<1>7. RegistryFits'
  BY <1>2, <1>3, <1>5, <1>6 DEF DiscoveryInv, DiscoveryTypes, RegistryFits
<1>8. \A x \in Calls : call'[x].pc = "Notify" <=> call[x].pc = "Notify"
  BY <1>2
<1>9. ASSUME NEW d \in Drains PROVE DrainFits(d)'
  <2>1. drain[d].old \subseteq Calls /\ DrainFits(d)
    BY DEF DiscoveryInv, DiscoveryTypes, DrainStates
  <2>2. Busy(d)' <=> Busy(d)
    BY <1>3 DEF Busy, InScope
  <2>3. \A k : InScope(d, k)' <=> InScope(d, k)
    BY <1>3 DEF InScope
  <2> QED BY <1>3, <1>5, <1>6, <1>8, <2>1, <2>2, <2>3 DEF DrainFits
<1>10. \A x \in Calls : MatchFits(call[x])'
  <2>1. \A r : MatchFits(r)' <=> MatchFits(r)
    BY DEF MatchFits, Earned, RemoteOf, AddressesOf
  <2> QED BY <1>2, <2>1 DEF DiscoveryInv
<1> QED BY <1>4, <1>7, <1>9, <1>10 DEF DiscoveryInv

\* Starting: refused, the call is idle again; else it is registered.
LEMMA StartFits ==
  ASSUME DiscoveryInv, NEW c \in Calls, Start(c)
  PROVE  DiscoveryInv'
<1>1. call[c].pc = "Start" /\ UNCHANGED <<permits, drain>>
  BY DEF Start
<1>2. CASE KeyOf(call[c]) \in DOMAIN tokens \/ Full(call[c].account)
  <2>1. Becomes(c, Resting) /\ UNCHANGED registry
    BY <1>2 DEF Start
  <2>2. DOMAIN Resting = Fields
    BY DEF Fields
  <2> QED BY <1>1, <2>1, <2>2, IdleMoves, RestingFits, FieldFacts
<1>3. CASE KeyOf(call[c]) \notin DOMAIN tokens /\ ~Full(call[c].account)
  <2>1. PICK key : key = KeyOf(call[c])
    OBVIOUS
  <2>2. PICK s : s = To(call[c], "Lookup")
    OBVIOUS
  <2>3. /\ Becomes(c, s) /\ canceled' = canceled /\ key \notin DOMAIN tokens
        /\ tokens' = [k \in DOMAIN tokens \cup {key} |-> IF k = key THEN c ELSE tokens[k]]
    BY <1>3, <2>1, <2>2 DEF Start
  <2>4. Same(s, call[c]) /\ Quiet(s, call[c]) /\ s.pc = "Lookup"
    BY <2>2, ToFacts DEF DiscoveryInv, DiscoveryTypes
  <2>5. MatchFits(s)
    BY <1>1, <2>4, QuietFits DEF DiscoveryInv, Same, AtTheService
  <2>6. /\ call'[c] = s /\ \A x \in Calls \ {c} : call'[x] = call[x]
        /\ DOMAIN call' = Calls /\ \A x \in Calls : DOMAIN call'[x] = Fields
    BY <2>3, <2>4, Others DEF DiscoveryInv, Same
  <2>7. DiscoveryTypes'
    BY <1>1, <2>3, <2>6 DEF DiscoveryInv, DiscoveryTypes
  <2>8. /\ AtWork(c)' /\ ~AtWork(c) /\ KeyOf(call[c])' = key
        /\ \A x \in Calls \ {c} : (AtWork(x)' <=> AtWork(x)) /\ KeyOf(call[x])' = KeyOf(call[x])
    BY <1>1, <2>1, <2>4, <2>6 DEF AtWork, KeyOf, Same
  <2>9. /\ DOMAIN tokens' = DOMAIN tokens \cup {key} /\ tokens'[key] = c
        /\ \A k \in DOMAIN tokens : tokens'[k] = tokens[k]
    BY <2>3
  <2>10. RegistryFits'
    <3>1. \A k \in DOMAIN tokens : tokens[k] \in Calls \ {c} /\ AtWork(tokens[k])
                                   /\ KeyOf(call[tokens[k]]) = k
      BY <2>8 DEF DiscoveryInv, RegistryFits
    <3>2. \A k \in DOMAIN tokens' :
            /\ tokens'[k] \in Calls /\ call'[tokens'[k]].pc \notin {"Idle", "Start", "Notify"}
            /\ KeyOf(call'[tokens'[k]]) = k
      <4>1. \A x \in Calls \ {c} : KeyOf(call'[x]) = KeyOf(call[x])
        BY <2>6
      <4>2. KeyOf(call'[c]) = key
        BY <2>8
      <4>3. \A x \in Calls \ {c} : AtWork(x) => call'[x].pc \notin {"Idle", "Start", "Notify"}
        BY <2>6 DEF AtWork
      <4>4. call'[c].pc \notin {"Idle", "Start", "Notify"}
        BY <2>8 DEF AtWork
      <4>5. \A k \in DOMAIN tokens : tokens'[k] = tokens[k] /\ tokens[k] \in Calls \ {c}
        BY <2>9, <3>1
      <4>6. ASSUME NEW k \in DOMAIN tokens
            PROVE  /\ tokens'[k] \in Calls /\ call'[tokens'[k]].pc \notin {"Idle", "Start", "Notify"}
                   /\ KeyOf(call'[tokens'[k]]) = k
        BY <3>1, <4>1, <4>3, <4>5
      <4>7. /\ tokens'[key] \in Calls /\ call'[tokens'[key]].pc \notin {"Idle", "Start", "Notify"}
            /\ KeyOf(call'[tokens'[key]]) = key
        BY <2>9, <4>2, <4>4
      <4> QED BY <2>9, <4>6, <4>7
    <3>3. \A x \in Calls :
            AtWork(x)' => KeyOf(call'[x]) \in DOMAIN tokens' /\ tokens'[KeyOf(call'[x])] = x
      BY <2>8, <2>9 DEF DiscoveryInv, RegistryFits
    <3>4. \A x \in permits : AtWork(x)'
      BY <2>8 DEF DiscoveryInv, DiscoveryTypes, RegistryFits
    <3>5. \A x \in permits' : AtWork(x)'
      BY <1>1, <3>4
    <3> QED BY <3>2, <3>3, <3>5 DEF RegistryFits, AtWork, KeyOf
  <2>11. ASSUME NEW d \in Drains PROVE DrainFits(d)'
    <3>1. drain[d].old \subseteq Calls /\ DrainFits(d) /\ drain' = drain
      BY <1>1 DEF DiscoveryInv, DiscoveryTypes, DrainStates
    <3>2. Busy(d) => Busy(d)'
      BY <2>9, <3>1 DEF Busy, InScope
    <3>3. \A k : InScope(d, k)' <=> InScope(d, k)
      BY <3>1 DEF InScope
    <3>4. \A x \in Calls : call[x].pc = "Notify" => call'[x].pc = "Notify"
      BY <1>1, <2>6
    <3>5. \A x \in Calls : AtWork(x) => AtWork(x)' /\ KeyOf(call'[x]) = KeyOf(call[x])
      BY <2>8
    <3> QED BY <3>1, <3>2, <3>3, <3>4, <3>5 DEF DrainFits
  <2>12. \A x \in Calls : MatchFits(call[x])'
    <3>1. \A r : MatchFits(r)' <=> MatchFits(r)
      BY DEF MatchFits, Earned, RemoteOf, AddressesOf
    <3> QED BY <2>5, <2>6, <3>1 DEF DiscoveryInv
  <2> QED BY <2>7, <2>10, <2>11, <2>12 DEF DiscoveryInv
<1> QED BY <1>2, <1>3

\* A request that a window makes.
LEMMA AskFits ==
  ASSUME DiscoveryInv, NEW c \in Calls, Ask(c)
  PROVE  DiscoveryInv'
<1>1. call[c].pc = "Idle" /\ UNCHANGED <<registry, permits, drain>>
  BY DEF Ask
<1>2. PICK k \in granted, o \in OperationIds :
        LET r == [Resting EXCEPT !.pc = "Start", !.plugin = k[1], !.account = k[2], !.op = o]
        IN  \/ \E q \in Queries, n \in 0..issued :
                 Becomes(c, [r EXCEPT !.kind = "List", !.query = q, !.cursor = n])
            \/ Len(Locals) > 0 /\ Becomes(c, [r EXCEPT !.kind = "Match"])
  BY DEF Ask
<1>3. PICK r : r = [Resting EXCEPT !.pc = "Start", !.plugin = k[1], !.account = k[2], !.op = o]
  OBVIOUS
<1>4. DOMAIN r = Fields /\ r.pc = "Start" /\ Quiet(r, Resting)
  BY <1>3 DEF Quiet, Fields, Resting
<1>5. PICK s : /\ \/ \E q \in Queries, n \in 0..issued :
                       s = [r EXCEPT !.kind = "List", !.query = q, !.cursor = n]
                  \/ s = [r EXCEPT !.kind = "Match"]
               /\ Becomes(c, s)
  BY <1>2, <1>3
<1>6. DOMAIN s = Fields /\ s.pc = "Start" /\ s.kind \in {"List", "Match"} /\ Quiet(s, Resting)
  BY <1>4, <1>5, FieldFacts DEF Quiet
<1>7. MatchFits(s)
  BY <1>6, SilentFits DEF AtTheService
<1> QED BY <1>1, <1>5, <1>6, <1>7, IdleMoves

\* A call that is about to wake those who wait.
LEMMA NotifyingFits ==
  /\ DOMAIN To(Resting, "Notify") = Fields /\ To(Resting, "Notify").pc = "Notify"
  /\ MatchFits(To(Resting, "Notify"))
<1>1. DOMAIN Resting = Fields
  BY DEF Fields
<1>2. PICK s : s = To(Resting, "Notify")
  OBVIOUS
<1>3. Same(s, Resting) /\ Quiet(s, Resting) /\ s.pc = "Notify"
  BY <1>1, <1>2, ToFacts
<1>4. MatchFits(s)
  BY <1>3, SilentFits DEF AtTheService
<1> QED BY <1>2, <1>3, <1>4 DEF Same

\* Leaving: the key and the permit go, and who waits will be woken.
LEMMA LeaveFits ==
  ASSUME DiscoveryInv, NEW c \in Calls, Leave(c)
  PROVE  DiscoveryInv'
<1>1. /\ call[c].pc = "Leave" /\ permits' = permits \ {c} /\ canceled' = canceled \ {c}
      /\ UNCHANGED drain
  BY DEF Leave
<1>2. PICK s : s = To(Resting, "Notify")
  OBVIOUS
<1>3. Becomes(c, s) /\ DOMAIN s = Fields /\ s.pc = "Notify" /\ MatchFits(s)
  BY <1>2, NotifyingFits DEF Leave
<1>4. /\ call'[c] = s /\ \A x \in Calls \ {c} : call'[x] = call[x]
      /\ DOMAIN call' = Calls /\ \A x \in Calls : DOMAIN call'[x] = Fields
  BY <1>3, Others DEF DiscoveryInv
<1>5. PICK key : key = KeyOf(call[c])
  OBVIOUS
<1>6. /\ \A k : k \in DOMAIN tokens' <=> k \in DOMAIN tokens /\ k # key
      /\ \A k \in DOMAIN tokens : k # key => tokens'[k] = tokens[k]
  BY <1>5 DEF Leave, RestrictDomain, Restrict
<1>7. DiscoveryTypes'
  BY <1>1, <1>4 DEF DiscoveryInv, DiscoveryTypes
<1>8. AtWork(c) /\ key \in DOMAIN tokens /\ tokens[key] = c
  BY <1>1, <1>5 DEF AtWork, DiscoveryInv, RegistryFits
<1>9. ~AtWork(c)' /\ \A x \in Calls \ {c} : AtWork(x)' <=> AtWork(x)
  BY <1>3, <1>4 DEF AtWork
<1>10. RegistryFits'
  <2>1. ASSUME NEW k \in DOMAIN tokens'
        PROVE  tokens'[k] = tokens[k] /\ tokens[k] \in Calls \ {c} /\ k \in DOMAIN tokens
    BY <1>5, <1>6, <2>1 DEF DiscoveryInv, RegistryFits
  <2>2. \A k \in DOMAIN tokens' :
          /\ tokens'[k] \in Calls /\ call'[tokens'[k]].pc \notin {"Idle", "Start", "Notify"}
          /\ KeyOf(call'[tokens'[k]]) = k
    BY <1>4, <2>1 DEF DiscoveryInv, RegistryFits, AtWork
  <2>3. ASSUME NEW x \in Calls, AtWork(x)'
        PROVE  KeyOf(call'[x]) \in DOMAIN tokens' /\ tokens'[KeyOf(call'[x])] = x
    <3>1. x # c /\ AtWork(x) /\ call'[x] = call[x]
      BY <1>4, <1>9, <2>3
    <3>2. KeyOf(call[x]) \in DOMAIN tokens /\ tokens[KeyOf(call[x])] = x
      BY <3>1 DEF DiscoveryInv, RegistryFits
    <3>3. KeyOf(call[x]) # key
      BY <1>8, <3>1, <3>2
    <3> QED BY <1>6, <3>1, <3>2, <3>3
  <2>4. \A x \in permits' : AtWork(x)'
    BY <1>1, <1>9 DEF DiscoveryInv, DiscoveryTypes, RegistryFits
  <2> QED BY <2>2, <2>3, <2>4 DEF RegistryFits, AtWork, KeyOf
<1>11. ASSUME NEW d \in Drains PROVE DrainFits(d)'
  <2>1. drain[d].old \subseteq Calls /\ DrainFits(d) /\ drain' = drain
    BY <1>1 DEF DiscoveryInv, DiscoveryTypes, DrainStates
  <2>2. \A k : InScope(d, k)' <=> InScope(d, k)
    BY <2>1 DEF InScope
  <2>3. \A x \in Calls : call[x].pc = "Notify" => call'[x].pc = "Notify"
    BY <1>3, <1>4
  <2>4. \A x \in Calls \ {c} : AtWork(x) => AtWork(x)' /\ KeyOf(call'[x]) = KeyOf(call[x])
    BY <1>4, <1>9
  <2>5. call'[c].pc = "Notify"
    BY <1>3, <1>4
  <2> QED BY <2>1, <2>2, <2>3, <2>4, <2>5 DEF DrainFits
<1>12. \A x \in Calls : MatchFits(call[x])'
  <2>1. \A r : MatchFits(r)' <=> MatchFits(r)
    BY DEF MatchFits, Earned, RemoteOf, AddressesOf
  <2> QED BY <1>3, <1>4, <2>1 DEF DiscoveryInv
<1> QED BY <1>7, <1>10, <1>11, <1>12 DEF DiscoveryInv

\* Waking those who wait.
LEMMA NotifyFits ==
  ASSUME DiscoveryInv, NEW c \in Calls, Notify(c)
  PROVE  DiscoveryInv'
<1>1. /\ call[c].pc = "Notify" /\ Becomes(c, Resting) /\ UNCHANGED <<tokens, canceled, permits>>
      /\ drain' = [d \in Drains |-> [drain[d] EXCEPT !.woken = @ \/ Waiting(d), !.old = @ \ {c}]]
  BY DEF Notify, registry
<1>2. DOMAIN Resting = Fields /\ Resting.pc = "Idle" /\ MatchFits(Resting)
  BY RestingFits, FieldFacts DEF Fields
<1>3. /\ call'[c] = Resting /\ \A x \in Calls \ {c} : call'[x] = call[x]
      /\ DOMAIN call' = Calls /\ \A x \in Calls : DOMAIN call'[x] = Fields
  BY <1>1, <1>2, Others DEF DiscoveryInv
<1>4. ASSUME NEW d \in Drains
      PROVE  /\ drain'[d] \in DrainStates /\ drain'[d].pc = drain[d].pc
             /\ drain'[d].plugin = drain[d].plugin /\ drain'[d].account = drain[d].account
             /\ drain'[d].old = drain[d].old \ {c} /\ drain[d].old \subseteq Calls
             /\ drain[d].pc = "Sleep" => drain'[d].woken
  <2>1. PICK r \in DrainStates : r = drain[d]
    BY DEF DiscoveryInv, DiscoveryTypes
  <2>2. drain'[d] = [r EXCEPT !.woken = @ \/ Waiting(d), !.old = @ \ {c}]
    BY <1>1, <2>1
  <2>3. r.pc = "Sleep" => Waiting(d)
    BY <2>1 DEF Waiting
  <2>4. Waiting(d) \in BOOLEAN
    BY DEF Waiting
  <2> HIDE DEF Waiting
  <2>5. (r.woken \/ Waiting(d)) \in BOOLEAN
    BY <2>1, <2>4
  <2> QED BY <2>1, <2>2, <2>3, <2>5 DEF DrainStates
<1>5. DiscoveryTypes'
  <2>1. drain' \in [Drains -> DrainStates]
    BY <1>1, <1>4
  <2> QED BY <1>1, <1>3, <2>1 DEF DiscoveryInv, DiscoveryTypes
<1>6. /\ \A x \in Calls : AtWork(x)' <=> AtWork(x)
      /\ \A x \in Calls : AtWork(x) => KeyOf(call'[x]) = KeyOf(call[x])
  BY <1>1, <1>2, <1>3 DEF AtWork
<1>7. RegistryFits'
  BY <1>1, <1>3, <1>6 DEF DiscoveryInv, DiscoveryTypes, RegistryFits
<1>8. ASSUME NEW d \in Drains PROVE DrainFits(d)'
  <2>1. DrainFits(d)
    BY DEF DiscoveryInv
  <2>2. \A k : InScope(d, k)' <=> InScope(d, k)
    BY <1>4 DEF InScope
  <2>3. \A x \in Calls \ {c} : call[x].pc = "Notify" => call'[x].pc = "Notify"
    BY <1>3
  <2> QED BY <1>4, <1>6, <2>1, <2>2, <2>3 DEF DrainFits
<1>9. \A x \in Calls : MatchFits(call[x])'
  <2>1. \A r : MatchFits(r)' <=> MatchFits(r)
    BY DEF MatchFits, Earned, RemoteOf, AddressesOf
  <2> QED BY <1>2, <1>3, <2>1 DEF DiscoveryInv
<1> QED BY <1>5, <1>7, <1>8, <1>9 DEF DiscoveryInv

\* The steps of a call at work: it goes on with its request.
LEMMA WorkFits ==
  ASSUME DiscoveryInv, NEW c \in Calls,
         \/ Lookup(c) \/ Acquire(c) \/ ReadSecret(c) \/ NextRemote(c) \/ Interrupted(c) \/ Broken(c)
         \/ Retry(c) \/ Refused(c) \/ PageRejected(c) \/ ReceivePage(c) \/ ReceiveRepository(c)
         \/ FinishListing(c)
  PROVE  DiscoveryInv'
<1>1. PICK r : r = call[c]
  OBVIOUS
<1>2. DOMAIN r = Fields /\ MatchFits(r)
  BY <1>1 DEF DiscoveryInv, DiscoveryTypes
<1>3. Working(r) => r.kind \in {"List", "Match"}
  BY <1>2 DEF Working, MatchFits
<1>4. Working(r) => \A e : Moved(Failed(r, e), r)
  BY <1>3, FailedMoves
<1> DEFINE Goal == \E s : Moved(s, r) /\ Becomes(c, s)
<1>5. ASSUME UNCHANGED <<registry, drain>>, permits' \subseteq permits \cup {c}, Working(r), Goal
      PROVE  DiscoveryInv'
  <2>1. AtWork(c)
    BY <1>1, <1>5 DEF AtWork, Working
  <2> QED BY <1>1, <1>5, <2>1, CallMoves
<1>6. CASE Lookup(c)
  <2>1. r.pc = "Lookup" /\ UNCHANGED <<registry, drain, permits>> /\ Working(r)
    BY <1>1, <1>6 DEF Lookup, Working
  <2>2. Moved(To(r, "Permit"), r)
    BY <1>2, <2>1, ToMoves DEF AtTheService
  <2>3. CASE Becomes(c, Failed(r, "NotFound")) \/ Becomes(c, Failed(r, "InvalidCursor"))
    BY <1>4, <1>5, <2>1, <2>3
  <2>4. CASE Becomes(c, To(r, "Permit"))
    BY <1>5, <2>1, <2>2, <2>4
  <2>5. CASE \E e : Becomes(c, [To(r, "Permit") EXCEPT !.next = e.next, !.buffered = e.buffered,
                                                       !.before = e.before])
    <3>1. PICK e : Becomes(c, [To(r, "Permit") EXCEPT !.next = e.next, !.buffered = e.buffered,
                                                      !.before = e.before])
      BY <2>5
    <3>2. PICK t : t = To(r, "Permit")
      OBVIOUS
    <3>3. PICK s : s = [t EXCEPT !.next = e.next, !.buffered = e.buffered, !.before = e.before]
      OBVIOUS
    <3>4. Same(t, r) /\ Quiet(t, r) /\ t.pc = "Permit"
      BY <1>2, <3>2, ToFacts
    <3>5. Same(s, r) /\ Quiet(s, r) /\ s.pc = "Permit"
      BY <3>3, <3>4, FieldFacts DEF Same, Quiet
    <3>6. MatchFits(s)
      BY <1>2, <2>1, <3>5, QuietFits DEF Same, AtTheService
    <3>7. Moved(s, r)
      BY <3>5, <3>6 DEF Moved, Working
    <3> QED BY <1>5, <2>1, <3>1, <3>2, <3>3, <3>7
  <2> QED BY <1>1, <1>6, <2>3, <2>4, <2>5 DEF Lookup
<1>7. CASE Acquire(c)
  <2>1. /\ r.pc = "Permit" /\ UNCHANGED <<registry, drain>> /\ Working(r)
        /\ permits' \subseteq permits \cup {c}
    BY <1>1, <1>7 DEF Acquire, Working
  <2>2. Moved(To(r, "Secret"), r)
    BY <1>2, <2>1, ToMoves DEF AtTheService
  <2>3. Becomes(c, Failed(r, "Canceled")) \/ Becomes(c, To(r, "Secret"))
    BY <1>1, <1>7 DEF Acquire
  <2> QED BY <1>4, <1>5, <2>1, <2>2, <2>3
<1>8. CASE ReadSecret(c)
  <2>1. r.pc = "Secret" /\ UNCHANGED <<registry, drain, permits>> /\ Working(r)
    BY <1>1, <1>8 DEF ReadSecret, Working
  <2>2. r.kind = "List" => Moved(StartListing(r), r)
    BY <1>2, <2>1, StartListingMoves
  <2>3. r.kind = "Match" => Moved(To(r, "Remote"), r)
    BY <1>2, <2>1, ToMoves DEF AtTheService
  <2>4. \/ Becomes(c, Failed(r, "SecretStore"))
        \/ r.kind = "List" /\ Becomes(c, StartListing(r))
        \/ r.kind # "List" /\ Becomes(c, To(r, "Remote"))
    BY <1>1, <1>8 DEF ReadSecret
  <2> QED BY <1>3, <1>4, <1>5, <2>1, <2>2, <2>3, <2>4
<1>9. CASE NextRemote(c)
  <2>1. /\ r.pc = "Remote" /\ UNCHANGED <<registry, drain, permits>> /\ Working(r)
        /\ r.kind = "Match" /\ r.answers = <<>> /\ ~r.failed
    <3>1. r.pc = "Remote" /\ UNCHANGED <<registry, drain, permits>> /\ Working(r)
      BY <1>1, <1>9 DEF NextRemote, Working
    <3> QED BY <1>2, <3>1 DEF MatchFits, AtTheService
  <2>2. Len(r.suggestions) \in Nat /\ Len(Locals) \in Nat /\ RemoteOf(r) = Len(r.suggestions) + 1
    BY <1>2, DiscoveryAssumption DEF MatchFits, RemoteOf
  <2>3. CASE Becomes(c, [To(r, "Leave") EXCEPT !.outcome = "Done"])
    <3>2. PICK t : t = To(r, "Leave")
      OBVIOUS
    <3>3. PICK s : s = [t EXCEPT !.outcome = "Done"]
      OBVIOUS
    <3>4. Same(t, r) /\ Quiet(t, r) /\ t.pc = "Leave"
      BY <1>2, <3>2, ToFacts
    <3>5. Same(s, r) /\ Quiet(s, r) /\ s.pc = "Leave"
      BY <3>3, <3>4, FieldFacts DEF Same, Quiet
    <3>6. MatchFits(s)
      BY <1>2, <2>1, <3>5, QuietFits DEF Same, AtTheService
    <3>7. Moved(s, r)
      BY <3>5, <3>6 DEF Moved, Working
    <3> QED BY <1>5, <2>1, <2>3, <3>2, <3>3, <3>7
  <2>4. CASE Becomes(c, Failed(r, "Canceled"))
    BY <1>4, <1>5, <2>1, <2>4
  <2>5. CASE /\ RemoteOf(r) <= Len(Locals) /\ Len(AddressesOf(r)) = 0
             /\ Becomes(c, [r EXCEPT !.suggestions = Append(@, Suggestion(r))])
    <3>1. PICK x : x = Suggestion(r)
      OBVIOUS
    <3>2. PICK s : s = [r EXCEPT !.suggestions = Append(@, x)]
      OBVIOUS
    <3>3. /\ Same(s, r) /\ s.pc = "Remote" /\ s.suggestions = Append(r.suggestions, x)
          /\ s.answers = <<>> /\ s.failed = r.failed
      BY <1>2, <2>1, <3>2, FieldFacts DEF Same
    <3>4. RemoteOf(r) \in DOMAIN Locals
      BY <2>2, <2>5, DiscoveryAssumption
    <3>5. x \in Remarks /\ Earned(x, RemoteOf(r))
      <4>1. /\ r.answers \in Seq(Resolved)
            /\ (r.failed <=> \E j \in DOMAIN r.answers : r.answers[j] = Nothing)
        BY <1>2 DEF MatchFits
      <4>2. Len(r.answers) = Len(Locals[RemoteOf(r)])
        BY <2>1, <2>5 DEF AddressesOf
      <4> QED BY <3>1, <4>1, <4>2, SuggestionIsEarned
    <3>6. s.failed = FALSE
      <4>1. s.failed \in BOOLEAN => s.failed = FALSE
        BY <2>1, <3>3
      <4> QED BY <2>1, <3>3
    <3>7. MatchFits(s)
      BY <1>2, <2>1, <3>3, <3>4, <3>5, <3>6, RemoteDone DEF Same
    <3>8. Moved(s, r)
      BY <3>3, <3>7 DEF Moved, Working
    <3> QED BY <1>5, <2>1, <2>5, <3>1, <3>2, <3>8
  <2>6. CASE /\ RemoteOf(r) <= Len(Locals) /\ Len(AddressesOf(r)) # 0
             /\ Becomes(c, [To(r, "Send") EXCEPT !.attempt = 1])
    <3>2. PICK t : t = To(r, "Send")
      OBVIOUS
    <3>3. PICK s : s = [t EXCEPT !.attempt = 1]
      OBVIOUS
    <3>4. Same(t, r) /\ Quiet(t, r) /\ t.pc = "Send"
      BY <1>2, <3>2, ToFacts
    <3>5. Same(s, r) /\ Quiet(s, r) /\ s.pc = "Send"
      BY <3>3, <3>4, FieldFacts DEF Same, Quiet
    <3>6. RemoteOf(s) = RemoteOf(r) /\ AddressesOf(s) = AddressesOf(r) /\ s.answers = <<>>
      BY <2>1, <3>5 DEF RemoteOf, AddressesOf, Quiet
    <3>7. RemoteOf(r) \in DOMAIN Locals
      BY <2>2, <2>6, DiscoveryAssumption
    <3>8. AddressesOf(r) \in Seq(Resolved)
      BY <3>7, DiscoveryAssumption DEF AddressesOf
    <3>9. 0 < Len(AddressesOf(r))
      BY <2>6, <3>8
    <3>10. RemoteOf(s) \in DOMAIN Locals /\ Len(s.answers) < Len(AddressesOf(s))
      BY <3>6, <3>7, <3>9
    <3>11. MatchFits(s)
      BY <1>2, <2>1, <3>5, <3>10 DEF MatchFits, Same, Quiet, AtTheService
    <3>12. Moved(s, r)
      BY <3>5, <3>11 DEF Moved, Working
    <3> QED BY <1>5, <2>1, <2>6, <3>2, <3>3, <3>12
  <2> QED BY <1>1, <1>9, <2>2, <2>3, <2>4, <2>5, <2>6 DEF NextRemote
<1>10. ASSUME r.pc \in AtTheService PROVE Working(r) /\ \A e : Unanswered(c, e) => Goal
  BY <1>1, <1>2, <1>10, UnansweredMoves DEF Working, AtTheService
<1>11. CASE Interrupted(c)
  <2>1. r.pc \in AtTheService /\ UNCHANGED <<registry, drain, permits>> /\ Working(r)
    BY <1>1, <1>10, <1>11 DEF Interrupted
  <2>2. \/ \E e : Unanswered(c, e)
        \/ Becomes(c, Failed(r, "Canceled"))
    BY <1>1, <1>11 DEF Interrupted
  <2>3. Goal
    BY <1>4, <1>10, <2>1, <2>2
  <2> QED BY <1>5, <2>1, <2>3
<1>12. CASE Broken(c)
  <2>1. r.pc = "Send" /\ UNCHANGED <<registry, drain, permits>> /\ Working(r)
    BY <1>1, <1>12 DEF Broken, Working
  <2>2. CASE Becomes(c, To(r, "Backoff"))
    <3>1. Same(To(r, "Backoff"), r) /\ Quiet(To(r, "Backoff"), r) /\ To(r, "Backoff").pc = "Backoff"
      BY <1>2, ToFacts
    <3>2. \A s : Same(s, r) /\ Quiet(s, r) /\ s.pc = "Backoff" => MatchFits(s)
      BY <1>2, <2>1, QuietFits DEF Same, AtTheService
    <3>3. Moved(To(r, "Backoff"), r)
      BY <3>1, <3>2 DEF Moved, Working
    <3> QED BY <1>5, <2>1, <2>2, <3>3
  <2>3. CASE Unanswered(c, "Unreachable")
    BY <1>5, <1>10, <2>1, <2>3 DEF AtTheService
  <2> QED BY <1>1, <1>12, <2>2, <2>3 DEF Broken
<1>13. CASE Retry(c)
  <2>1. /\ r.pc = "Backoff" /\ UNCHANGED <<registry, drain, permits>> /\ Working(r)
        /\ Becomes(c, [To(r, "Send") EXCEPT !.attempt = @ + 1])
    BY <1>1, <1>13 DEF Retry, Working
  <2>2. PICK t : t = To(r, "Send")
    OBVIOUS
  <2>3. PICK s : s = [t EXCEPT !.attempt = @ + 1]
    OBVIOUS
  <2>4. Same(t, r) /\ Quiet(t, r) /\ t.pc = "Send"
    BY <1>2, <2>2, ToFacts
  <2>5. Same(s, r) /\ Quiet(s, r) /\ s.pc = "Send"
    BY <2>3, <2>4, FieldFacts DEF Same, Quiet
  <2>6. MatchFits(s)
    BY <1>2, <2>1, <2>5, QuietFits DEF Same, AtTheService
  <2>7. Moved(s, r)
    BY <2>5, <2>6 DEF Moved, Working
  <2> QED BY <1>5, <2>1, <2>2, <2>3, <2>7
<1>14. CASE Refused(c)
  <2>1. r.pc = "Send" /\ UNCHANGED <<registry, drain, permits>> /\ \E e : Unanswered(c, e)
    BY <1>1, <1>14 DEF Refused
  <2> QED BY <1>5, <1>10, <2>1 DEF AtTheService
<1>18. CASE PageRejected(c)
  <2>1. /\ UNCHANGED <<registry, drain, permits>> /\ Working(r)
        /\ Becomes(c, Failed(r, "InvalidResponse"))
    BY <1>1, <1>18 DEF PageRejected, Working
  <2> QED BY <1>4, <1>5, <2>1
<1>15. CASE ReceivePage(c)
  <2>1. /\ r.pc = "Send" /\ r.kind = "List" /\ UNCHANGED <<registry, drain, permits>> /\ Working(r)
        /\ Becomes(c, PageRead(r))
    BY <1>1, <1>15 DEF ReceivePage, Working
  <2> QED BY <1>2, <1>5, <2>1, PageReadMoves
<1>16. CASE ReceiveRepository(c)
  <2>1. r.pc = "Send" /\ r.kind = "Match" /\ UNCHANGED <<registry, drain, permits>> /\ Working(r)
    BY <1>1, <1>16 DEF ReceiveRepository, Working
  <2>2. PICK answer : answer = AddressesOf(r)[Len(r.answers) + 1]
    OBVIOUS
  <2>3. answer \in Resolved
    <3>1. PICK q \in Seq(Resolved) : q = r.answers
      BY <1>2 DEF MatchFits
    <3>2. RemoteOf(r) \in DOMAIN Locals /\ Len(q) < Len(AddressesOf(r))
      BY <1>2, <2>1, <3>1 DEF MatchFits, AtTheService
    <3>3. PICK a \in Seq(Resolved) : a = AddressesOf(r)
      BY <3>2, DiscoveryAssumption DEF AddressesOf
    <3>4. Len(q) + 1 \in DOMAIN a
      BY <3>2, <3>3
    <3> QED BY <2>2, <3>1, <3>3, <3>4
  <2>4. Unanswered(c, "Permission") \/ Becomes(c, Answered(r, answer))
    BY <1>1, <1>16, <2>2 DEF ReceiveRepository
  <2>5. Moved(Answered(r, answer), r)
    BY <1>2, <2>1, <2>3, AnsweredMoves DEF AtTheService
  <2> QED BY <1>5, <1>10, <2>1, <2>4, <2>5 DEF AtTheService
<1>17. CASE FinishListing(c)
  <2>1. /\ r.pc = "Finish" /\ UNCHANGED <<registry, drain>> /\ Working(r)
        /\ permits' \subseteq permits \cup {c}
    BY <1>1, <1>17 DEF FinishListing, Working
  <2>2. Becomes(c, Failed(r, "Canceled")) \/ Becomes(c, [To(r, "Leave") EXCEPT !.outcome = "Done"])
    BY <1>1, <1>17 DEF FinishListing
  <2>3. PICK t : t = To(r, "Leave")
    OBVIOUS
  <2>4. PICK s : s = [t EXCEPT !.outcome = "Done"]
    OBVIOUS
  <2>5. Same(t, r) /\ Quiet(t, r) /\ t.pc = "Leave"
    BY <1>2, <2>3, ToFacts
  <2>6. Same(s, r) /\ Quiet(s, r) /\ s.pc = "Leave"
    BY <2>4, <2>5, FieldFacts DEF Same, Quiet
  <2>7. MatchFits(s)
    BY <1>2, <2>1, <2>6, QuietFits DEF Same, AtTheService
  <2>8. Moved(s, r)
    BY <2>6, <2>7 DEF Moved, Working
  <2> QED BY <1>4, <1>5, <2>1, <2>2, <2>3, <2>4, <2>8
<1> QED BY <1>6, <1>7, <1>8, <1>9, <1>11, <1>12, <1>13, <1>14, <1>15, <1>16, <1>17, <1>18
-----------------------------------------------------------------------------
(* The steps of drains, and of those who touch neither.                    *)

\* One drain changes and fits as before.
LEMMA DrainMoves ==
  ASSUME DiscoveryInv, NEW d \in Drains, NEW s \in DrainStates, drain' = [drain EXCEPT ![d] = s],
         UNCHANGED <<call, tokens>>, canceled' \subseteq Calls, permits' \subseteq permits,
         DrainFits(d)'
  PROVE  DiscoveryInv'
<1>1. drain' \in [Drains -> DrainStates] /\ \A e \in Drains \ {d} : drain'[e] = drain[e]
  BY DEF DiscoveryInv, DiscoveryTypes
<1>2. DiscoveryTypes'
  BY <1>1 DEF DiscoveryInv, DiscoveryTypes
<1>3. RegistryFits'
  BY DEF DiscoveryInv, RegistryFits, AtWork, KeyOf
<1>4. \A e \in Drains \ {d} : DrainFits(e)'
  BY <1>1 DEF DiscoveryInv, DrainFits, AtWork, Busy, InScope, KeyOf
<1>5. \A x \in Calls : MatchFits(call[x])'
  BY DEF DiscoveryInv, MatchFits, Earned, RemoteOf, AddressesOf
<1> QED BY <1>2, <1>3, <1>4, <1>5 DEF DiscoveryInv

\* Nothing that matters changes.
LEMMA Stays ==
  ASSUME DiscoveryInv, UNCHANGED <<call, tokens, drain>>,
         canceled' \subseteq Calls, permits' \subseteq permits
  PROVE  DiscoveryInv'
<1>1. DiscoveryTypes'
  BY DEF DiscoveryInv, DiscoveryTypes
<1>2. RegistryFits'
  BY DEF DiscoveryInv, RegistryFits, AtWork, KeyOf
<1>3. \A e \in Drains : DrainFits(e)'
  BY DEF DiscoveryInv, DrainFits, AtWork, Busy, InScope, KeyOf
<1>4. \A x \in Calls : MatchFits(call[x])'
  BY DEF DiscoveryInv, MatchFits, Earned, RemoteOf, AddressesOf
<1> QED BY <1>1, <1>2, <1>3, <1>4 DEF DiscoveryInv

\* A drain that ends.
LEMMA DrainEnds ==
  ASSUME DiscoveryInv, NEW d \in Drains, Ends(d),
         UNCHANGED <<call, tokens>>, canceled' \subseteq Calls, permits' \subseteq permits
  PROVE  DiscoveryInv'
<1>1. PICK s : s = Inactive
  OBVIOUS
<1>2. s \in DrainStates /\ s.pc = "Idle"
  BY <1>1 DEF Inactive, DrainStates, DrainSteps
<1>3. drain' = [drain EXCEPT ![d] = s]
  BY <1>1 DEF Ends
<1>4. drain'[d].pc = "Idle"
  BY <1>2, <1>3 DEF DiscoveryInv, DiscoveryTypes
<1>5. DrainFits(d)'
  BY <1>4 DEF DrainFits
<1> QED BY <1>2, <1>3, <1>5, DrainMoves

\* Going to another place changes nothing else of a drain.
LEMMA GoesFacts ==
  ASSUME DiscoveryTypes, NEW d \in Drains, NEW pc \in DrainSteps, Goes(d, pc)
  PROVE  \E s \in DrainStates :
           /\ drain' = [drain EXCEPT ![d] = s] /\ drain'[d] = s /\ s.pc = pc
           /\ s.woken = drain[d].woken /\ s.old = drain[d].old
           /\ s.plugin = drain[d].plugin /\ s.account = drain[d].account
<1>1. PICK r \in DrainStates : r = drain[d]
  BY DEF DiscoveryTypes
<1>2. PICK s : s = [r EXCEPT !.pc = pc]
  OBVIOUS
<1>3. /\ s \in DrainStates /\ s.pc = pc /\ s.woken = r.woken /\ s.old = r.old
      /\ s.plugin = r.plugin /\ s.account = r.account
  BY <1>2 DEF DrainStates
<1>4. drain' = [drain EXCEPT ![d] = s]
  BY <1>1, <1>2 DEF Goes
<1>5. drain'[d] = s
  BY <1>4 DEF DiscoveryTypes
<1> QED BY <1>1, <1>3, <1>4, <1>5

\* The steps both kinds of drain have.
LEMMA DrainStepFits ==
  ASSUME DiscoveryInv, NEW d \in Drains, DrainStep(d)
  PROVE  DiscoveryInv'
<1>1. PICK r \in DrainStates : r = drain[d]
  BY DEF DiscoveryInv, DiscoveryTypes
<1>2. DrainFits(d) /\ canceled \subseteq Calls
  BY DEF DiscoveryInv, DiscoveryTypes
<1>3. CASE Begin(d)
  <2>1. PICK p \in Plugins \cup {Nothing}, a \in Accounts :
          drain' = [drain EXCEPT ![d] =
                      [Inactive EXCEPT !.pc = "Cancel", !.plugin = p, !.account = a]]
    BY <1>3 DEF Begin
  <2>2. PICK s : s = [Inactive EXCEPT !.pc = "Cancel", !.plugin = p, !.account = a]
    OBVIOUS
  <2>3. s \in DrainStates /\ s.pc = "Cancel"
    BY <2>2 DEF Inactive, DrainStates, DrainSteps
  <2>4. drain'[d].pc = "Cancel"
    BY <2>1, <2>2, <2>3 DEF DiscoveryInv, DiscoveryTypes
  <2>5. DrainFits(d)'
    BY <2>4 DEF DrainFits
  <2>6. UNCHANGED <<call, tokens, canceled, permits>>
    BY <1>3 DEF Begin, registry
  <2> QED BY <1>2, <2>1, <2>2, <2>3, <2>5, <2>6, DrainMoves
<1>4. CASE CancelMatching(d)
  <2>1. PICK old : /\ old = {tokens[k] : k \in {j \in DOMAIN tokens : InScope(d, j)}}
                   /\ canceled' = canceled \cup old
                   /\ drain' = [drain EXCEPT ![d].pc = "Listen", ![d].old = old]
    BY <1>4 DEF CancelMatching
  <2>2. UNCHANGED <<call, tokens, permits>>
    BY <1>4 DEF CancelMatching
  <2>3. \A c \in old : c \in Calls /\ AtWork(c) /\ InScope(d, KeyOf(call[c]))
    BY <2>1 DEF DiscoveryInv, RegistryFits
  <2>4. PICK s : s = [r EXCEPT !.pc = "Listen", !.old = old]
    OBVIOUS
  <2>5. /\ s \in DrainStates /\ s.pc = "Listen" /\ s.old = old
        /\ s.plugin = r.plugin /\ s.account = r.account
    BY <2>3, <2>4 DEF DrainStates, DrainSteps
  <2>6. drain' = [drain EXCEPT ![d] = s] /\ drain'[d] = s
    BY <1>1, <2>1, <2>4 DEF DiscoveryInv, DiscoveryTypes
  <2>7. \A k : InScope(d, k)' <=> InScope(d, k)
    BY <1>1, <2>5, <2>6 DEF InScope
  <2>8. \A c \in old : AtWork(c)' /\ KeyOf(call'[c]) = KeyOf(call[c])
    BY <2>2, <2>3 DEF AtWork, KeyOf
  <2>9. DrainFits(d)'
    BY <2>3, <2>5, <2>6, <2>7, <2>8 DEF DrainFits
  <2>10. canceled' \subseteq Calls /\ permits' \subseteq permits
    BY <1>2, <2>1, <2>2, <2>3
  <2> QED BY <2>2, <2>5, <2>6, <2>9, <2>10, DrainMoves
<1>5. CASE Listen(d)
  <2>1. UNCHANGED <<call, tokens, permits, canceled>> /\ r.pc = "Listen"
    BY <1>1, <1>5 DEF Listen, registry
  <2>2. PICK s : s = [r EXCEPT !.pc = "Check", !.woken = FALSE]
    OBVIOUS
  <2>3. /\ s \in DrainStates /\ s.pc = "Check" /\ s.old = r.old
        /\ s.plugin = r.plugin /\ s.account = r.account
    BY <2>2 DEF DrainStates, DrainSteps
  <2>4. drain' = [drain EXCEPT ![d] = s] /\ drain'[d] = s
    BY <1>1, <1>5, <2>2 DEF Listen, DiscoveryInv, DiscoveryTypes
  <2>5. \A k : InScope(d, k)' <=> InScope(d, k)
    BY <1>1, <2>3, <2>4 DEF InScope
  <2>6. DrainFits(d)'
    BY <1>1, <1>2, <2>1, <2>3, <2>4, <2>5 DEF DrainFits, AtWork, KeyOf
  <2> QED BY <1>2, <2>1, <2>3, <2>4, <2>6, DrainMoves
<1>6. CASE Check(d)
  <2>1. UNCHANGED <<call, tokens, permits, canceled>> /\ r.pc = "Check"
    BY <1>1, <1>6 DEF Check, registry
  <2>2. PICK pc \in DrainSteps : Goes(d, pc) /\ pc = IF Busy(d) THEN "Sleep" ELSE "Drained"
    BY <1>6 DEF Check, DrainSteps
  <2>3. PICK s \in DrainStates :
           /\ drain' = [drain EXCEPT ![d] = s] /\ drain'[d] = s /\ s.pc = pc
           /\ s.woken = drain[d].woken /\ s.old = drain[d].old
           /\ s.plugin = drain[d].plugin /\ s.account = drain[d].account
    BY <2>2, GoesFacts DEF DiscoveryInv
  <2>4. /\ \A k : InScope(d, k)' <=> InScope(d, k)
        /\ Busy(d)' <=> Busy(d)
    BY <2>1, <2>3 DEF InScope, Busy
  <2>5. \A c \in r.old : call[c].pc = "Notify" \/ (AtWork(c) /\ InScope(d, KeyOf(call[c])))
    BY <1>1, <1>2, <2>1 DEF DrainFits
  <2>6. ~Busy(d) => \A c \in r.old : call[c].pc = "Notify"
    <3>1. \A c \in r.old : c \in Calls
      BY DEF DrainStates
    <3> QED BY <2>5, <3>1 DEF Busy, DiscoveryInv, RegistryFits
  <2>7. \A c : AtWork(c)' <=> AtWork(c)
    BY <2>1 DEF AtWork
  <2>8. DrainFits(d)'
    <3>1. CASE Busy(d)
      BY <1>1, <2>1, <2>2, <2>3, <2>4, <2>5, <2>7, <3>1 DEF DrainFits, KeyOf
    <3>2. CASE ~Busy(d)
      BY <1>1, <2>1, <2>2, <2>3, <2>6, <3>2 DEF DrainFits
    <3> QED BY <3>1, <3>2
  <2> QED BY <1>2, <2>1, <2>3, <2>8, DrainMoves
<1>7. CASE Wake(d)
  <2>1. UNCHANGED <<call, tokens, permits, canceled>> /\ r.pc = "Sleep"
    BY <1>1, <1>7 DEF Wake, registry
  <2>2. CASE Goes(d, "Listen")
    <3>1. PICK s \in DrainStates :
             /\ drain' = [drain EXCEPT ![d] = s] /\ drain'[d] = s /\ s.pc = "Listen"
             /\ s.woken = drain[d].woken /\ s.old = drain[d].old
             /\ s.plugin = drain[d].plugin /\ s.account = drain[d].account
      BY <2>2, GoesFacts DEF DiscoveryInv, DrainSteps
    <3>2. \A k : InScope(d, k)' <=> InScope(d, k)
      BY <3>1 DEF InScope
    <3>3. DrainFits(d)'
      BY <1>1, <1>2, <2>1, <3>1, <3>2 DEF DrainFits, AtWork, KeyOf
    <3> QED BY <1>2, <2>1, <3>1, <3>3, DrainMoves
  <2>3. CASE Ends(d)
    BY <1>2, <2>1, <2>3, DrainEnds
  <2> QED BY <1>7, <2>2, <2>3 DEF Wake
<1> QED BY <1>3, <1>4, <1>5, <1>6, <1>7 DEF DrainStep

\* A drain that goes on once it is over with its operations.
LEMMA DrainGoes ==
  ASSUME DiscoveryInv, NEW d \in Drains, NEW pc \in {"Row", "Forget"}, Goes(d, pc),
         drain[d].pc \in {"Drained", "Row"}, UNCHANGED <<call, tokens, canceled, permits>>
  PROVE  DiscoveryInv'
<1>1. PICK s \in DrainStates :
        /\ drain' = [drain EXCEPT ![d] = s] /\ drain'[d] = s /\ s.pc = pc
        /\ s.woken = drain[d].woken /\ s.old = drain[d].old
        /\ s.plugin = drain[d].plugin /\ s.account = drain[d].account
  BY GoesFacts DEF DiscoveryInv, DrainSteps
<1>2. DrainFits(d) /\ canceled \subseteq Calls
  BY DEF DiscoveryInv, DiscoveryTypes
<1>3. DrainFits(d)'
  BY <1>1, <1>2 DEF DrainFits
<1> QED BY <1>1, <1>2, <1>3, DrainMoves

\* The ends of drains, cancellation, grants and time.
LEMMA RestFits ==
  ASSUME DiscoveryInv,
         \/ RevocationEnds \/ DeleteSecret \/ DeleteRow \/ Forget \/ CancelOperation \/ Grant
         \/ TimePasses
  PROVE  DiscoveryInv'
<1>1. "delete" \in Drains /\ "revoke" \in Drains /\ canceled \subseteq Calls
  BY DEF Drains, DiscoveryInv, DiscoveryTypes
<1>2. CASE RevocationEnds
  BY <1>1, <1>2, DrainEnds DEF RevocationEnds, registry
<1>3. CASE DeleteSecret
  BY <1>1, <1>3, DrainEnds, DrainGoes DEF DeleteSecret, registry
<1>4. CASE DeleteRow
  BY <1>1, <1>4, DrainEnds, DrainGoes DEF DeleteRow, registry
<1>5. CASE Forget
  BY <1>1, <1>5, DrainEnds DEF Forget, registry
<1>6. CASE CancelOperation
  BY <1>1, <1>6, Stays DEF CancelOperation, DiscoveryInv, RegistryFits
<1>7. CASE Grant
  BY <1>1, <1>7, Stays DEF Grant, registry
<1>8. CASE TimePasses
  BY <1>1, <1>8, Stays DEF TimePasses, registry
<1> QED BY <1>2, <1>3, <1>4, <1>5, <1>6, <1>7, <1>8

\* At first nothing is registered and nobody waits.
LEMMA DiscoveryStarts == ASSUME DiscoveryInit PROVE DiscoveryInv
<1>1. call = [c \in Calls |-> Resting] /\ drain = [d \in Drains |-> Inactive]
      /\ permits = {} /\ canceled = {} /\ tokens = [k \in {} |-> Nothing]
  BY DEF DiscoveryInit
<1>2. \A c \in Calls : call[c] = Resting
  BY <1>1
<1>3. DOMAIN Resting = Fields /\ Resting.pc = "Idle"
  BY FieldFacts DEF Fields
<1>4. Inactive \in DrainStates /\ Inactive.pc = "Idle"
  BY DEF Inactive, DrainStates, DrainSteps
<1>5. DiscoveryTypes
  BY <1>1, <1>3, <1>4 DEF DiscoveryTypes
<1>6. RegistryFits
  BY <1>1, <1>2, <1>3 DEF RegistryFits, AtWork
<1>7. \A d \in Drains : DrainFits(d)
  BY <1>1, <1>4 DEF DrainFits
<1> QED BY <1>2, <1>5, <1>6, <1>7, RestingFits DEF DiscoveryInv

\* The registry of operations holds exactly the calls at work, each under its
\* own key; whom a deletion or a revocation cancelled is still at work in its
\* scope or about to wake it; and what a match has said of the remotes so far
\* follows from the answers it was given (OperationRegistry, match_remotes).
THEOREM DiscoveryInvariant == DiscoverySpec => []DiscoveryInv
<1>1. ASSUME DiscoveryInv, [DiscoveryNext]_discoveryVars PROVE DiscoveryInv'
  <2>1. CASE UNCHANGED discoveryVars
    BY <1>1, <2>1, Stays DEF discoveryVars, DiscoveryInv, DiscoveryTypes
  <2>2. ASSUME NEW c \in Calls, CallStep(c) PROVE DiscoveryInv'
    BY <1>1, <2>2, AskFits, StartFits, WorkFits, LeaveFits, NotifyFits DEF CallStep
  <2>3. ASSUME NEW d \in Drains, DrainStep(d) PROVE DiscoveryInv'
    BY <1>1, <2>3, DrainStepFits
  <2> QED BY <1>1, <2>1, <2>2, <2>3, RestFits DEF DiscoveryNext
<1> QED BY <1>1, DiscoveryStarts, PTL DEF DiscoverySpec

\* A repository is suggested for a local remote only when every address of the
\* remote was looked up and gave that repository (match_remotes).
THEOREM SuggestionsAlwaysEarned == DiscoverySpec => []SuggestionsAreEarned
<1>1. DiscoveryInv => SuggestionsAreEarned
  BY DEF DiscoveryInv, MatchFits, Earned, SuggestionsAreEarned
<1> QED BY <1>1, DiscoveryInvariant, PTL

\* A deletion or a revocation goes on only when those it cancelled are done,
\* and never sleeps through the end of the last one (wait_until_idle).
THEOREM DrainsAlwaysComplete == DiscoverySpec => []DrainsAreComplete
<1>1. ASSUME DiscoveryInv PROVE DrainsAreComplete
  <2>1. \A k \in DOMAIN tokens :
          KeyOf(call[tokens[k]]) = k /\ call[tokens[k]].pc \notin {"Start", "Notify"}
    BY <1>1 DEF DiscoveryInv, RegistryFits, AtWork
  <2>2. \A c \in permits : call[c].pc \notin {"Start", "Notify"} /\ c \in Range(tokens)
    BY <1>1 DEF DiscoveryInv, DiscoveryTypes, RegistryFits, AtWork, Range
  <2>3. \A d \in Drains :
          /\ drain[d].pc \in {"Drained", "Row", "Forget"} =>
               \A c \in drain[d].old : call[c].pc = "Notify"
          /\ (drain[d].pc = "Sleep" /\ ~drain[d].woken) =>
               Busy(d) \/ \E c \in Calls : call[c].pc = "Notify"
    BY <1>1 DEF DiscoveryInv, DrainFits
  <2> QED BY <2>1, <2>2, <2>3 DEF DrainsAreComplete
<1> QED BY <1>1, DiscoveryInvariant, PTL
-----------------------------------------------------------------------------
(* Listings.                                                               *)

\* A listing at work that has not failed.
Listing(r) ==
  r.kind = "List" /\ r.pc \notin {"Idle", "Notify"} /\ (r.pc = "Leave" => r.outcome = "Done")

\* Nothing was given, and nothing read.
Fresh(r) == r.items = <<>> /\ r.buffered = <<>> /\ r.before = <<>> /\ r.next = 0

\* Pages of the service, or none.
PageNumbers == 0..Len(upstream.pages)

CursorTypes(e) ==
  /\ e.query \in Queries /\ e.next \in PageNumbers
  /\ e.buffered \in Seq(Wanted[e.query]) /\ e.before \in Seq(Wanted[e.query])

\* What was given, what is left over and what the service still has are all.
CursorAdds(e) == Honest => e.before \o (e.buffered \o From(e.query, e.next)) = Whole(e.query)

\* The same of a listing: before it asks for its next page, and at its end.
AskingAdds(r) == Honest => r.before \o (r.items \o From(r.query, PageOf(r))) = Whole(r.query)
EndingAdds(r) ==
  Honest => r.before \o (r.items \o (r.buffered \o From(r.query, r.next))) = Whole(r.query)

Keeps(r) ==
  /\ CursorTypes(r) /\ r.items \in Seq(Wanted[r.query])
  /\ r.pc \in {"Start", "Lookup"} => Fresh(r)
  /\ r.pc \in {"Permit", "Secret"} =>
       /\ r.items = <<>>
       /\ IF r.cursor = 0 THEN Fresh(r) ELSE CursorAdds(r)
  /\ r.pc \in AtTheService =>
       r.buffered = <<>> /\ Len(r.items) < Size[r.query] /\ AskingAdds(r)
  /\ r.pc \in {"Finish", "Leave"} =>
       (HasMore(r) => Len(r.items) = Size[r.query]) /\ EndingAdds(r)

ListingFits(r) == (r.pc = "Finish" => r.kind = "List") /\ (Listing(r) => Keeps(r))

ListingInv ==
  /\ upstream \in Layouts
  /\ \A n \in DOMAIN cursors : CursorTypes(cursors[n]) /\ CursorAdds(cursors[n])
  /\ \A c \in Calls : ListingFits(call[c])
-----------------------------------------------------------------------------
(* Matching and From recur along their argument: Counting replaces the     *)
(* induction, as for the parsers of LocalProofs.                           *)

\* A set of natural numbers has a least one.
LEMMA LeastNatural ==
  ASSUME NEW S, S \subseteq Nat, S # {}
  PROVE  \E n \in S : \A m \in S : n <= m
<1> DEFINE Less == OpToRel(<, Nat)
<1>1. Less = {ss \in Nat \X Nat : ss[1] < ss[2]}
  BY DEF OpToRel
<1>2. IsWellFoundedOn(Less, Nat)
  BY NatLessThanWellFounded
<1> HIDE DEF Less
<1>3. PICK n \in S : \A m \in S : ~(<<m, n>> \in Less)
  BY <1>2, WFMin
<1>4. ASSUME NEW m \in S PROVE n <= m
  <2>1. m \in Nat /\ n \in Nat
    OBVIOUS
  <2>2. ~(m < n)
    <3>1. <<m, n>> \in Nat \X Nat /\ <<m, n>>[1] = m /\ <<m, n>>[2] = n
      BY <2>1
    <3> QED BY <1>1, <1>3, <3>1
  <2> QED BY <2>1, <2>2
<1> QED BY <1>4

\* What holds at 0 and goes on from one number to the next holds up to n.
LEMMA Counting ==
  ASSUME NEW n \in Nat, NEW P, 0 \in P, \A i \in 1..n : i - 1 \in P => i \in P
  PROVE  \A i \in 0..n : i \in P
<1> DEFINE Bad == {i \in 0..n : i \notin P}
<1> SUFFICES ASSUME NEW bad \in 0..n, bad \notin P PROVE FALSE
  OBVIOUS
<1>1. Bad # {} /\ Bad \subseteq Nat
  <2>1. bad \in Bad
    OBVIOUS
  <2> QED BY <2>1
<1>2. PICK k \in Bad : \A j \in Bad : k <= j
  BY <1>1, LeastNatural
<1>3. k \in 1..n
  BY <1>2
<1>4. k - 1 \in 0..n /\ ~(k <= k - 1)
  BY <1>3
<1>5. k - 1 \in P
  BY <1>2, <1>4
<1> QED BY <1>2, <1>3, <1>5

Follows(g, F, a, n) == g[0] = a /\ \A i \in 1..n : g[i] = F[<<g[i - 1], i>>]

\* A function that is defined step by step exists.
LEMMA RecursionExists ==
  ASSUME NEW A, NEW a \in A, NEW n \in Nat, NEW F \in [A \X (1..n) -> A]
  PROVE  \E g \in [0..n -> A] : Follows(g, F, a, n)
<1> DEFINE P == {k \in 0..n : \E g \in [0..k -> A] : Follows(g, F, a, k)}
<1>1. 0 \in P
  <2> DEFINE g == [i \in 0..0 |-> a]
  <2>1. g \in [0..0 -> A] /\ Follows(g, F, a, 0)
    BY DEF Follows
  <2> QED BY <2>1
<1>2. ASSUME NEW k \in 1..n, k - 1 \in P PROVE k \in P
  <2>1. PICK g \in [0..(k - 1) -> A] : Follows(g, F, a, k - 1)
    BY <1>2
  <2>2. g[k - 1] \in A
    BY <2>1
  <2>3. F[<<g[k - 1], k>>] \in A
    BY <2>2
  <2> DEFINE h == [i \in 0..k |-> IF i = k THEN F[<<g[k - 1], k>>] ELSE g[i]]
  <2>4. h \in [0..k -> A]
    BY <2>1, <2>3
  <2>5. h[0] = a
    BY <2>1 DEF Follows
  <2>6. ASSUME NEW i \in 1..k PROVE h[i] = F[<<h[i - 1], i>>]
    <3>1. h[i - 1] = g[i - 1]
      OBVIOUS
    <3>2. CASE i = k
      <4>1. h[k] = F[<<g[k - 1], k>>]
        OBVIOUS
      <4>2. h[k - 1] = g[k - 1]
        BY <3>1, <3>2
      <4> HIDE DEF h
      <4> QED BY <3>2, <4>1, <4>2
    <3>3. CASE i # k
      <4>1. i \in 1..(k - 1)
        BY <3>3
      <4>2. g[i] = F[<<g[i - 1], i>>]
        BY <2>1, <4>1 DEF Follows
      <4>3. h[i] = g[i]
        BY <3>3
      <4> QED BY <3>1, <4>2, <4>3
    <3> QED BY <3>2, <3>3
  <2> HIDE DEF h
  <2>7. Follows(h, F, a, k)
    BY <2>5, <2>6 DEF Follows
  <2> QED BY <2>4, <2>7
<1> HIDE DEF P
<1>3. n \in P
  BY <1>1, <1>2, Counting
<1> QED BY <1>3 DEF P

\* The items of a page that match are matching items.
LEMMA MatchingType ==
  ASSUME NEW S, NEW items \in Seq(S), NEW query
  PROVE  Matching(items, query) \in Seq(Wanted[query])
<1>1. PICK n \in Nat : n = Len(items)
  OBVIOUS
<1>2. PICK A : A = Seq(Wanted[query])
  OBVIOUS
<1>3. <<>> \in A /\ \A s \in A, x \in Wanted[query] : Append(s, x) \in A
  BY <1>2
<1> DEFINE Take(s, i) == IF items[i] \in Wanted[query] THEN Append(s, items[i]) ELSE s
           Rec(f) == f = [i \in 0..n |-> IF i = 0 THEN <<>> ELSE Take(f[i - 1], i)]
           taken == CHOOSE f : Rec(f)
<1>4. \A s \in A, i \in 1..n : Take(s, i) \in A
  BY <1>3
<1>5. Matching(items, query) = taken[n]
  BY <1>1 DEF Matching
<1> HIDE DEF Take
<1>6. \E f : Rec(f)
  <2> DEFINE F == [x \in A \X (1..n) |-> Take(x[1], x[2])]
  <2>1. F \in [A \X (1..n) -> A]
    <3>1. ASSUME NEW x \in A \X (1..n) PROVE Take(x[1], x[2]) \in A
      <4>1. x[1] \in A /\ x[2] \in 1..n
        OBVIOUS
      <4> QED BY <1>4, <4>1
    <3> QED BY <3>1
  <2>2. PICK g \in [0..n -> A] : Follows(g, F, <<>>, n)
    <3> HIDE DEF F
    <3> QED BY <1>3, <2>1, RecursionExists
  <2>3. ASSUME NEW i \in 1..n PROVE g[i] = Take(g[i - 1], i)
    <3>1. g[i] = F[<<g[i - 1], i>>]
      BY <2>2 DEF Follows
    <3>2. g[i - 1] \in A
      BY <2>2
    <3>3. F[<<g[i - 1], i>>] = Take(g[i - 1], i)
      BY <3>2
    <3> HIDE DEF F
    <3> QED BY <3>1, <3>3
  <2>4. Rec(g)
    <3> DEFINE e == [i \in 0..n |-> IF i = 0 THEN <<>> ELSE Take(g[i - 1], i)]
    <3>1. \A i \in 0..n : g[i] = e[i]
      BY <2>2, <2>3 DEF Follows
    <3> QED BY <2>2, <3>1
  <2> QED BY <2>4
<1>7. Rec(taken)
  <2> HIDE DEF Rec
  <2> QED BY <1>6
<1> HIDE DEF taken
<1>8. taken[0] = <<>> /\ \A i \in 1..n : taken[i] = Take(taken[i - 1], i)
  BY <1>7
<1> HIDE DEF Rec
<1> DEFINE Good == {i \in 0..n : taken[i] \in A}
<1>9. 0 \in Good
  BY <1>3, <1>8
<1>10. ASSUME NEW i \in 1..n, i - 1 \in Good PROVE i \in Good
  <2>1. Take(taken[i - 1], i) \in A
    BY <1>4, <1>10
  <2> QED BY <1>8, <2>1
<1>11. \A i \in 0..n : i \in Good
  <2> HIDE DEF Good
  <2> QED BY <1>9, <1>10, Counting
<1> QED BY <1>2, <1>5, <1>11

\* What the service lists: pages, and after each at most one further page.
LEMMA LayoutFacts ==
  ASSUME upstream \in Layouts
  PROVE  /\ Len(upstream.pages) \in Nat \ {0}
         /\ upstream.pages \in Seq(Seq(Listed))
         /\ upstream.next \in Seq(PageNumbers) /\ Len(upstream.next) = Len(upstream.pages)
BY DiscoveryAssumption DEF PageNumbers

\* What matches from a page on is what matches on it, then what matches from
\* the next page on.
LEMMA FromFacts ==
  ASSUME upstream \in Layouts, NEW query
  PROVE  /\ \A n \in PageNumbers : From(query, n) \in Seq(Wanted[query])
         /\ From(query, 0) = <<>>
         /\ \A n \in PageNumbers \ {0} :
              From(query, n) = Matching(upstream.pages[n], query)
                               \o From(query, IF n < Len(upstream.pages) THEN n + 1 ELSE 0)
<1>1. PICK N \in Nat \ {0} : N = Len(upstream.pages)
  BY LayoutFacts
<1>2. PICK A : A = Seq(Wanted[query])
  OBVIOUS
<1>3. <<>> \in A /\ \A s, t \in A : s \o t \in A
  BY <1>2
<1> DEFINE Page(n) == Matching(upstream.pages[n], query)
           Before(s, k) == Page(N - k + 1) \o s
           Rec(f) == f = [k \in 0..N |-> IF k = 0 THEN <<>> ELSE Before(f[k - 1], k)]
           last == CHOOSE f : Rec(f)
<1>4. \A n \in 1..N : Page(n) \in A
  <2> TAKE n \in 1..N
  <2>1. upstream.pages[n] \in Seq(Listed)
    BY <1>1, LayoutFacts
  <2> QED BY <1>2, <2>1, MatchingType
<1>5. \A n : From(query, n) = last[IF n = 0 THEN 0 ELSE N - n + 1]
  BY <1>1 DEF From
<1> HIDE DEF Page
<1>6. \A s \in A, k \in 1..N : Before(s, k) \in A
  <2> TAKE s \in A, k \in 1..N
  <2>1. N - k + 1 \in 1..N
    OBVIOUS
  <2>2. Page(N - k + 1) \in A
    BY <1>4, <2>1
  <2> QED BY <1>3, <2>2
<1>7. \A s, k : Before(s, k) = Page(N - k + 1) \o s
  OBVIOUS
<1> HIDE DEF Before
<1>8. \E f : Rec(f)
  <2> DEFINE F == [x \in A \X (1..N) |-> Before(x[1], x[2])]
  <2>1. F \in [A \X (1..N) -> A]
    <3>1. ASSUME NEW x \in A \X (1..N) PROVE Before(x[1], x[2]) \in A
      <4>1. x[1] \in A /\ x[2] \in 1..N
        OBVIOUS
      <4> QED BY <1>6, <4>1
    <3> QED BY <3>1
  <2>2. PICK g \in [0..N -> A] : Follows(g, F, <<>>, N)
    <3> HIDE DEF F
    <3> QED BY <1>3, <2>1, RecursionExists
  <2>3. ASSUME NEW k \in 1..N PROVE g[k] = Before(g[k - 1], k)
    <3>1. g[k] = F[<<g[k - 1], k>>]
      BY <2>2 DEF Follows
    <3>2. g[k - 1] \in A
      BY <2>2
    <3>3. F[<<g[k - 1], k>>] = Before(g[k - 1], k)
      BY <3>2
    <3> HIDE DEF F
    <3> QED BY <3>1, <3>3
  <2>4. Rec(g)
    <3> DEFINE e == [k \in 0..N |-> IF k = 0 THEN <<>> ELSE Before(g[k - 1], k)]
    <3>1. \A k \in 0..N : g[k] = e[k]
      BY <2>2, <2>3 DEF Follows
    <3> QED BY <2>2, <3>1
  <2> QED BY <2>4
<1>9. Rec(last)
  <2> HIDE DEF Rec
  <2> QED BY <1>8
<1> HIDE DEF last
<1>10. last[0] = <<>> /\ \A k \in 1..N : last[k] = Before(last[k - 1], k)
  BY <1>9
<1> HIDE DEF Rec
<1> DEFINE Good == {k \in 0..N : last[k] \in A}
<1>11. 0 \in Good
  BY <1>3, <1>10
<1>12. ASSUME NEW k \in 1..N, k - 1 \in Good PROVE k \in Good
  <2>1. Before(last[k - 1], k) \in A
    BY <1>6, <1>12
  <2> QED BY <1>10, <2>1
<1>13. \A k \in 0..N : k \in Good
  <2> HIDE DEF Good
  <2> QED BY <1>11, <1>12, Counting
<1>14. \A n \in PageNumbers : From(query, n) \in A
  <2> TAKE n \in PageNumbers
  <2>1. (IF n = 0 THEN 0 ELSE N - n + 1) \in 0..N
    BY <1>1 DEF PageNumbers
  <2> QED BY <1>5, <1>13, <2>1
<1>15. ASSUME NEW n \in PageNumbers \ {0}
       PROVE  From(query, n) = Page(n) \o From(query, IF n < N THEN n + 1 ELSE 0)
  <2>1. n \in 1..N /\ N - n + 1 \in 1..N /\ N - (N - n + 1) + 1 = n /\ n # 0
    BY <1>1 DEF PageNumbers
  <2>2. last[N - n + 1] = Page(N - (N - n + 1) + 1) \o last[(N - n + 1) - 1]
    BY <1>7, <1>10, <2>1
  <2>3. From(query, n) = Page(n) \o last[(N - n + 1) - 1]
    BY <1>5, <2>1, <2>2
  <2>4. From(query, IF n < N THEN n + 1 ELSE 0) = last[(N - n + 1) - 1]
    <3>1. CASE n < N
      <4>1. n + 1 # 0 /\ N - (n + 1) + 1 = (N - n + 1) - 1
        BY <2>1
      <4> QED BY <1>5, <3>1, <4>1
    <3>2. CASE ~(n < N)
      <4>1. (N - n + 1) - 1 = 0
        BY <2>1, <3>2
      <4> QED BY <1>5, <3>2, <4>1
    <3> QED BY <3>1, <3>2
  <2> QED BY <2>3, <2>4
<1> QED BY <1>1, <1>2, <1>5, <1>10, <1>14, <1>15 DEF Page

\* The smaller of two numbers.
LEMMA MinOfTwo ==
  ASSUME NEW a \in Nat, NEW b \in Nat
  PROVE  /\ Min({a, b}) \in Nat /\ Min({a, b}) <= a /\ Min({a, b}) <= b
         /\ Min({a, b}) = a \/ Min({a, b}) = b
<1>1. \E x \in {a, b} : \A y \in {a, b} : x <= y
  <2>1. a <= b \/ b <= a
    OBVIOUS
  <2> QED BY <2>1
<1>2. PICK m : m = Min({a, b})
  OBVIOUS
<1>3. m \in {a, b} /\ \A y \in {a, b} : m <= y
  BY <1>1, <1>2 DEF Min
<1> QED BY <1>2, <1>3

\* A sequence that is cut in two.
LEMMA CutFacts ==
  ASSUME NEW S, NEW q \in Seq(S), NEW n \in 0..Len(q)
  PROVE  /\ SubSeq(q, 1, n) \in Seq(S) /\ Len(SubSeq(q, 1, n)) = n
         /\ SubSeq(q, n + 1, Len(q)) \in Seq(S) /\ Len(SubSeq(q, n + 1, Len(q))) = Len(q) - n
         /\ SubSeq(q, 1, n) \o SubSeq(q, n + 1, Len(q)) = q
<1>1. PICK k \in Nat : k = Len(q)
  OBVIOUS
<1>2. /\ \A i \in 1..n : q[i] \in S
      /\ \A i \in (n + 1)..k : q[i] \in S
  BY <1>1
<1>3. SubSeq(q, 1, n) \in Seq(S) /\ Len(SubSeq(q, 1, n)) = IF 1 <= n THEN n - 1 + 1 ELSE 0
  BY <1>2, SubSeqProperties
<1>4. /\ SubSeq(q, n + 1, k) \in Seq(S)
      /\ Len(SubSeq(q, n + 1, k)) = IF n + 1 <= k THEN k - (n + 1) + 1 ELSE 0
  BY <1>1, <1>2, SubSeqProperties
<1>5. SubSeq(q, 1, n) \o SubSeq(q, n + 1, k) = SubSeq(q, 1, k)
  <2>1. 1 \in 1..(Len(q) + 1) /\ n \in (1 - 1)..Len(q) /\ k \in n..Len(q)
    BY <1>1
  <2> QED BY <2>1, ConcatAdjacentSubSeq
<1>6. SubSeq(q, 1, k) = q
  BY <1>1, SubSeqFull
<1>7. PICK h, t : h = SubSeq(q, 1, n) /\ t = SubSeq(q, n + 1, k)
  OBVIOUS
<1>8. n \in 0..k /\ Len(h) = IF 1 <= n THEN n - 1 + 1 ELSE 0
  BY <1>1, <1>3, <1>7
<1>9. Len(t) = IF n + 1 <= k THEN k - (n + 1) + 1 ELSE 0
  BY <1>4, <1>7
<1>10. Len(h) = n /\ Len(t) = k - n
  BY <1>8, <1>9
<1>11. h \in Seq(S) /\ t \in Seq(S) /\ h \o t = q
  BY <1>3, <1>4, <1>5, <1>6, <1>7
<1> QED BY <1>1, <1>7, <1>10, <1>11

\* An empty sequence has no elements.
LEMMA NoElements ==
  ASSUME NEW S, NEW q \in Seq(S)
  PROVE  Len(q) \in Nat /\ (Len(q) = 0 <=> q = <<>>)
OBVIOUS

-----------------------------------------------------------------------------
(* Listings.                                                               *)

\* s is where the listing r is.
Kept(s, r) ==
  /\ s.kind = r.kind /\ s.query = r.query /\ s.cursor = r.cursor /\ s.next = r.next
  /\ s.items = r.items /\ s.buffered = r.buffered /\ s.before = r.before

\* Going to another place, a listing stays where it is.
LEMMA ToKeeps ==
  ASSUME NEW r, DOMAIN r = Fields, NEW pc
  PROVE  /\ Kept(To(r, pc), r) /\ To(r, pc).pc = pc /\ To(r, pc).outcome = r.outcome
         /\ DOMAIN To(r, pc) = Fields
BY FieldFacts DEF To, Kept

\* A match is no listing.
LEMMA MatchesFit ==
  ASSUME NEW s, s.kind # "List", s.pc # "Finish"
  PROVE  ListingFits(s)
BY DEF ListingFits, Keeps, Listing

\* A listing that failed has nothing to give.
LEMMA FailedFits ==
  ASSUME NEW r, NEW error, error # "Done"
  PROVE  ListingFits(Failed(r, error)) /\ DOMAIN Failed(r, error) = Fields
<1>1. Failed(r, error).pc = "Leave" /\ Failed(r, error).outcome = error
  BY FieldFacts DEF Failed, Resting
<1>2. DOMAIN Failed(r, error) = Fields
  BY DEF Failed, Fields
<1> QED BY <1>1, <1>2 DEF ListingFits, Keeps, Listing

\* What matches from the next page on, or from the first.
LEMMA FromTypes ==
  ASSUME upstream \in Layouts, NEW r, CursorTypes(r)
  PROVE  /\ From(r.query, r.next) \in Seq(Wanted[r.query])
         /\ PageOf(r) \in PageNumbers \ {0}
         /\ From(r.query, PageOf(r)) \in Seq(Wanted[r.query])
         /\ Whole(r.query) \in Seq(Wanted[r.query])
         /\ Size[r.query] \in Nat \ {0}
<1>1. PageOf(r) \in PageNumbers \ {0} /\ 1 \in PageNumbers
  BY LayoutFacts DEF PageOf, PageNumbers, CursorTypes
<1> QED BY <1>1, FromFacts, DiscoveryAssumption DEF CursorTypes, Whole

\* A listing at the head of its loop: it has enough, or the service has no
\* more, and all is accounted for; or it asks for the next page.
Turning(s, fetch) ==
  /\ CursorTypes(s) /\ s.items \in Seq(Wanted[s.query]) /\ Len(s.items) <= Size[s.query]
  /\ s.buffered # <<>> => Len(s.items) = Size[s.query]
  /\ IF fetch /\ Len(s.items) < Size[s.query] THEN AskingAdds(s)
     ELSE EndingAdds(s) /\ (s.next # 0 => Len(s.items) = Size[s.query])

\* The head of the loop of a listing: it asks for a page, fails or is at its end.
LEMMA TurnFits ==
  ASSUME upstream \in Layouts, NEW s, DOMAIN s = Fields, s.kind = "List",
         NEW fetch \in BOOLEAN, Turning(s, fetch)
  PROVE  ListingFits(Turn(s, fetch)) /\ DOMAIN Turn(s, fetch) = Fields
<1>1. Size[s.query] \in Nat /\ Len(s.items) \in Nat
  BY FromTypes, NoElements DEF Turning
<1>2. CASE fetch /\ Len(s.items) < Size[s.query]
  <2>1. /\ ListingFits(Failed(s, "Partial")) /\ ListingFits(Failed(s, "InvalidResponse"))
        /\ DOMAIN Failed(s, "Partial") = Fields /\ DOMAIN Failed(s, "InvalidResponse") = Fields
    BY FailedFits
  <2>2. PICK t : t = To(s, "Send")
    OBVIOUS
  <2>3. PICK u : u = [t EXCEPT !.attempt = 1, !.seen = s.seen \cup ({s.next} \ {0})]
    OBVIOUS
  <2>4. Kept(t, s) /\ t.pc = "Send" /\ DOMAIN t = Fields
    BY <2>2, ToKeeps
  <2>5. Kept(u, s) /\ u.pc = "Send" /\ DOMAIN u = Fields
    BY <2>3, <2>4, FieldFacts DEF Kept
  <2>6. ListingFits(u)
    <3>1. CursorTypes(u) /\ u.items \in Seq(Wanted[u.query])
      BY <2>5 DEF Turning, CursorTypes, Kept
    <3>2. u.buffered = <<>> /\ Len(u.items) < Size[u.query]
      BY <1>1, <1>2, <2>5 DEF Turning, Kept
    <3>3. AskingAdds(u)
      BY <1>2, <2>5 DEF Turning, Kept, AskingAdds, PageOf
    <3> QED BY <2>5, <3>1, <3>2, <3>3 DEF ListingFits, Keeps
  <2>7. \/ Turn(s, fetch) = Failed(s, "Partial") \/ Turn(s, fetch) = Failed(s, "InvalidResponse")
        \/ Turn(s, fetch) = u
    <3>1. ~(Len(s.items) >= Size[s.query] \/ ~fetch)
      BY <1>1, <1>2
    <3> QED BY <2>2, <2>3, <3>1 DEF Turn
  <2> QED BY <2>1, <2>5, <2>6, <2>7
<1>3. CASE ~(fetch /\ Len(s.items) < Size[s.query])
  <2>1. PICK u : u = To(s, "Finish")
    OBVIOUS
  <2>2. Kept(u, s) /\ u.pc = "Finish" /\ DOMAIN u = Fields
    BY <2>1, ToKeeps
  <2>3. Turn(s, fetch) = u
    <3>1. Len(s.items) >= Size[s.query] \/ ~fetch
      BY <1>1, <1>3
    <3> QED BY <2>1, <3>1 DEF Turn
  <2>4. ListingFits(u)
    <3>1. CursorTypes(u) /\ u.items \in Seq(Wanted[u.query])
      BY <2>2 DEF Turning, CursorTypes, Kept
    <3>2. HasMore(u) => Len(u.items) = Size[u.query]
      BY <1>3, <2>2 DEF Turning, Kept, HasMore
    <3>3. EndingAdds(u)
      BY <1>3, <2>2 DEF Turning, Kept, EndingAdds
    <3> QED BY <2>2, <3>1, <3>2, <3>3 DEF Kept, ListingFits, Keeps, AtTheService
  <2> QED BY <2>2, <2>3, <2>4
<1> QED BY <1>2, <1>3

\* A listing that starts: it takes what an earlier request left over.
LEMMA StartListingFits ==
  ASSUME upstream \in Layouts, NEW r, DOMAIN r = Fields, r.kind = "List", ListingFits(r),
         r.pc = "Secret"
  PROVE  ListingFits(StartListing(r)) /\ DOMAIN StartListing(r) = Fields
<1>1. PICK W : W = Wanted[r.query]
  OBVIOUS
<1> DEFINE S == Seq(W)
<1>2. /\ CursorTypes(r) /\ r.items = <<>>
      /\ IF r.cursor = 0 THEN Fresh(r) ELSE CursorAdds(r)
  BY DEF ListingFits, Keeps, Listing
<1>3. r.buffered \in S /\ r.before \in S /\ <<>> \in S
  BY <1>1, <1>2 DEF CursorTypes
<1>4. PICK k \in Nat : k = Len(r.buffered)
  BY <1>1, <1>3, NoElements
<1>5. PICK z \in Nat \ {0} : z = Size[r.query]
  BY <1>2, FromTypes
<1>6. PICK n \in Nat : n = Min({k, z}) /\ n <= k /\ n <= z /\ (n = k \/ n = z)
  BY MinOfTwo
<1>7. PICK h, t : h = SubSeq(r.buffered, 1, n) /\ t = SubSeq(r.buffered, n + 1, k)
  OBVIOUS
<1>8. h \in S /\ Len(h) = n /\ t \in S /\ Len(t) = k - n /\ h \o t = r.buffered
  <2>1. PICK q \in Seq(W) : q = r.buffered
    BY <1>3
  <2>2. n \in 0..Len(q) /\ Len(q) = k
    BY <1>4, <1>6, <2>1
  <2>3. /\ SubSeq(q, 1, n) \in Seq(W) /\ Len(SubSeq(q, 1, n)) = n
        /\ SubSeq(q, n + 1, Len(q)) \in Seq(W) /\ Len(SubSeq(q, n + 1, Len(q))) = Len(q) - n
        /\ SubSeq(q, 1, n) \o SubSeq(q, n + 1, Len(q)) = q
    BY <2>2, CutFacts
  <2>4. h = SubSeq(q, 1, n) /\ t = SubSeq(q, n + 1, Len(q))
    BY <1>7, <2>1, <2>2
  <2> QED BY <2>1, <2>2, <2>3, <2>4
<1>9. PICK s : s = [r EXCEPT !.items = h, !.buffered = t]
  OBVIOUS
<1>10. /\ DOMAIN s = Fields /\ s.kind = "List" /\ s.query = r.query /\ s.cursor = r.cursor
       /\ s.next = r.next /\ s.items = h /\ s.buffered = t /\ s.before = r.before
  BY <1>9, FieldFacts
<1>11. PICK fetch \in BOOLEAN :
         fetch <=> r.cursor = 0 \/ (Len(s.items) < Size[r.query] /\ s.next # 0)
  OBVIOUS
<1>12. StartListing(r) = Turn(s, fetch)
  <2>1. StartListing(r) = Turn(s, r.cursor = 0 \/ (Len(s.items) < Size[r.query] /\ s.next # 0))
    BY <1>4, <1>5, <1>6, <1>7, <1>9, Zenon DEF StartListing
  <2> QED BY <1>11, <2>1 DEF Turn
<1>13. Turning(s, fetch)
  <2>1. CursorTypes(s) /\ s.items \in Seq(Wanted[s.query]) /\ Len(s.items) <= Size[s.query]
    BY <1>1, <1>2, <1>5, <1>6, <1>8, <1>10 DEF CursorTypes
  <2>2. s.buffered # <<>> => Len(s.items) = Size[s.query]
    <3>1. ASSUME n = k PROVE t = <<>>
      <4>1. Len(t) = 0
        BY <1>8, <3>1
      <4> QED BY <1>1, <1>8, <4>1, NoElements
    <3> QED BY <1>5, <1>6, <1>8, <1>10, <3>1
  <2>3. CASE r.cursor = 0
    <3>1. r.buffered = <<>> /\ r.before = <<>> /\ r.next = 0
      BY <1>2, <2>3 DEF Fresh
    <3>2. k = 0 /\ n = 0
      BY <1>4, <1>6, <3>1
    <3>3. h = <<>>
      BY <1>1, <1>8, <3>2, NoElements
    <3>4. fetch /\ Len(s.items) < Size[s.query]
      BY <1>5, <1>8, <1>10, <1>11, <2>3, <3>2
    <3>5. AskingAdds(s)
      <4>1. PICK whole \in S : whole = Whole(r.query)
        BY <1>1, <1>2, FromTypes
      <4>2. From(s.query, PageOf(s)) = whole
        BY <1>10, <3>1, <4>1 DEF PageOf, Whole
      <4>3. <<>> \o (<<>> \o whole) = whole
        BY <1>1, <4>1, ConcatEmptySeq
      <4> QED BY <1>10, <3>1, <3>3, <4>1, <4>2, <4>3 DEF AskingAdds
    <3> QED BY <2>1, <2>2, <3>4, <3>5 DEF Turning
  <2>4. CASE r.cursor # 0
    <3>1. EndingAdds(s)
      <4>1. PICK f \in S : f = From(r.query, r.next)
        BY <1>1, <1>2, FromTypes
      <4>2. Honest => r.before \o ((h \o t) \o f) = Whole(r.query)
        BY <1>2, <1>8, <2>4, <4>1 DEF CursorAdds
      <4>3. h \in Seq(W) /\ t \in Seq(W) /\ f \in Seq(W)
        BY <1>8, <4>1
      <4>4. (h \o t) \o f = h \o (t \o f)
        BY <4>3, ConcatAssociative
      <4> QED BY <1>10, <4>1, <4>2, <4>4 DEF EndingAdds
    <3>2. CASE fetch /\ Len(s.items) < Size[s.query]
      <4>1. s.next # 0 /\ s.buffered = <<>>
        BY <1>5, <1>8, <1>10, <1>11, <2>2, <2>4, <3>2
      <4>2. AskingAdds(s)
        <5>1. PICK f \in S : f = From(s.query, s.next)
          BY <1>1, <1>2, <1>10, FromTypes
        <5>2. <<>> \o f = f
          BY <1>1, <5>1, ConcatEmptySeq
        <5>3. PageOf(s) = s.next
          BY <4>1 DEF PageOf
        <5> QED BY <3>1, <4>1, <5>1, <5>2, <5>3 DEF EndingAdds, AskingAdds
      <4> QED BY <2>1, <2>2, <3>2, <4>2 DEF Turning
    <3>3. CASE ~(fetch /\ Len(s.items) < Size[s.query])
      <4>1. Len(s.items) = n /\ Size[s.query] = z
        BY <1>5, <1>8, <1>10
      <4>2. ASSUME s.next # 0, n < z PROVE FALSE
        <5>1. Len(s.items) < Size[r.query]
          BY <1>10, <4>1, <4>2
        <5>2. fetch
          BY <1>11, <4>2, <5>1
        <5> QED BY <1>10, <3>3, <5>1, <5>2
      <4>3. s.next # 0 => Len(s.items) = Size[s.query]
        BY <1>6, <4>1, <4>2
      <4> QED BY <2>1, <2>2, <3>1, <3>3, <4>3 DEF Turning
    <3> QED BY <3>2, <3>3
  <2> QED BY <2>3, <2>4
<1> QED BY <1>10, <1>12, <1>13, TurnFits

\* What can be joined in any grouping.
Groupable(A) ==
  /\ \A x, y \in A : x \o y \in A
  /\ \A x, y, z \in A : (x \o y) \o z = x \o (y \o z)

\* Sequences can.
LEMMA SequencesGroup == \A S : Groupable(Seq(S))
<1>1. \A S : \A x, y \in Seq(S) : x \o y \in Seq(S)
  BY ConcatProperties
<1>2. \A S : \A x, y, z \in Seq(S) : (x \o y) \o z = x \o (y \o z)
  BY ConcatAssociative
<1> QED BY <1>1, <1>2 DEF Groupable

Regroups(a, b, c, d) == a \o ((b \o c) \o d) = (a \o b) \o (c \o d)

\* How four of them are grouped makes no difference,
LEMMA Regrouped ==
  ASSUME NEW A, Groupable(A), NEW a \in A, NEW b \in A, NEW c \in A, NEW d \in A
  PROVE  Regroups(a, b, c, d)
<1>1. c \o d \in A
  BY DEF Groupable
<1>2. (b \o c) \o d = b \o (c \o d)
  BY DEF Groupable
<1>3. (a \o b) \o (c \o d) = a \o (b \o (c \o d))
  BY <1>1 DEF Groupable
<1> QED BY <1>2, <1>3 DEF Regroups

Groups(a, b, c) == (a \o b) \o c = a \o (b \o c)

\* nor how three are.
LEMMA GroupsAll ==
  ASSUME NEW A, Groupable(A), NEW a \in A, NEW b \in A, NEW c \in A
  PROVE  Groups(a, b, c)
BY DEF Groupable, Groups

\* Without left-overs, a listing that adds up at its end may as well go on.
LEMMA EndingAsks ==
  ASSUME upstream \in Layouts, NEW s, CursorTypes(s), EndingAdds(s), s.buffered = <<>>, s.next # 0
  PROVE  AskingAdds(s)
<1>1. PICK f \in Seq(Wanted[s.query]) : f = From(s.query, s.next)
  BY FromTypes
<1>2. <<>> \o f = f
  BY <1>1, ConcatEmptySeq
<1>3. PageOf(s) = s.next
  BY DEF PageOf
<1> QED BY <1>1, <1>2, <1>3 DEF EndingAdds, AskingAdds

\* A listing that has read a page.
LEMMA PageReadFits ==
  ASSUME upstream \in Layouts, NEW r, DOMAIN r = Fields, r.kind = "List", ListingFits(r),
         r.pc = "Send"
  PROVE  ListingFits(PageRead(r)) /\ DOMAIN PageRead(r) = Fields
<1>1. PICK W : W = Wanted[r.query]
  OBVIOUS
<1>2. /\ CursorTypes(r) /\ r.items \in Seq(W) /\ r.buffered = <<>>
      /\ Len(r.items) < Size[r.query] /\ AskingAdds(r)
  BY <1>1 DEF ListingFits, Keeps, Listing, AtTheService
<1>3. PICK p \in PageNumbers \ {0} : p = PageOf(r)
  BY <1>2, FromTypes
<1>4. PICK found \in Seq(W) : found = Matching(upstream.pages[p], r.query)
  <2>1. upstream.pages[p] \in Seq(Listed)
    BY <1>3, LayoutFacts DEF PageNumbers
  <2> QED BY <1>1, <2>1, MatchingType
<1>5. PICK k \in Nat : k = Len(found)
  BY <1>4, NoElements
<1>6. PICK m \in Nat, z \in Nat : m = Len(r.items) /\ z = Size[r.query] /\ m < z
  BY <1>2, FromTypes, NoElements
<1>7. PICK n \in Nat : n = Min({k, z - m}) /\ n <= k /\ n <= z - m /\ (n = k \/ n = z - m)
  <2>1. z - m \in Nat
    BY <1>6
  <2> QED BY <2>1, MinOfTwo
<1>8. PICK h, t : h = SubSeq(found, 1, n) /\ t = SubSeq(found, n + 1, Len(found))
  OBVIOUS
<1>9. h \in Seq(W) /\ Len(h) = n /\ t \in Seq(W) /\ Len(t) = k - n /\ h \o t = found
  <2>1. n \in 0..Len(found)
    BY <1>5, <1>7
  <2> QED BY <1>5, <1>8, <2>1, CutFacts
<1>10. PICK items \in Seq(W) : items = r.items \o h /\ Len(items) = m + n
  BY <1>2, <1>6, <1>9, ConcatProperties
<1>11. r.buffered \o t = t
  BY <1>2, <1>9, ConcatEmptySeq
<1>12. PICK next \in PageNumbers : next = NextPage(r)
  <2>1. PICK q \in Seq(PageNumbers) : q = upstream.next /\ Len(q) = Len(upstream.pages)
    BY LayoutFacts
  <2>2. p \in 1..Len(q)
    BY <1>3, <2>1, LayoutFacts DEF PageNumbers
  <2>3. q[p] \in PageNumbers
    BY <2>1, <2>2
  <2> QED BY <1>3, <2>1, <2>3 DEF NextPage
<1>13. PICK s : s = [r EXCEPT !.items = @ \o SubSeq(found, 1, n),
                              !.buffered = @ \o SubSeq(found, n + 1, Len(found)),
                              !.next = NextPage(r), !.read = @ + 1]
  OBVIOUS
<1>14. /\ DOMAIN s = Fields /\ s.kind = "List" /\ s.query = r.query
       /\ s.next = next /\ s.items = items /\ s.buffered = t /\ s.before = r.before
  BY <1>8, <1>10, <1>11, <1>12, <1>13, FieldFacts
<1>15. PICK fetch \in BOOLEAN : fetch <=> s.next # 0
  OBVIOUS
<1>16. PageRead(r) = Turn(s, fetch)
  <2>1. PageRead(r) = Turn(s, s.next # 0)
    BY <1>3, <1>4, <1>5, <1>6, <1>7, <1>13, Zenon DEF PageRead
  <2> QED BY <1>15, <2>1 DEF Turn
<1>17. CursorTypes(s) /\ s.items \in Seq(Wanted[s.query]) /\ Len(s.items) <= Size[s.query]
  <2>1. Len(s.items) <= Size[s.query]
    BY <1>6, <1>7, <1>10, <1>14
  <2> QED BY <1>1, <1>2, <1>9, <1>14, <2>1 DEF CursorTypes
<1>18. s.buffered # <<>> => Len(s.items) = Size[s.query]
  <2>1. ASSUME n = k PROVE t = <<>>
    <3>1. Len(t) = 0
      BY <1>9, <2>1
    <3> QED BY <1>9, <3>1, NoElements
  <2> QED BY <1>6, <1>7, <1>10, <1>14, <2>1
<1>19. EndingAdds(s)
  <2>1. PICK f \in Seq(W) : f = From(r.query, next)
    BY <1>1, FromFacts
  <2>2. Honest => From(r.query, p) = found \o f
    <3>1. Honest => next = IF p < Len(upstream.pages) THEN p + 1 ELSE 0
      BY <1>3, <1>12, LayoutFacts DEF Honest, NextPage, PageNumbers
    <3>2. From(r.query, p) = Matching(upstream.pages[p], r.query)
                             \o From(r.query, IF p < Len(upstream.pages) THEN p + 1 ELSE 0)
      BY <1>3, FromFacts
    <3> QED BY <1>4, <2>1, <3>1, <3>2
  <2>3. r.before \in Seq(W)
    BY <1>1, <1>2 DEF CursorTypes
  <2>4. r.before \o (r.items \o ((h \o t) \o f)) = r.before \o ((r.items \o h) \o (t \o f))
    <3>1. h \in Seq(W) /\ t \in Seq(W) /\ f \in Seq(W) /\ r.items \in Seq(W)
      BY <1>2, <1>9, <2>1
    <3>2. PICK A, a : A = Seq(W) /\ a = r.items
      OBVIOUS
    <3>3. Groupable(A)
      BY <3>2, SequencesGroup
    <3>4. a \in A /\ h \in A /\ t \in A /\ f \in A
      BY <3>1, <3>2
    <3>5. Regroups(a, h, t, f)
      BY <3>3, <3>4, Regrouped
    <3> QED BY <3>2, <3>5 DEF Regroups
  <2>5. Honest => r.before \o (r.items \o (found \o f)) = Whole(r.query)
    BY <1>2, <1>3, <2>2 DEF AskingAdds
  <2> QED BY <1>9, <1>10, <1>14, <2>1, <2>4, <2>5 DEF EndingAdds
<1>20. Turning(s, fetch)
  <2>1. CASE fetch /\ Len(s.items) < Size[s.query]
    <3>1. s.buffered = <<>> /\ s.next # 0
      BY <1>6, <1>10, <1>14, <1>15, <1>18, <2>1
    <3>2. AskingAdds(s)
      BY <1>17, <1>19, <3>1, EndingAsks
    <3> QED BY <1>17, <1>18, <2>1, <3>2 DEF Turning
  <2>2. CASE ~(fetch /\ Len(s.items) < Size[s.query])
    <3>1. s.next # 0 => Len(s.items) = Size[s.query]
      <4>1. ASSUME s.next # 0, m + n < z PROVE FALSE
        <5>1. Len(s.items) < Size[s.query]
          BY <1>6, <1>10, <1>14, <4>1
        <5> QED BY <1>15, <2>2, <4>1, <5>1
      <4>2. Len(s.items) = m + n /\ Size[s.query] = z
        BY <1>6, <1>10, <1>14
      <4> QED BY <1>7, <4>1, <4>2
    <3> QED BY <1>17, <1>18, <1>19, <2>2, <3>1 DEF Turning
  <2> QED BY <2>1, <2>2
<1> QED BY <1>14, <1>16, <1>20, TurnFits

\* What the service lists depends on the service only.
LEMMA SameService ==
  ASSUME upstream' = upstream
  PROVE  /\ \A e : CursorTypes(e)' <=> CursorTypes(e)
         /\ \A e : CursorAdds(e)' <=> CursorAdds(e)
         /\ \A r : ListingFits(r)' <=> ListingFits(r)
<1>1. ASSUME NEW q, NEW n PROVE From(q, n)' = From(q, n)
  BY DEF From
<1>2. Honest' <=> Honest
  BY DEF Honest
<1>3. \A q : Whole(q)' = Whole(q)
  BY <1>1 DEF Whole
<1>4. \A e : CursorTypes(e)' <=> CursorTypes(e)
  BY DEF CursorTypes, PageNumbers
<1>5. \A e : CursorAdds(e)' <=> CursorAdds(e)
  BY <1>1, <1>2, <1>3 DEF CursorAdds
<1>6. \A r : AskingAdds(r)' <=> AskingAdds(r)
  BY <1>1, <1>2, <1>3 DEF AskingAdds, PageOf
<1>7. \A r : EndingAdds(r)' <=> EndingAdds(r)
  BY <1>1, <1>2, <1>3 DEF EndingAdds
<1>8. ASSUME NEW r PROVE ListingFits(r)' <=> ListingFits(r)
  BY <1>4, <1>5, <1>6, <1>7 DEF ListingFits, Keeps, Listing, Fresh, HasMore
<1> QED BY <1>4, <1>5, <1>8

\* One call goes on, and the new cursors fit.
LEMMA ListingMoves ==
  ASSUME ListingInv, DiscoveryTypes, NEW c \in Calls, NEW s, DOMAIN s = Fields, ListingFits(s),
         Becomes(c, s), upstream' = upstream,
         \A n \in DOMAIN cursors' : CursorTypes(cursors'[n]) /\ CursorAdds(cursors'[n])
  PROVE  ListingInv'
<1>1. call'[c] = s /\ \A x \in Calls \ {c} : call'[x] = call[x]
  BY Others
<1>2. \A x \in Calls : ListingFits(call'[x])
  BY <1>1 DEF ListingInv
<1>3. \A x \in Calls : ListingFits(call[x])'
  <2>1. ASSUME NEW x \in Calls PROVE ListingFits(call[x])'
    <3>1. PICK r : r = call'[x]
      OBVIOUS
    <3>2. ListingFits(r)'
      BY <1>2, <3>1, SameService
    <3> QED BY <3>1, <3>2
  <2> QED BY <2>1
<1>4. \A n \in DOMAIN cursors' : (CursorTypes(cursors[n]) /\ CursorAdds(cursors[n]))'
  <2>1. ASSUME NEW n \in DOMAIN cursors' PROVE (CursorTypes(cursors[n]) /\ CursorAdds(cursors[n]))'
    <3>1. PICK e : e = cursors'[n]
      OBVIOUS
    <3>2. CursorTypes(e)' /\ CursorAdds(e)'
      BY <3>1, SameService
    <3> QED BY <3>1, <3>2
  <2> QED BY <2>1
<1> QED BY <1>3, <1>4 DEF ListingInv

\* One call goes on, and the store stays.
LEMMA ListingGoes ==
  ASSUME ListingInv, DiscoveryTypes, NEW c \in Calls, NEW s, DOMAIN s = Fields, ListingFits(s),
         Becomes(c, s), upstream' = upstream, cursors' = cursors
  PROVE  ListingInv'
BY ListingMoves DEF ListingInv

\* No call goes on.
LEMMA ListingRests ==
  ASSUME ListingInv, UNCHANGED <<upstream, cursors, call>>
  PROVE  ListingInv'
<1>1. \A n \in DOMAIN cursors' : (CursorTypes(cursors[n]) /\ CursorAdds(cursors[n]))'
  <2>1. ASSUME NEW n \in DOMAIN cursors' PROVE (CursorTypes(cursors[n]) /\ CursorAdds(cursors[n]))'
    <3>1. PICK e : e = cursors[n] /\ e = cursors'[n] /\ n \in DOMAIN cursors
      BY <2>1
    <3>2. CursorTypes(e)' /\ CursorAdds(e)'
      BY <3>1, SameService DEF ListingInv
    <3> QED BY <3>1, <3>2
  <2> QED BY <2>1
<1>2. \A x \in Calls : ListingFits(call[x])'
  <2>1. ASSUME NEW x \in Calls PROVE ListingFits(call[x])'
    <3>1. PICK r : r = call[x] /\ r = call'[x]
      OBVIOUS
    <3>2. ListingFits(r)'
      BY <3>1, SameService DEF ListingInv
    <3> QED BY <3>1, <3>2
  <2> QED BY <2>1
<1> QED BY <1>1, <1>2 DEF ListingInv

\* A call at rest lists nothing.
LEMMA RestingLists ==
  ASSUME NEW s, s.pc \in {"Idle", "Notify"}
  PROVE  ListingFits(s)
BY DEF ListingFits, Listing

\* A listing that goes to its next place as it is.
LEMMA ListingGoesOn ==
  ASSUME NEW r, ListingFits(r), NEW s, Kept(s, r),
         \/ r.pc = "Start" /\ s.pc = "Lookup"
         \/ r.pc = "Lookup" /\ r.cursor = 0 /\ s.pc = "Permit"
         \/ r.pc = "Permit" /\ s.pc = "Secret"
         \/ r.pc \in AtTheService /\ s.pc \in AtTheService
         \/ r.pc = "Finish" /\ s.pc = "Leave"
  PROVE  ListingFits(s)
<1> SUFFICES ASSUME s.kind = "List" PROVE Keeps(s)
  BY MatchesFit DEF ListingFits, Listing, AtTheService
<1>1. r.kind = "List" /\ Listing(r) /\ Keeps(r)
  BY DEF Kept, ListingFits, Listing, AtTheService
<1>2. /\ CursorTypes(s) <=> CursorTypes(r)
      /\ CursorAdds(s) <=> CursorAdds(r)
      /\ AskingAdds(s) <=> AskingAdds(r)
      /\ EndingAdds(s) <=> EndingAdds(r)
      /\ Fresh(s) <=> Fresh(r)
      /\ HasMore(s) <=> HasMore(r)
  BY DEF Kept, CursorTypes, CursorAdds, AskingAdds, EndingAdds, Fresh, HasMore, PageOf
<1>3. CASE r.pc = "Start" /\ s.pc = "Lookup"
  BY <1>1, <1>2, <1>3 DEF Keeps, Kept, AtTheService
<1>4. CASE r.pc = "Lookup" /\ r.cursor = 0 /\ s.pc = "Permit"
  BY <1>1, <1>2, <1>4 DEF Keeps, Kept, AtTheService, Fresh
<1>5. CASE r.pc = "Permit" /\ s.pc = "Secret"
  BY <1>1, <1>2, <1>5 DEF Keeps, Kept, AtTheService
<1>6. CASE r.pc \in AtTheService /\ s.pc \in AtTheService
  BY <1>1, <1>2, <1>6 DEF Keeps, Kept, AtTheService
<1>7. CASE r.pc = "Finish" /\ s.pc = "Leave"
  BY <1>1, <1>2, <1>7 DEF Keeps, Kept, AtTheService
<1> QED BY <1>3, <1>4, <1>5, <1>6, <1>7

\* A match that was answered looks another address up, or is done with the remote.
LEMMA AnsweredGoes ==
  ASSUME NEW r, DOMAIN r = Fields, NEW answer
  PROVE  Answered(r, answer).pc \in {"Send", "Remote"}
<1>1. PICK s : s = [r EXCEPT !.answers = Append(@, answer), !.failed = @ \/ answer = Nothing]
  OBVIOUS
<1>2. DOMAIN s = Fields
  BY <1>1
<1>3. \A pc : To(s, pc).pc = pc /\ DOMAIN To(s, pc) = Fields
  BY <1>2, ToKeeps
<1>4. PICK t, u : t = To(s, "Send") /\ u = To(s, "Remote")
  OBVIOUS
<1>5. /\ [t EXCEPT !.attempt = 1].pc = "Send"
      /\ [u EXCEPT !.suggestions = Append(@, Suggestion(s)), !.answers = <<>>,
                   !.failed = FALSE].pc = "Remote"
  BY <1>3, <1>4, FieldFacts
<1> QED BY <1>1, <1>4, <1>5 DEF Answered

\* A request that remained without an answer.
LEMMA UnansweredLists ==
  ASSUME DiscoveryInv, NEW c \in Calls, call[c].pc \in AtTheService, NEW error, error # "Done",
         Unanswered(c, error)
  PROVE  \E s : DOMAIN s = Fields /\ ListingFits(s) /\ Becomes(c, s)
<1>1. PICK r : r = call[c]
  OBVIOUS
<1>2. DOMAIN r = Fields /\ MatchFits(r) /\ r.kind \in {"List", "Match"}
  BY <1>1 DEF DiscoveryInv, DiscoveryTypes, MatchFits, AtTheService
<1>3. \A e : e # "Done" => ListingFits(Failed(r, e)) /\ DOMAIN Failed(r, e) = Fields
  BY FailedFits
<1>4. ASSUME r.kind = "Match"
      PROVE  ListingFits(Answered(r, Nothing)) /\ DOMAIN Answered(r, Nothing) = Fields
  <2>1. Moved(Answered(r, Nothing), r)
    BY <1>1, <1>2, <1>4, NothingResolves, AnsweredMoves
  <2>2. Answered(r, Nothing).pc \in {"Send", "Remote"}
    BY <1>1, <1>2, <1>4, AnsweredGoes, NothingResolves
  <2> QED BY <1>4, <2>1, <2>2, MatchesFit DEF Moved, Same
<1>5. \/ r.kind = "List" /\ \E e : e # "Done" /\ Becomes(c, Failed(r, e))
      \/ Becomes(c, Failed(r, error))
      \/ r.kind = "Match" /\ Becomes(c, Answered(r, Nothing))
  BY <1>1, <1>2 DEF Unanswered
<1> QED BY <1>3, <1>4, <1>5

\* What has not expired is of the store.
LEMMA UnexpiredFacts ==
  /\ DOMAIN Unexpired \subseteq DOMAIN cursors
  /\ \A n \in DOMAIN Unexpired : Unexpired[n] = cursors[n]
BY DEF Unexpired, RestrictDomain, Restrict

\* The store with a cursor put into it.
LEMMA InsertFits ==
  ASSUME ListingInv, NEW e, CursorTypes(e), CursorAdds(e), Insert(e)
  PROVE  \A n \in DOMAIN cursors' : CursorTypes(cursors'[n]) /\ CursorAdds(cursors'[n])
<1>1. PICK live : live = Unexpired
  OBVIOUS
<1>2. PICK stays : /\ stays \subseteq DOMAIN live
                   /\ cursors' = [n \in stays \cup {issued'} |-> IF n = issued' THEN e ELSE live[n]]
  BY <1>1 DEF Insert
<1>3. \A n \in stays : live[n] = cursors[n] /\ n \in DOMAIN cursors
  BY <1>1, <1>2, UnexpiredFacts
<1>4. ASSUME NEW n \in DOMAIN cursors'
      PROVE  CursorTypes(cursors'[n]) /\ CursorAdds(cursors'[n])
  <2>1. cursors'[n] = e \/ (n \in stays /\ cursors'[n] = live[n])
    BY <1>2, <1>4
  <2> QED BY <1>3, <2>1 DEF ListingInv
<1> QED BY <1>4

-----------------------------------------------------------------------------
(* The steps of listings.                                                  *)

\* A call that is admitted, or refused.
LEMMA AskLists ==
  ASSUME DiscoveryInv, ListingInv, NEW c \in Calls, Ask(c) \/ Start(c)
  PROVE  ListingInv'
<1>1. PICK r : r = call[c]
  OBVIOUS
<1>2. DOMAIN r = Fields /\ ListingFits(r) /\ DiscoveryTypes
  BY <1>1 DEF DiscoveryInv, DiscoveryTypes, ListingInv
<1>3. upstream' = upstream /\ cursors' = cursors
  BY DEF Ask, Start, store, bounds
<1>4. CASE Ask(c)
  <2>1. PICK k, o : LET s == [Resting EXCEPT !.pc = "Start", !.plugin = k[1], !.account = k[2], !.op = o]
                    IN  \/ \E q \in Queries, n \in 0..issued :
                             Becomes(c, [s EXCEPT !.kind = "List", !.query = q, !.cursor = n])
                        \/ Becomes(c, [s EXCEPT !.kind = "Match"])
    BY <1>4 DEF Ask
  <2>2. PICK s : s = [Resting EXCEPT !.pc = "Start", !.plugin = k[1], !.account = k[2], !.op = o]
    OBVIOUS
  <2>3. DOMAIN s = Fields /\ s.pc = "Start" /\ Fresh(s)
    BY <2>2, FieldFacts DEF Resting, Fresh, Fields
  <2>4. CASE Becomes(c, [s EXCEPT !.kind = "Match"])
    <3>1. PICK u : u = [s EXCEPT !.kind = "Match"]
      OBVIOUS
    <3>2. DOMAIN u = Fields /\ u.kind = "Match" /\ u.pc = "Start"
      BY <2>3, <3>1, FieldFacts
    <3>3. ListingFits(u)
      BY <3>2, MatchesFit
    <3> QED BY <1>2, <1>3, <2>4, <3>1, <3>2, <3>3, ListingGoes
  <2>5. ASSUME NEW q \in Queries, NEW n,
               Becomes(c, [s EXCEPT !.kind = "List", !.query = q, !.cursor = n])
        PROVE  ListingInv'
    <3>1. PICK u : u = [s EXCEPT !.kind = "List", !.query = q, !.cursor = n]
      OBVIOUS
    <3>2. DOMAIN u = Fields /\ u.pc = "Start" /\ u.query = q /\ Fresh(u)
      BY <2>3, <3>1, FieldFacts DEF Fresh
    <3>3. u.next = 0 /\ u.buffered = <<>> /\ u.before = <<>> /\ u.items = <<>>
      BY <3>2 DEF Fresh
    <3>4. CursorTypes(u) /\ u.items \in Seq(Wanted[u.query])
      <4>1. 0 \in PageNumbers
        BY LayoutFacts DEF PageNumbers, ListingInv
      <4> QED BY <3>2, <3>3, <4>1 DEF CursorTypes
    <3>5. ListingFits(u)
      BY <3>2, <3>4 DEF ListingFits, Keeps, Listing, AtTheService
    <3> QED BY <1>2, <1>3, <2>5, <3>1, <3>2, <3>5, ListingGoes
  <2> QED BY <2>1, <2>2, <2>4, <2>5
<1>5. CASE Start(c)
  <2>1. r.pc = "Start"
    BY <1>1, <1>5 DEF Start
  <2>2. CASE Becomes(c, Resting)
    <3>1. DOMAIN Resting = Fields /\ Resting.pc = "Idle"
      BY FieldFacts DEF Fields
    <3>2. ListingFits(Resting)
      BY <3>1, RestingLists
    <3> QED BY <1>2, <1>3, <2>2, <3>1, <3>2, ListingGoes
  <2>3. CASE Becomes(c, To(r, "Lookup"))
    <3>1. PICK s : s = To(r, "Lookup")
      OBVIOUS
    <3>2. Kept(s, r) /\ s.pc = "Lookup" /\ DOMAIN s = Fields
      BY <1>2, <3>1, ToKeeps
    <3>3. ListingFits(s)
      BY <1>2, <2>1, <3>2, ListingGoesOn
    <3> QED BY <1>2, <1>3, <2>3, <3>1, <3>2, <3>3, ListingGoes
  <2> QED BY <1>1, <1>5, <2>2, <2>3 DEF Start
<1> QED BY <1>4, <1>5

\* A continuation takes its cursor: what the entry adds up to, it does.
LEMMA LookupLists ==
  ASSUME DiscoveryInv, ListingInv, NEW c \in Calls, Lookup(c)
  PROVE  ListingInv'
<1>1. PICK r : r = call[c]
  OBVIOUS
<1>2. DOMAIN r = Fields /\ ListingFits(r) /\ DiscoveryTypes /\ r.pc = "Lookup"
  BY <1>1 DEF DiscoveryInv, DiscoveryTypes, ListingInv, Lookup
<1>3. upstream' = upstream
  BY DEF Lookup, bounds
<1>4. \/ cursors' = cursors
      \/ cursors' = Unexpired
      \/ cursors' = RestrictDomain(Unexpired, LAMBDA n : n # r.cursor)
  BY <1>1 DEF Lookup
<1>5. \A n \in DOMAIN cursors' : CursorTypes(cursors'[n]) /\ CursorAdds(cursors'[n])
  <2>1. \A n \in DOMAIN cursors' : n \in DOMAIN cursors /\ cursors'[n] = cursors[n]
    BY <1>4, UnexpiredFacts DEF RestrictDomain, Restrict
  <2> QED BY <2>1 DEF ListingInv
<1>6. ASSUME NEW s, DOMAIN s = Fields, ListingFits(s), Becomes(c, s) PROVE ListingInv'
  BY <1>2, <1>3, <1>5, <1>6, ListingMoves
<1>7. CASE Becomes(c, Failed(r, "NotFound")) \/ Becomes(c, Failed(r, "InvalidCursor"))
  BY <1>6, <1>7, FailedFits
<1>8. PICK t : t = To(r, "Permit")
  OBVIOUS
<1>9. Kept(t, r) /\ t.pc = "Permit" /\ DOMAIN t = Fields
  BY <1>2, <1>8, ToKeeps
<1>10. CASE r.cursor = 0 /\ Becomes(c, To(r, "Permit"))
  <2>1. ListingFits(t)
    BY <1>2, <1>9, <1>10, ListingGoesOn
  <2> QED BY <1>6, <1>8, <1>9, <1>10, <2>1
<1>11. ASSUME r.cursor # 0, r.cursor \in DOMAIN Unexpired, FitsRequest(Unexpired[r.cursor], r),
              LET e == Unexpired[r.cursor] IN
              Becomes(c, [To(r, "Permit") EXCEPT !.next = e.next, !.buffered = e.buffered,
                                                 !.before = e.before])
       PROVE  ListingInv'
  <2>1. PICK e : e = Unexpired[r.cursor]
    OBVIOUS
  <2>2. CursorTypes(e) /\ CursorAdds(e) /\ e.query = r.query
    BY <1>11, <2>1, UnexpiredFacts DEF ListingInv, FitsRequest
  <2>3. PICK s : s = [t EXCEPT !.next = e.next, !.buffered = e.buffered, !.before = e.before]
    OBVIOUS
  <2>4. /\ DOMAIN s = Fields /\ s.kind = r.kind /\ s.pc = "Permit" /\ s.query = e.query
        /\ s.items = r.items /\ s.cursor = r.cursor
        /\ s.next = e.next /\ s.buffered = e.buffered /\ s.before = e.before
    BY <1>9, <2>2, <2>3, FieldFacts DEF Kept
  <2>5. ListingFits(s)
    <3>1. CASE r.kind # "List"
      BY <2>4, <3>1, MatchesFit
    <3>2. CASE r.kind = "List"
      <4>1. r.items = <<>>
        BY <1>2, <3>2 DEF ListingFits, Listing, Keeps, Fresh
      <4>2. CursorTypes(s)
        BY <2>2, <2>4 DEF CursorTypes
      <4>3. CursorAdds(s)
        BY <2>2, <2>4 DEF CursorAdds
      <4>4. s.items = <<>> /\ s.items \in Seq(Wanted[s.query])
        BY <2>4, <4>1
      <4> QED BY <1>11, <2>4, <4>2, <4>3, <4>4 DEF ListingFits, Keeps, AtTheService
    <3> QED BY <3>1, <3>2
  <2> QED BY <1>6, <1>8, <1>11, <2>1, <2>3, <2>4, <2>5
<1> QED BY <1>1, <1>2, <1>7, <1>10, <1>11 DEF Lookup

\* A listing that ends puts what it has left behind a new cursor.
LEMMA FinishLists ==
  ASSUME DiscoveryInv, ListingInv, NEW c \in Calls, FinishListing(c)
  PROVE  ListingInv'
<1>1. PICK r : r = call[c]
  OBVIOUS
<1>2. DOMAIN r = Fields /\ ListingFits(r) /\ DiscoveryTypes /\ r.pc = "Finish"
  BY <1>1 DEF DiscoveryInv, DiscoveryTypes, ListingInv, FinishListing
<1>3. upstream' = upstream
  BY DEF FinishListing, bounds
<1>4. CASE Becomes(c, Failed(r, "Canceled")) /\ cursors' = cursors
  BY <1>2, <1>3, <1>4, FailedFits, ListingGoes
<1>5. PICK t, s : t = To(r, "Leave") /\ s = [t EXCEPT !.outcome = "Done"]
  OBVIOUS
<1>6. Kept(s, r) /\ s.pc = "Leave" /\ DOMAIN s = Fields
  <2>1. Kept(t, r) /\ t.pc = "Leave" /\ DOMAIN t = Fields
    BY <1>2, <1>5, ToKeeps
  <2> QED BY <1>5, <2>1, FieldFacts DEF Kept
<1>7. ListingFits(s)
  BY <1>2, <1>6, ListingGoesOn
<1>8. CASE Becomes(c, s) /\ cursors' = cursors
  BY <1>2, <1>3, <1>6, <1>7, <1>8, ListingGoes
<1>9. PICK e : e = [plugin |-> r.plugin, account |-> r.account, query |-> r.query, next |-> r.next,
                    buffered |-> r.buffered, before |-> r.before \o r.items]
  OBVIOUS
<1>10. CASE Becomes(c, s) /\ Insert(e)
  <2>1. CursorTypes(r) /\ r.items \in Seq(Wanted[r.query]) /\ EndingAdds(r)
    BY <1>2 DEF ListingFits, Listing, Keeps
  <2>2. PICK A : A = Seq(Wanted[r.query])
    OBVIOUS
  <2>3. Groupable(A)
    BY <2>2, SequencesGroup
  <2>4. PICK f : f = From(r.query, r.next)
    OBVIOUS
  <2>5. r.before \in A /\ r.items \in A /\ r.buffered \in A /\ f \in A
    BY <2>1, <2>2, <2>4, FromTypes DEF CursorTypes, ListingInv
  <2>6. r.before \o r.items \in A
    BY <2>3, <2>5 DEF Groupable
  <2>7. PICK a, b, d : a = r.before /\ b = r.items /\ d = r.buffered \o f
    OBVIOUS
  <2>8. a \in A /\ b \in A /\ d \in A
    BY <2>3, <2>5, <2>7 DEF Groupable
  <2>9. Groups(a, b, d)
    BY <2>3, <2>8, GroupsAll
  <2>10. /\ e.query = r.query /\ e.next = r.next /\ e.buffered = r.buffered
         /\ e.before = r.before \o r.items
    BY <1>9
  <2>11. CursorTypes(e)
    BY <2>1, <2>2, <2>6, <2>10 DEF CursorTypes
  <2>12. CursorAdds(e)
    <3>1. Honest => a \o (b \o d) = Whole(r.query)
      BY <2>1, <2>4, <2>7 DEF EndingAdds
    <3>2. Honest => (a \o b) \o d = Whole(r.query)
      BY <2>9, <3>1 DEF Groups
    <3> QED BY <2>4, <2>7, <2>10, <3>2 DEF CursorAdds
  <2>13. \A n \in DOMAIN cursors' : CursorTypes(cursors'[n]) /\ CursorAdds(cursors'[n])
    BY <1>10, <2>11, <2>12, InsertFits
  <2> QED BY <1>2, <1>3, <1>6, <1>7, <1>10, <2>13, ListingMoves
<1>11. \/ Becomes(c, Failed(r, "Canceled")) /\ cursors' = cursors
       \/ Becomes(c, s) /\ (Insert(e) \/ cursors' = cursors)
  BY <1>1, <1>5, <1>9 DEF FinishListing, store
<1> QED BY <1>4, <1>8, <1>10, <1>11

\* What a call does on its way to the service and there.
LEMMA WorkLists ==
  ASSUME DiscoveryInv, ListingInv, NEW c \in Calls,
         \/ Acquire(c) \/ ReadSecret(c) \/ NextRemote(c) \/ Interrupted(c) \/ Broken(c) \/ Retry(c)
         \/ Refused(c) \/ PageRejected(c) \/ ReceivePage(c) \/ ReceiveRepository(c)
  PROVE  ListingInv'
<1>1. PICK r : r = call[c]
  OBVIOUS
<1>2. DOMAIN r = Fields /\ ListingFits(r) /\ MatchFits(r) /\ DiscoveryTypes /\ upstream \in Layouts
  BY <1>1 DEF DiscoveryInv, DiscoveryTypes, ListingInv
<1>3. upstream' = upstream /\ cursors' = cursors
  BY DEF Acquire, ReadSecret, NextRemote, Interrupted, Broken, Retry, Refused, PageRejected,
         ReceivePage, ReceiveRepository, store, bounds
<1> DEFINE Goal == \E s : DOMAIN s = Fields /\ ListingFits(s) /\ Becomes(c, s)
<1>4. ASSUME Goal PROVE ListingInv'
  BY <1>2, <1>3, <1>4, ListingGoes
<1>5. \A e : e # "Done" => ListingFits(Failed(r, e)) /\ DOMAIN Failed(r, e) = Fields
  BY FailedFits
<1>6. \A pc : Kept(To(r, pc), r) /\ To(r, pc).pc = pc /\ DOMAIN To(r, pc) = Fields
  BY <1>2, ToKeeps
<1>7. CASE Acquire(c)
  <2>1. /\ r.pc = "Permit"
        /\ Becomes(c, Failed(r, "Canceled")) \/ Becomes(c, To(r, "Secret"))
    BY <1>1, <1>7 DEF Acquire
  <2>2. ListingFits(To(r, "Secret"))
    BY <1>2, <1>6, <2>1, ListingGoesOn
  <2> QED BY <1>4, <1>5, <1>6, <2>1, <2>2
<1>8. CASE ReadSecret(c)
  <2>1. r.pc = "Secret"
    BY <1>1, <1>8 DEF ReadSecret
  <2>2. \/ Becomes(c, Failed(r, "SecretStore"))
        \/ r.kind = "List" /\ Becomes(c, StartListing(r))
        \/ r.kind # "List" /\ Becomes(c, To(r, "Remote"))
    BY <1>1, <1>8 DEF ReadSecret
  <2>3. r.kind = "List" => ListingFits(StartListing(r)) /\ DOMAIN StartListing(r) = Fields
    BY <1>2, <2>1, StartListingFits
  <2>4. r.kind # "List" => ListingFits(To(r, "Remote"))
    BY <1>6, MatchesFit DEF Kept
  <2> QED BY <1>4, <1>5, <1>6, <2>2, <2>3, <2>4
<1>9. CASE NextRemote(c)
  <2>1. r.pc = "Remote" /\ r.kind = "Match"
    BY <1>1, <1>2, <1>9 DEF NextRemote, MatchFits
  <2>2. CASE Becomes(c, Failed(r, "Canceled"))
    BY <1>4, <1>5, <2>2
  <2>3. PICK t, u : t = To(r, "Leave") /\ u = To(r, "Send")
    OBVIOUS
  <2>4. /\ DOMAIN t = Fields /\ t.kind = "Match" /\ t.pc = "Leave"
        /\ DOMAIN u = Fields /\ u.kind = "Match" /\ u.pc = "Send"
    BY <1>6, <2>1, <2>3 DEF Kept
  <2>5. PICK s : s \in {[t EXCEPT !.outcome = "Done"], [u EXCEPT !.attempt = 1],
                        [r EXCEPT !.suggestions = Append(@, Suggestion(r))]}
                 /\ (Becomes(c, Failed(r, "Canceled")) \/ Becomes(c, s))
    BY <1>1, <1>9, <2>3 DEF NextRemote
  <2>6. DOMAIN s = Fields /\ s.kind = "Match" /\ s.pc \in {"Leave", "Send", "Remote"}
    BY <1>2, <2>1, <2>4, <2>5, FieldFacts
  <2>7. ListingFits(s)
    BY <2>6, MatchesFit
  <2> QED BY <1>4, <2>2, <2>5, <2>6, <2>7
<1>10. \A e : r.pc \in AtTheService /\ e # "Done" /\ Unanswered(c, e) => Goal
  BY <1>1, UnansweredLists
<1>11. CASE Interrupted(c)
  <2>1. r.pc \in AtTheService
    BY <1>1, <1>11 DEF Interrupted
  <2>2. \/ Unanswered(c, "Canceled") \/ Unanswered(c, "Unreachable")
        \/ Becomes(c, Failed(r, "Canceled"))
    BY <1>1, <1>11 DEF Interrupted
  <2> QED BY <1>4, <1>5, <1>10, <2>1, <2>2
<1>12. CASE Broken(c)
  <2>1. /\ r.pc \in AtTheService
        /\ Becomes(c, To(r, "Backoff")) \/ Unanswered(c, "Unreachable")
    BY <1>1, <1>12 DEF Broken, AtTheService
  <2>2. ListingFits(To(r, "Backoff"))
    BY <1>2, <1>6, <2>1, ListingGoesOn DEF AtTheService
  <2> QED BY <1>4, <1>6, <1>10, <2>1, <2>2
<1>13. CASE Retry(c)
  <2>1. r.pc = "Backoff" /\ Becomes(c, [To(r, "Send") EXCEPT !.attempt = @ + 1])
    BY <1>1, <1>13 DEF Retry
  <2>2. PICK t : t = To(r, "Send")
    OBVIOUS
  <2>3. PICK s : s = [t EXCEPT !.attempt = @ + 1]
    OBVIOUS
  <2>4. Kept(s, r) /\ s.pc = "Send" /\ DOMAIN s = Fields
    <3>1. Kept(t, r) /\ t.pc = "Send" /\ DOMAIN t = Fields
      BY <1>6, <2>2
    <3> QED BY <2>3, <3>1, FieldFacts DEF Kept
  <2>5. ListingFits(s)
    BY <1>2, <2>1, <2>4, ListingGoesOn DEF AtTheService
  <2> QED BY <1>4, <2>1, <2>2, <2>3, <2>4, <2>5
<1>14. CASE Refused(c)
  <2>1. r.pc \in AtTheService /\ \E e : e # "Done" /\ Unanswered(c, e)
    BY <1>1, <1>14, DiscoveryAssumption DEF Refused, AtTheService
  <2> QED BY <1>4, <1>10, <2>1
<1>17. CASE PageRejected(c)
  <2>1. Becomes(c, Failed(r, "InvalidResponse"))
    BY <1>1, <1>17 DEF PageRejected
  <2> QED BY <1>4, <1>5, <2>1
<1>15. CASE ReceivePage(c)
  <2>1. r.pc = "Send" /\ r.kind = "List" /\ Becomes(c, PageRead(r))
    BY <1>1, <1>15 DEF ReceivePage
  <2>2. ListingFits(PageRead(r)) /\ DOMAIN PageRead(r) = Fields
    BY <1>2, <2>1, PageReadFits
  <2> QED BY <1>4, <2>1, <2>2
<1>16. CASE ReceiveRepository(c)
  <2>1. r.pc = "Send" /\ r.kind = "Match"
    BY <1>1, <1>16 DEF ReceiveRepository
  <2>2. Unanswered(c, "Permission") \/ \E answer : Becomes(c, Answered(r, answer))
    BY <1>1, <1>16 DEF ReceiveRepository
  <2>3. ASSUME NEW answer, answer \in Resolved
        PROVE  ListingFits(Answered(r, answer)) /\ DOMAIN Answered(r, answer) = Fields
    <3>1. Moved(Answered(r, answer), r)
      BY <1>2, <2>1, <2>3, AnsweredMoves DEF AtTheService
    <3>2. Answered(r, answer).pc \in {"Send", "Remote"}
      BY <1>2, AnsweredGoes
    <3> QED BY <2>1, <3>1, <3>2, MatchesFit DEF Moved, Same
  <2>4. \/ Unanswered(c, "Permission")
        \/ \E answer : answer \in Resolved /\ Becomes(c, Answered(r, answer))
    <3>1. PICK q \in Seq(Resolved) : q = r.answers
      BY <1>2 DEF MatchFits
    <3>2. RemoteOf(r) \in DOMAIN Locals /\ Len(q) < Len(AddressesOf(r))
      BY <1>2, <2>1, <3>1 DEF MatchFits, AtTheService
    <3>3. PICK a \in Seq(Resolved) : a = AddressesOf(r)
      BY <3>2, DiscoveryAssumption DEF AddressesOf
    <3>4. Len(q) + 1 \in DOMAIN a
      BY <3>2, <3>3
    <3>5. a[Len(q) + 1] \in Resolved
      BY <3>3, <3>4
    <3>6. Unanswered(c, "Permission") \/ Becomes(c, Answered(r, a[Len(q) + 1]))
      BY <1>1, <1>16, <3>1, <3>3 DEF ReceiveRepository
    <3> QED BY <3>5, <3>6
  <2> QED BY <1>4, <1>10, <2>1, <2>3, <2>4 DEF AtTheService
<1> QED BY <1>7, <1>8, <1>9, <1>11, <1>12, <1>13, <1>14, <1>15, <1>16, <1>17

\* A call that leaves.
LEMMA LeaveLists ==
  ASSUME DiscoveryInv, ListingInv, NEW c \in Calls, Leave(c) \/ Notify(c)
  PROVE  ListingInv'
<1>1. upstream' = upstream /\ cursors' = cursors
  BY DEF Leave, Notify, store, bounds
<1>2. DOMAIN Resting = Fields /\ Resting.pc = "Idle"
  BY FieldFacts DEF Fields
<1>3. PICK s, t : s = To(Resting, "Notify") /\ t = Resting
  OBVIOUS
<1>4. s.pc = "Notify" /\ DOMAIN s = Fields /\ t.pc = "Idle" /\ DOMAIN t = Fields
  BY <1>2, <1>3, ToKeeps
<1>5. ListingFits(s) /\ ListingFits(t)
  BY <1>4, RestingLists
<1>6. Becomes(c, s) \/ Becomes(c, t)
  BY <1>3 DEF Leave, Notify
<1> QED BY <1>1, <1>4, <1>5, <1>6, ListingGoes DEF DiscoveryInv

\* At first nothing was listed.
LEMMA ListingStarts == ASSUME DiscoveryInit PROVE ListingInv
<1>1. \A c \in Calls : call[c] = Resting
  BY DEF DiscoveryInit
<1>2. Resting.pc = "Idle"
  BY FieldFacts
<1>3. \A c \in Calls : ListingFits(call[c])
  BY <1>1, <1>2, RestingLists
<1> QED BY <1>3 DEF DiscoveryInit, ListingInv

\* What a listing has given, what it has left over and what the service still
\* has add up to the whole, at every step of it and at every cursor.
THEOREM ListingInvariant == DiscoverySpec => []ListingInv
<1>1. ASSUME DiscoveryInv, ListingInv, [DiscoveryNext]_discoveryVars PROVE ListingInv'
  <2>1. CASE UNCHANGED discoveryVars
    BY <1>1, <2>1, ListingRests DEF discoveryVars
  <2>2. ASSUME NEW c \in Calls, CallStep(c) PROVE ListingInv'
    BY <1>1, <2>2, AskLists, LookupLists, WorkLists, FinishLists, LeaveLists DEF CallStep
  <2>3. ASSUME NEW d \in Drains, DrainStep(d) PROVE ListingInv'
    BY <1>1, <2>3, ListingRests
       DEF DrainStep, Begin, CancelMatching, Listen, Check, Wake, store, bounds
  <2>4. CASE \/ RevocationEnds \/ DeleteSecret \/ DeleteRow \/ Forget
             \/ CancelOperation \/ Grant \/ TimePasses
    BY <1>1, <2>4, ListingRests
       DEF RevocationEnds, DeleteSecret, DeleteRow, Forget, CancelOperation, Grant, TimePasses,
           store, bounds
  <2> QED BY <1>1, <2>1, <2>2, <2>3, <2>4 DEF DiscoveryNext
<1> QED BY <1>1, DiscoveryInvariant, ListingStarts, PTL DEF DiscoverySpec

\* Following the cursors of a listing gives every matching repository once, in
\* the order of the service (list_repositories).
THEOREM PagesAlwaysAddUp == DiscoverySpec => []PagesAddUp
<1>1. ASSUME ListingInv, Honest PROVE PagesAddUp
  <2>1. ASSUME NEW n \in DOMAIN cursors
        PROVE  LET e == cursors[n] IN
               e.before \o e.buffered \o From(e.query, e.next) = Whole(e.query)
    <3>1. PICK e : e = cursors[n]
      OBVIOUS
    <3>2. CursorTypes(e) /\ CursorAdds(e)
      BY <1>1, <2>1, <3>1 DEF ListingInv
    <3>3. PICK A, f : A = Seq(Wanted[e.query]) /\ f = From(e.query, e.next)
      OBVIOUS
    <3>4. PICK a, b : a = e.before /\ b = e.buffered
      OBVIOUS
    <3>5. a \in A /\ b \in A /\ f \in A
      BY <1>1, <3>2, <3>3, <3>4, FromTypes DEF CursorTypes, ListingInv
    <3>6. Groups(a, b, f)
      BY <3>3, <3>5, SequencesGroup, GroupsAll
    <3>7. a \o (b \o f) = Whole(e.query)
      BY <1>1, <3>2, <3>3, <3>4 DEF CursorAdds
    <3> QED BY <3>1, <3>3, <3>4, <3>6, <3>7 DEF Groups
  <2>2. ASSUME NEW c \in Calls, call[c].pc = "Leave", call[c].kind = "List",
               call[c].outcome = "Done"
        PROVE  LET r == call[c] IN
               IF HasMore(r) THEN Len(r.items) = Size[r.query]
               ELSE r.before \o r.items = Whole(r.query)
    <3>1. PICK r : r = call[c]
      OBVIOUS
    <3>2. CursorTypes(r) /\ r.items \in Seq(Wanted[r.query]) /\ EndingAdds(r)
      BY <1>1, <2>2, <3>1 DEF ListingInv, ListingFits, Listing, Keeps
    <3>3. HasMore(r) => Len(r.items) = Size[r.query]
      BY <1>1, <2>2, <3>1 DEF ListingInv, ListingFits, Listing, Keeps
    <3>4. ASSUME ~HasMore(r) PROVE r.before \o r.items = Whole(r.query)
      <4>1. r.buffered = <<>> /\ r.next = 0
        BY <3>4 DEF HasMore
      <4>2. From(r.query, r.next) = <<>>
        BY <1>1, <4>1, FromFacts DEF ListingInv
      <4>3. r.before \o (r.items \o (<<>> \o <<>>)) = Whole(r.query)
        BY <1>1, <3>2, <4>1, <4>2 DEF EndingAdds
      <4>4. PICK items \in Seq(Wanted[r.query]) : items = r.items
        BY <3>2
      <4>5. items \o (<<>> \o <<>>) = items
        <5>1. <<>> \o <<>> = <<>>
          BY ConcatEmptySeq
        <5>2. items \o <<>> = items
          BY ConcatEmptySeq
        <5> QED BY <5>1, <5>2
      <4> QED BY <4>3, <4>4, <4>5
    <3> QED BY <3>1, <3>3, <3>4
  <2> QED BY <1>1, <2>1, <2>2 DEF PagesAddUp
<1>2. ListingInv => PagesAddUp
  BY <1>1 DEF PagesAddUp
<1> QED BY <1>2, ListingInvariant, PTL
=============================================================================
