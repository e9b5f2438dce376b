-------------------------- MODULE TransportProfiles --------------------------
(***************************************************************************)
(* TransportProfileService (git/transport/profile_service.rs, config.rs):  *)
(* a profile bound to a repository is written, key by key, into the local  *)
(* Git configuration, and what was there before is kept in the binding for *)
(* the day it is unbound.  One lifecycle lock lets one operation at a time *)
(* go on; but the configuration is a file that anybody may edit, git may   *)
(* fail on any key, the database may fail when all keys are written, and   *)
(* the process may die in between.  What cannot be written back leaves a   *)
(* repair record.                                                          *)
(*                                                                         *)
(* A managed key has at most one value here (the code refuses others), and *)
(* every profile fits the remote.  `base` and `tampered` are not in the    *)
(* code: what the user would have without Git-Ramus, and whether somebody  *)
(* else has edited a bound configuration ("edited"), or did so under an    *)
(* operation, or a crash or a lost repair record left it so ("lost").      *)
(***************************************************************************)
EXTENDS Naturals

CONSTANTS
  Repositories,
  Keys,         \* the managed keys, numbered in the order they are written in
  Profiles,
  Contents,     \* the managed fields of a profile, as the value of every key
  Outside,      \* a value the user has given to a key
  Unset,        \* no value
  None,
  MaxEvents     \* bound: how many edits and crashes there are

ASSUME ProfilesAssumption ==
  /\ Keys \subseteq Nat
  /\ Outside \notin Contents /\ Unset \notin Contents /\ None \notin Contents
  /\ Outside # Unset
  /\ None \notin Profiles /\ None \notin Repositories
  /\ MaxEvents \in Nat

VARIABLES
  config,     \* repository -> the values of the managed keys
  profiles,   \* profile -> its content, or None
  bindings,   \* repository -> its row, or NoBinding
  repairs,    \* repositories with an unresolved repair record
  op,         \* the bind, unbind or reapply that is writing
  deleting,   \* the delete_profile that goes from one of those to the next
  base, tampered,
  events      \* edits and crashes so far

lockVars == <<op, deleting>>
vars == <<config, profiles, bindings, repairs, op, deleting, base, tampered, events>>

Empty == [k \in Keys |-> Unset]

NoBinding == [profile |-> None]

\* An operation has its repository, its step, the configuration it wants
\* (target), found (restore) and goes by (expected), the row it is going to
\* save, and whether it is undoing what it did.
NoOp == [repo |-> None]

NoDeletion  == [profile |-> None]
Resolutions == Profiles \cup {"reject", "keepExternal"}

IsBound(r)   == bindings[r] # NoBinding
Drifted(r)   == IsBound(r) /\ config[r] # bindings[r].applied
BoundTo(p)   == {r \in Repositories : bindings[r].profile = p}
Desired(p)   == [k \in Keys |-> profiles[p]]

\* The row of a binding: what was there before, what is applied, and whether
\* a drift has been noticed.
NewBinding(p, before) ==
  [profile |-> p, before |-> before, applied |-> Desired(p), drifted |-> FALSE]

Free         == op = NoOp /\ deleting = NoDeletion
RepoFree(r)  == op.repo # r

Init ==
  /\ config \in [Repositories -> {Empty, [k \in Keys |-> Outside]}]
  /\ profiles = [p \in Profiles |-> None]
  /\ bindings = [r \in Repositories |-> NoBinding]
  /\ repairs = {}
  /\ op = NoOp
  /\ deleting = NoDeletion
  /\ base = config
  /\ tampered = [r \in Repositories |-> "no"]
  /\ events = 0

-----------------------------------------------------------------------------
\* create_ssh_profile, create_https_profile.
Create(p, content) ==
  /\ Free
  /\ profiles[p] = None
  /\ profiles' = [profiles EXCEPT ![p] = content]
  /\ UNCHANGED <<config, bindings, repairs, lockVars, base, tampered, events>>

\* update_ssh_profile, update_https_profile, when managed fields change.
\* Mutant: the lifecycle lock is not taken.
Update_Unlocked(p, content) ==
  /\ profiles[p] \notin {None, content}
  /\ BoundTo(p) = {}
  /\ profiles' = [profiles EXCEPT ![p] = content]
  /\ UNCHANGED <<config, bindings, repairs, lockVars, base, tampered, events>>

Update(p, content) ==
  /\ Free
  /\ profiles[p] \notin {None, content}
  /\ BoundTo(p) = {}
  /\ profiles' = [profiles EXCEPT ![p] = content]
  /\ UNCHANGED <<config, bindings, repairs, lockVars, base, tampered, events>>

\* An operation that writes, from its checks on.
Launch(r, target, row) ==
  /\ op' = [repo |-> r, step |-> "read", target |-> target, restore |-> config[r],
            expected |-> config[r], row |-> row, undoing |-> FALSE]
  /\ UNCHANGED <<config, bindings, base, tampered, events>>

\* mark_binding_drifted, which may fail.
MarkDrifted(r) == bindings' = [bindings EXCEPT ![r].drifted = TRUE] \/ UNCHANGED bindings

\* bind_repository_locked up to its first write.
\* Mutant: the baseline of a switch is the configuration of the profile
\* bound before.
StartBind_OwnBaseline(r, p, replace) ==
  /\ r \notin repairs
  /\ profiles[p] # None
  /\ ~Drifted(r)
  /\ IsBound(r) \/ config[r] \in {Empty, Desired(p)} \/ replace
  /\ Launch(r, Desired(p),
       NewBinding(p, config[r]))

StartBind(r, p, replace) ==
  /\ r \notin repairs
  /\ profiles[p] # None
  /\ ~Drifted(r)
  /\ IsBound(r) \/ config[r] \in {Empty, Desired(p)} \/ replace
  /\ Launch(r, Desired(p),
       NewBinding(p, IF IsBound(r) THEN bindings[r].before ELSE config[r]))

\* unbind_repository, of a binding nobody has tampered with ...
StartUnbind(r) ==
  /\ IsBound(r)
  /\ ~Drifted(r)
  /\ Launch(r, bindings[r].before, NoBinding)

\* ... and the three answers to a drift, which is marked first.
StartReapply(r) ==
  /\ Drifted(r)
  /\ Launch(r, bindings[r].applied, [bindings[r] EXCEPT !.drifted = FALSE])

KeepExternal(r) ==
  /\ Drifted(r)
  /\ bindings' = [bindings EXCEPT ![r] = NoBinding]
  /\ base' = [base EXCEPT ![r] = config[r]]
  /\ tampered' = [tampered EXCEPT ![r] = "no"]
  /\ UNCHANGED <<config, op, events>>

\* A drift that is refused, or an answer that fails half-way.
RefuseDrift(r) ==
  /\ Drifted(r)
  /\ MarkDrifted(r)
  /\ UNCHANGED <<config, op, base, tampered, events>>

Bind(r, p) ==
  /\ Free
  /\ \E replace \in BOOLEAN : StartBind(r, p, replace)
  /\ UNCHANGED <<profiles, repairs, deleting>>

Unbind(r) ==
  /\ Free
  /\ StartUnbind(r) \/ StartReapply(r) \/ KeepExternal(r) \/ RefuseDrift(r)
  /\ UNCHANGED <<profiles, repairs, deleting>>

\* effective_for_repository_locked, of a command or of a network operation:
\* it wants the lock of the repository, not that of the profiles.
NoticeDrift(r) ==
  /\ RepoFree(r)
  /\ Drifted(r)
  /\ bindings' = [bindings EXCEPT ![r].drifted = TRUE]
  /\ UNCHANGED <<config, profiles, repairs, lockVars, base, tampered, events>>

-----------------------------------------------------------------------------
\* write_managed_snapshot.  It reads once more, and goes by what it reads.
Step(step) == op' = [op EXCEPT !.step = step]

\* write_with_compensation and compensate_or_partial: a failure is undone by
\* writing back what the operation had found; if that fails too a repair
\* record is due.
Fail ==
  /\ IF op.undoing
       THEN Step("repair")
       ELSE op' = [op EXCEPT !.undoing = TRUE, !.target = op.restore, !.step = "read"]
  /\ UNCHANGED deleting

\* A compensation that worked: the operation has failed, and with it the
\* deletion it was a part of.
Restored == op' = NoOp /\ deleting' = NoDeletion

Continue(expected) ==
  LET now == [op EXCEPT !.expected = expected] IN
  IF expected # op.target THEN op' = [now EXCEPT !.step = "write"] /\ UNCHANGED deleting
  ELSE IF op.undoing THEN Restored
  ELSE op' = [now EXCEPT !.step = "save"] /\ UNCHANGED deleting

ReadConfig ==
  /\ op # NoOp /\ op.step = "read"
  /\ Continue(config[op.repo]) \/ Fail
  /\ UNCHANGED <<config, profiles, bindings, repairs, base, tampered, events>>

NextKey == CHOOSE k \in Keys : op.expected[k] # op.target[k]
             /\ \A j \in Keys : j < k => op.expected[j] = op.target[j]

\* One `git config`: it writes the key, or fails before or after that.
WriteKey ==
  /\ op # NoOp /\ op.step = "write"
  /\ LET k == NextKey
         written == [config EXCEPT ![op.repo][k] = op.target[k]]
     IN \/ /\ config' = written
           /\ op' = [op EXCEPT !.expected[k] = op.target[k], !.step = "verify"]
           /\ UNCHANGED deleting
        \/ config' \in {config, written} /\ Fail
  /\ UNCHANGED <<profiles, bindings, repairs, base, tampered, events>>

\* Every key is read back.
VerifyKey ==
  /\ op # NoOp /\ op.step = "verify"
  /\ (config[op.repo] = op.expected /\ Continue(op.expected)) \/ Fail
  /\ UNCHANGED <<config, profiles, bindings, repairs, base, tampered, events>>

\* upsert_binding or delete_binding; when it fails the keys are written back.
SaveRow ==
  /\ op # NoOp /\ op.step = "save"
  /\ \/ /\ bindings' = [bindings EXCEPT ![op.repo] = op.row]
        /\ tampered' = [tampered EXCEPT ![op.repo] = IF @ = "edited" THEN "no" ELSE @]
        /\ op' = NoOp
        /\ UNCHANGED deleting
     \/ Fail /\ UNCHANGED <<bindings, tampered>>
  /\ UNCHANGED <<config, profiles, repairs, base, events>>

\* insert_repair, whose own failure nobody hears of.
RecordRepair ==
  /\ op # NoOp /\ op.step = "repair"
  /\ \/ repairs' = repairs \cup {op.repo} /\ UNCHANGED tampered
     \/ tampered' = [tampered EXCEPT ![op.repo] = "lost"] /\ UNCHANGED repairs
  /\ op' = NoOp
  /\ deleting' = NoDeletion
  /\ UNCHANGED <<config, profiles, bindings, base, events>>

-----------------------------------------------------------------------------
\* delete_profile: a resolution for every repository that is bound, all of
\* them checked before the first is carried out.
BeginDelete(p) ==
  /\ Free
  /\ profiles[p] # None
  /\ \E plan \in [BoundTo(p) -> Resolutions \ {p}] :
       LET Rejecting == {r \in BoundTo(p) : plan[r] # "keepExternal" /\ Drifted(r)} IN
       /\ \A r \in BoundTo(p) : plan[r] \in Profiles => profiles[plan[r]] # None
       /\ IF Rejecting = {}
            THEN deleting' = [profile |-> p, plan |-> plan] /\ UNCHANGED bindings
            ELSE (\E r \in Rejecting : MarkDrifted(r)) /\ UNCHANGED deleting
  /\ UNCHANGED <<config, profiles, repairs, op, base, tampered, events>>

\* The next repository of the plan; a refusal ends the deletion.
DeleteNext(r) ==
  /\ op = NoOp
  /\ deleting # NoDeletion
  /\ r \in DOMAIN deleting.plan
  /\ LET resolution == deleting.plan[r]
         rest == [s \in DOMAIN deleting.plan \ {r} |-> deleting.plan[s]]
     IN \/ /\ \/ resolution \in Profiles /\ StartBind(r, resolution, TRUE)
              \/ resolution \notin Profiles /\ StartUnbind(r)
              \/ resolution = "keepExternal" /\ KeepExternal(r)
           /\ deleting' = [deleting EXCEPT !.plan = rest]
        \/ /\ RefuseDrift(r) \/ UNCHANGED <<config, bindings, op, base, tampered, events>>
           /\ deleting' = NoDeletion
  /\ UNCHANGED <<profiles, repairs>>

\* The profile goes if no binding to it is left.  Mutant: in the other order,
\* it goes while its repositories are still to be resolved.
DeleteLast_First ==
  /\ op = NoOp
  /\ deleting # NoDeletion
  /\ profiles' = [profiles EXCEPT ![deleting.profile] = None]
  /\ deleting' = NoDeletion
  /\ UNCHANGED <<config, bindings, repairs, op, base, tampered, events>>

DeleteLast ==
  /\ op = NoOp
  /\ deleting # NoDeletion
  /\ DOMAIN deleting.plan = {}
  /\ \/ /\ BoundTo(deleting.profile) = {}
        /\ profiles' = [profiles EXCEPT ![deleting.profile] = None]
     \/ UNCHANGED profiles
  /\ deleting' = NoDeletion
  /\ UNCHANGED <<config, bindings, repairs, op, base, tampered, events>>

-----------------------------------------------------------------------------
\* The user edits the configuration of the repository.
Edit(r) ==
  /\ \E k \in Keys, value \in {Outside, Unset} :
       config' = [config EXCEPT ![r][k] = value]
  /\ \/ /\ op.repo = r
        /\ tampered' = [tampered EXCEPT ![r] = "lost"] /\ UNCHANGED base
     \/ /\ RepoFree(r) /\ IsBound(r)
        /\ tampered' = [tampered EXCEPT ![r] = IF @ = "no" THEN "edited" ELSE @]
        /\ UNCHANGED base
     \/ /\ RepoFree(r) /\ ~IsBound(r)
        /\ base' = [base EXCEPT ![r] = config'[r]] /\ UNCHANGED tampered
  /\ events < MaxEvents /\ events' = events + 1
  /\ UNCHANGED <<profiles, bindings, repairs, lockVars>>

\* The process dies, and nothing is looked at when it starts again.
Crash ==
  /\ ~Free
  /\ events < MaxEvents /\ events' = events + 1
  /\ op' = NoOp
  /\ deleting' = NoDeletion
  /\ tampered' = [r \in Repositories |-> IF op.repo = r THEN "lost" ELSE tampered[r]]
  /\ UNCHANGED <<config, profiles, bindings, repairs, base>>

Next ==
  \/ \E p \in Profiles :
       \/ \E content \in Contents : Create(p, content) \/ Update(p, content)
       \/ \E r \in Repositories : Bind(r, p)
       \/ BeginDelete(p)
  \/ \E r \in Repositories : Unbind(r) \/ NoticeDrift(r) \/ DeleteNext(r) \/ Edit(r)
  \/ ReadConfig \/ WriteKey \/ VerifyKey \/ SaveRow \/ RecordRepair
  \/ DeleteLast
  \/ Crash

Spec == Init /\ [][Next]_vars

-----------------------------------------------------------------------------
\* A binding is to a profile that exists, and what it has applied is what the
\* profile says: managed fields do not change under a bind that is still
\* writing them, and a profile is not deleted from under a repository.
BindingsFitProfiles ==
  \A r \in Repositories : IsBound(r) =>
    /\ profiles[bindings[r].profile] # None
    /\ bindings[r].applied = Desired(bindings[r].profile)

\* Between operations the configuration of a repository is what its profile
\* says, or, if it has none, what the user had before the first of the
\* profiles it was bound to: switches, failures on any key and failures of
\* the database change nothing about that, unless a repair record says so.
\* What a user has edited is the user's, but what unbinding will give back
\* is still what was there before.
ConfigIsAccounted ==
  \A r \in Repositories \ repairs : RepoFree(r) /\ tampered[r] # "lost" =>
    /\ IsBound(r) => /\ bindings[r].before = base[r]
                     /\ tampered[r] = "no" => config[r] = bindings[r].applied
    /\ ~IsBound(r) => config[r] = base[r]
=============================================================================
