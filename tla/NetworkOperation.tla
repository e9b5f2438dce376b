-------------------------- MODULE NetworkOperation --------------------------
(***************************************************************************)
(* fetch, pull and push (git/transport/service.rs, execute_network)        *)
(* together with everything they share: the operation registry, the write  *)
(* lock of each repository, the job table, the snapshots, the local writes *)
(* and refreshes of GitService, the cancel command of the plugins, the     *)
(* Cancel button of the Task Center, and the death and restart of the      *)
(* application.                                                            *)
(*                                                                         *)
(* A call is named by the registry guard it runs under, an operation and   *)
(* its job by the operation id, which the caller chooses and may choose    *)
(* again.  Calls are numbered in the order in which they begin, and ids in *)
(* the order in which they are first used.  An early return drops the      *)
(* write lock before the registry guard; nobody can tell that from one     *)
(* step.  The progress git reports to its job is left to BackgroundJobs:   *)
(* nothing here depends on it.                                             *)
(***************************************************************************)
EXTENDS AppState, OperationRegistry

CONSTANTS
  Writers,        \* local writes and refreshes, each happening once
  SnapshotKinds   \* the kinds that read the stored snapshot: pull and push

ASSUME NetworkAssumption ==
  /\ Ids \subseteq JobIds
  /\ Guards \subseteq Nat /\ Ids \subseteq Nat
  /\ SnapshotKinds \subseteq TransportKinds
  /\ Writers \cap Guards = {}
  /\ None \notin Writers

VARIABLES
  pc,         \* call -> the step execute_network is at
  repo,       \* call or writer -> the repository it works on
  exit,       \* call -> how its git ended, "partial" if its refresh failed
  created,    \* the calls that created the job of their id
  lock,       \* repository -> who holds its write lock
  snapshot,   \* repository -> what its newest snapshot row is worth
  pending,    \* ids that the cancel command has still to flag in the table
  dropped     \* calls that could not write their job

callVars == <<pc, repo, exit, created, lock, snapshot, pending, dropped>>
vars == <<appVars, regVars, callVars>>

InFlight == {"bind", "lock", "prepare", "start", "spawn", "running", "refresh",
             "refreshing", "state", "settle", "finish", "drop", "cancelJob",
             "succeed", "seal"}

\* A snapshot is "current"; or "outdated": Git has changed the repository
\* since, and the row hides it; "failed": the row says that a refresh failed; "lost": outdated for good,
\* because the process died or the store failed before the refresh.

Init ==
  /\ AppInit
  /\ RegInit
  /\ pc = [c \in Guards \cup Writers |-> "idle"]
  /\ repo = [c \in Guards \cup Writers |-> None]
  /\ exit = [g \in Guards |-> "none"]
  /\ created = {}
  /\ lock = [r \in Resources |-> None]
  /\ snapshot = [r \in Resources |-> "current"]
  /\ pending = {}
  /\ dropped = {}

Op(g) == guard[g].id

At(g, step) == IsUp /\ pc[g] = step

Goto(g, step) == pc' = [pc EXCEPT ![g] = step]

Unlock(r) == lock' = [lock EXCEPT ![r] = None]

-----------------------------------------------------------------------------
\* The command reserves its id before it hands the call to a worker thread.
Begin(g) ==
  /\ At(g, "idle")
  /\ \A h \in Guards : h < g => pc[h] # "idle"
  /\ \E id \in Ids, plugin \in Plugins, domain \in Domains :
       /\ \A i \in Ids : i < id => \E h \in Guards : Op(h) = i
       /\ Reserve(g, id, plugin, domain)
  /\ \E r \in Resources : repo' = [repo EXCEPT ![g] = r]
  /\ Goto(g, "bind")
  /\ UNCHANGED <<appVars, exit, created, lock, snapshot, pending, dropped>>

Bind(g) ==
  /\ At(g, "bind")
  /\ BindResource(g, repo[g])
  /\ Goto(g, "lock")
  /\ UNCHANGED <<appVars, repo, exit, created, lock, snapshot, pending, dropped>>

\* Mutant: the repository lock is not tried.
TryLock_Skipped(g) ==
  /\ At(g, "lock")
  /\ lock' = [lock EXCEPT ![repo[g]] = g]
  /\ Goto(g, "prepare")
  /\ UNCHANGED <<appVars, regVars, repo, exit, created, snapshot, pending, dropped>>

TryLock(g) ==
  /\ At(g, "lock")
  /\ lock[repo[g]] = None
  /\ lock' = [lock EXCEPT ![repo[g]] = g]
  /\ Goto(g, "prepare")
  /\ UNCHANGED <<appVars, regVars, repo, exit, created, snapshot, pending, dropped>>

\* prepare (pull and push insist on a snapshot without an error) and
\* create_with_id, which refuses an id that has had a job before.
Prepare(g) ==
  /\ At(g, "prepare")
  /\ \E kind \in TransportKinds :
       /\ kind \in SnapshotKinds => snapshot[repo[g]] # "failed"
       /\ CreateWithId(Op(g), kind)
  /\ created' = created \cup {g}
  /\ Goto(g, "start")
  /\ UNCHANGED <<process, regVars, repo, exit, lock, snapshot, pending, dropped>>

\* The early returns before there is a job: an untrusted repository, a busy
\* or canceled operation, a busy lock, a refused preflight, a used job id.
Reject(g) ==
  /\ IsUp
  /\ \/ pc[g] \in {"bind", "prepare"}
     \/ pc[g] = "lock" /\ lock[repo[g]] # None
  /\ Release(g)
  /\ IF pc[g] = "prepare" THEN Unlock(repo[g]) ELSE UNCHANGED lock
  /\ Goto(g, "done")
  /\ UNCHANGED <<appVars, repo, exit, created, snapshot, pending, dropped>>

StartJob(g) ==
  /\ At(g, "start")
  /\ Start(Op(g))
  /\ Goto(g, "spawn")
  /\ UNCHANGED <<process, regVars, repo, exit, created, lock, snapshot, pending, dropped>>

\* jobs.start failed: the job was canceled, or the store does not answer;
\* `let _ = jobs.cancel(..)` follows.  Mutant: it does not.
AbandonJob_LeftQueued(g) ==
  /\ At(g, "start")
  /\ Unlocked
  /\ UNCHANGED <<jobVars, dropped>>
  /\ Release(g)
  /\ Unlock(repo[g])
  /\ Goto(g, "done")
  /\ UNCHANGED <<process, repo, exit, created, snapshot, pending>>

AbandonJob(g) ==
  /\ At(g, "start")
  /\ Unlocked
  /\ \/ Cancel(Op(g)) /\ UNCHANGED dropped
     \/ HasStatus(Op(g), Terminal) /\ UNCHANGED <<jobVars, dropped>>
     \/ UNCHANGED jobVars /\ dropped' = dropped \cup {g}
  /\ Release(g)
  /\ Unlock(repo[g])
  /\ Goto(g, "done")
  /\ UNCHANGED <<process, repo, exit, created, snapshot, pending>>

-----------------------------------------------------------------------------
\* runner.run_with_context: the flag is looked at before git is spawned...
Spawn(g) ==
  /\ At(g, "spawn")
  /\ IF g \in cancelled
       THEN /\ exit' = [exit EXCEPT ![g] = "canceled"]
            /\ Unlock(repo[g])
            /\ Goto(g, "refresh")
       ELSE Goto(g, "running") /\ UNCHANGED <<exit, lock>>
  /\ UNCHANGED <<appVars, regVars, repo, created, snapshot, pending, dropped>>

\* ... and git ends by itself, by the flag, or by a time or output limit.  A
\* git that has exited is not looked at for the flag any more.  Whichever way
\* it ended, it may have changed the repository.
GitExits(g) ==
  /\ At(g, "running")
  /\ \E how \in {"ok", "failed", "canceled"} :
       /\ how = "canceled" => g \in cancelled
       /\ exit' = [exit EXCEPT ![g] = how]
  /\ snapshot' = [snapshot EXCEPT ![repo[g]] = "outdated"]
  /\ Goto(g, "refresh")
  /\ UNCHANGED <<appVars, repo, created, pending, dropped>>

\* Mutants: the write lock is not dropped; the registry guard is, with it.
AfterGit_KeepsLock(g) == GitExits(g) /\ UNCHANGED <<regVars, lock>>

AfterGit_DropsGuard(g) == GitExits(g) /\ Unlock(repo[g]) /\ Release(g)

\* drop(repository_guard) follows; the registry guard stays.
AfterGit(g) == GitExits(g) /\ Unlock(repo[g]) /\ UNCHANGED regVars

\* refresh_repository_in_context waits for the lock ...
RefreshLock(g) ==
  /\ At(g, "refresh")
  /\ lock[repo[g]] = None
  /\ lock' = [lock EXCEPT ![repo[g]] = g]
  /\ Goto(g, "refreshing")
  /\ UNCHANGED <<appVars, regVars, repo, exit, created, snapshot, pending, dropped>>

\* What a refresh makes of the newest snapshot row: a new row, a row that
\* records the failure over the last good one, or, when not even that can
\* be written, the row it was.
Publish(r, worth) ==
  snapshot' = [snapshot EXCEPT ![r] = IF worth # "lost" THEN worth
                                      ELSE IF @ = "outdated" THEN "lost" ELSE @]

\* ... and reads the status and publishes it under the lock.
Refresh(g) ==
  /\ At(g, "refreshing")
  /\ \E worth \in {"current", "failed", "lost"} :
       /\ Publish(repo[g], worth)
       /\ exit' = [exit EXCEPT ![g] = IF @ = "ok" /\ worth # "current" THEN "partial" ELSE @]
  /\ Unlock(repo[g])
  /\ Goto(g, IF exit'[g] = "ok" THEN "state" ELSE "settle")
  /\ UNCHANGED <<appVars, regVars, repo, created, pending, dropped>>

\* network_state_from_snapshot: the lock is tried, and the state is read.
ReadState(g) ==
  /\ At(g, "state")
  /\ \/ lock[repo[g]] = None /\ Goto(g, "finish") /\ UNCHANGED exit
     \/ Goto(g, "settle") /\ exit' = [exit EXCEPT ![g] = "partial"]
  /\ UNCHANGED <<appVars, regVars, repo, created, lock, snapshot, pending, dropped>>

-----------------------------------------------------------------------------
\* finish_failed_job and partial_after_operation.  The job may be closed by
\* now, and the store may fail: then it stays as it is.
Settle(g) ==
  /\ At(g, "settle")
  /\ Unlocked
  /\ \/ /\ IF exit[g] = "canceled" THEN Cancel(Op(g)) ELSE Fail(Op(g))
        /\ UNCHANGED dropped
     \/ HasStatus(Op(g), Terminal) /\ UNCHANGED <<jobVars, dropped>>
     \/ UNCHANGED jobVars /\ dropped' = dropped \cup {g}
  /\ Goto(g, "drop")
  /\ UNCHANGED <<process, regVars, repo, exit, created, lock, snapshot, pending>>

DropGuard(g) ==
  /\ At(g, "drop")
  /\ Release(g)
  /\ Goto(g, "done")
  /\ UNCHANGED <<appVars, repo, exit, created, lock, snapshot, pending, dropped>>

\* The last decision between completing and being canceled.
Finish(g) ==
  /\ At(g, "finish")
  /\ FinishIfNotCancelled(g)
  /\ Goto(g, IF told'[g] = "completed" THEN "succeed" ELSE "cancelJob")
  /\ UNCHANGED <<appVars, repo, exit, created, lock, snapshot, pending, dropped>>

CancelOwnJob(g) ==
  /\ At(g, "cancelJob")
  /\ Unlocked
  /\ \/ Cancel(Op(g)) /\ UNCHANGED dropped
     \/ HasStatus(Op(g), Terminal) /\ UNCHANGED <<jobVars, dropped>>
     \/ UNCHANGED jobVars /\ dropped' = dropped \cup {g}
  /\ Goto(g, "done")
  /\ UNCHANGED <<process, regVars, repo, exit, created, lock, snapshot, pending>>

\* jobs.succeed, in its two writes.
Succeed(g) ==
  /\ At(g, "succeed")
  /\ Unlocked
  /\ \/ SucceedStatus(Op(g)) /\ Goto(g, "seal") /\ UNCHANGED dropped
     \/ /\ HasStatus(Op(g), Terminal)
        /\ Goto(g, "done")
        /\ UNCHANGED <<jobVars, dropped>>
     \/ UNCHANGED jobVars /\ Goto(g, "done") /\ dropped' = dropped \cup {g}
  /\ UNCHANGED <<process, regVars, repo, exit, created, lock, snapshot, pending>>

Seal(g) ==
  /\ At(g, "seal")
  /\ \/ SucceedProgress(Op(g)) /\ UNCHANGED dropped
     \/ LoseLock /\ dropped' = dropped \cup {g}
  /\ Goto(g, "done")
  /\ UNCHANGED <<process, regVars, repo, exit, created, lock, snapshot, pending>>

Call(g) ==
  \/ Bind(g) \/ TryLock(g) \/ Prepare(g) \/ Reject(g) \/ StartJob(g) \/ AbandonJob(g)
  \/ Spawn(g) \/ AfterGit(g) \/ RefreshLock(g) \/ Refresh(g)
  \/ ReadState(g) \/ Settle(g) \/ DropGuard(g) \/ Finish(g) \/ CancelOwnJob(g)
  \/ Succeed(g) \/ Seal(g)

-----------------------------------------------------------------------------
\* write_operation (stage, unstage, commit) and refresh of GitService: all
\* their work is done under the lock, whose holder changes nothing outside.
WriterLock(w) ==
  /\ At(w, "idle")
  /\ \E r \in Resources :
       /\ lock[r] = None
       /\ lock' = [lock EXCEPT ![r] = w]
       /\ repo' = [repo EXCEPT ![w] = r]
  /\ Goto(w, "running")
  /\ UNCHANGED <<appVars, regVars, exit, created, snapshot, pending, dropped>>

WriterEnd(w) ==
  /\ At(w, "running")
  /\ \E worth \in {"current", "failed", "lost"} : Publish(repo[w], worth)
  /\ Unlock(repo[w])
  /\ Goto(w, "done")
  /\ UNCHANGED <<appVars, regVars, repo, exit, created, pending, dropped>>

\* git_transport_operation_cancel: the registry first, then the job table.
\* What request_cancel refuses is an error for the caller and changes nothing.
CancelCommand(id) ==
  /\ IsUp
  /\ \E plugin \in Plugins, domain \in Domains : CancelOwned(id, plugin, domain)
  /\ pending' = pending \cup {id}
  /\ UNCHANGED <<appVars, pc, repo, exit, created, lock, snapshot, dropped>>

FlagJob(id) ==
  /\ IsUp
  /\ id \in pending
  /\ Unlocked
  /\ \/ RequestCancel(id)
     \/ ~HasStatus(id, Open) /\ UNCHANGED jobVars
  /\ pending' = pending \ {id}
  /\ UNCHANGED <<process, regVars, pc, repo, exit, created, lock, snapshot, dropped>>

\* cancel_job, the button of the Task Center, knows only the job table.
TaskCenterCancel(id) ==
  /\ IsUp
  /\ Cancel(id)
  /\ UNCHANGED <<process, regVars, callVars>>

Crash ==
  /\ Die
  /\ Vanish
  /\ pc' = [c \in Guards \cup Writers |->
        IF pc[c] \in InFlight THEN "lost" ELSE pc[c]]
  /\ lock' = [r \in Resources |-> None]
  /\ snapshot' = [r \in Resources |->
        IF snapshot[r] = "outdated" THEN "lost"
        ELSE IF \E c \in Guards \cup Writers : repo[c] = r /\ pc[c] = "running"
               THEN "lost" ELSE snapshot[r]]
  /\ exit' = [g \in Guards |-> IF pc[g] \in InFlight THEN "none" ELSE exit[g]]
  /\ pending' = {}
  /\ UNCHANGED <<repo, created, dropped>>

Startup ==
  /\ Boot \/ \E id \in JobIds : Sweep(id)
  /\ UNCHANGED <<regVars, callVars>>

Next ==
  \/ \E g \in Guards : Begin(g) \/ Call(g)
  \/ \E w \in Writers : WriterLock(w) \/ WriterEnd(w)
  \/ \E id \in Ids : CancelCommand(id) \/ FlagJob(id) \/ TaskCenterCancel(id)
  \/ Crash
  \/ Startup

\* Worker threads keep running, git is stopped by its time limit, and whoever
\* holds a repository's lock lets go of it.
Spec == /\ Init /\ [][Next]_vars
        /\ \A g \in Guards : WF_vars(Call(g))
        /\ \A w \in Writers : WF_vars(WriterEnd(w))

-----------------------------------------------------------------------------
\* No two of the processes the application runs work on one repository at a
\* time: neither two network operations nor one and a local write.
RepositoryExclusive ==
  \A c, d \in Guards \cup Writers :
    pc[c] = "running" /\ pc[d] = "running" /\ repo[c] = repo[d] => c = d

\* Between its git and its refresh a call leaves the repository unlocked with
\* a snapshot that is out of date.  Its registry entry covers the gap: no
\* other network operation gets to its preflight, and nothing but the call
\* itself is left to bring the snapshot up to date.
GapIsCovered ==
  \A r \in Resources : snapshot[r] = "outdated" =>
    \E g \in Guards :
      /\ repo[g] = r
      /\ pc[g] \in {"refresh", "refreshing"}
      /\ \A h \in Guards : repo[h] = r => pc[h] # "prepare"

\* An open job has a call that is still going to close it, or the store
\* failed its call; a queued job may also be left behind by a process that
\* died, because the sweep looks at running jobs only.
OpenJobsHaveCalls ==
  IsUp => \A id \in Ids : HasStatus(id, Open) =>
    \E g \in created : Op(g) = id /\
      \/ pc[g] \in InFlight
      \/ g \in dropped
      \/ pc[g] = "lost" /\ HasStatus(id, {"queued"})

\* An operation whose cancel command returned does not end as succeeded, and
\* one that succeeded has published a snapshot of what its git did.
VerdictMatchesJob ==
  \A g \in created : HasStatus(Op(g), {"succeeded"}) =>
    /\ exit[g] = "ok" \/ pc[g] = "lost"
    /\ \A p \in Principals : <<g, p>> \notin acked

\* Every call ends, whatever locks it has to wait for.
EveryCallEnds == \A g \in Guards :
  pc[g] \in InFlight ~> pc[g] \in {"done", "lost"}
=============================================================================
