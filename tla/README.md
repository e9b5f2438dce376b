# Git-Ramus: formal models

TLA+ modules of the desktop application Git-Ramus, the TLC configurations that check them
on small instances, and TLAPS proofs of the theorems that matter most. Paths below are
relative to `src/apps/desktop/src-tauri/src/` (the Rust core) unless they start with `src/`.

Contents: [the system](#the-system), [the modules](#the-modules), [the runs](#the-runs),
[bounds](#bounds), [fairness](#fairness), [proofs](#proofs), [what the code does and the
documents do not say](#what-the-code-does-and-the-documents-do-not-say), [what is not
modelled](#what-is-not-modelled), [plan](#plan), [how to run](#how-to-run).

## The system

Git-Ramus is a Tauri application. A Rust core owns everything with a side effect: a
SQLite database, the `git` processes, the secrets, the HTTP clients. Plugins run in
frames of the window and reach the core through an RPC router, which checks their
permissions, shows the dialogs and turns a call into a Tauri command (`commands.rs`).
A command that is not `async` runs on the main thread, one at a time; the others run on the
tokio runtime and on its pool for blocking work. The services below are shared by `Arc` and
have locks of their own, so they are modelled with concurrent callers throughout.

| part | state it keeps | operations |
| --- | --- | --- |
| **Job table** `jobs/` | table `jobs`; one `operation_lock` | `create_with_id`, `start`, `succeed`, `fail`, `cancel`, `request_cancel`, `set_progress`, `fail_running_by_kind_prefix` |
| **Echo task, Task Center** `commands.rs`, `src/apps/desktop/src/shell/TaskCenter.tsx` | one async task per echo job | `start_echo_job`, `cancel_job` |
| **Application start** `app_state.rs` | - | migrates the database, discovers and installs plugins and themes, fails the transport jobs left running, classifies interrupted clones, repeats the clean-up of secrets |
| **Operation registry** `git/transport/operation.rs` | two maps behind one mutex: operation id → entry, resource → operation id; a cancellation flag per entry | `reserve`, `bind_resource`, `cancel_owned`, `finish_if_not_cancelled`, `finish`, drop of a guard |
| **Network operations** `git/transport/service.rs` | (that of the parts it uses) | `execute_network` for fetch, pull and push; `cancel` |
| **Git engine** `git/engine.rs`, `git/transport/progress.rs` | a process group, two readers, a writer | `run_with_context` |
| **Repository service** `git/service.rs`, `repository.rs`, `parser.rs` | a lock per repository and per project, a gate for reading gits; tables of projects, repositories, snapshots | scans, refreshes, changes, diffs, stage/unstage/commit |
| **Clone** `git/transport/clone.rs`, `storage.rs` | table `git_clone_operations`; staging directory and owner marker on disk; clone intents in memory | `clone_repository_with_guard`, `classify_recovery_operation`, intents |
| **Transport profiles** `git/transport/profile_service.rs`, `config.rs` | tables of profiles, bindings, repairs; the Git configuration of each repository | bind, unbind, drift, compensation |
| **Provider accounts** `providers/` | accounts, secrets in the key ring, notes of secrets to clean up | connect, validate, rotate, delete |
| **Provider discovery** `providers/service.rs`, `cursor.rs`, `http.rs` | operations in flight with their limits, page cursors, health of accounts | list, match, cancel, drain |
| **Identities** `identity.rs` | profiles, the global profile, bindings; the global and the local Git configuration | create, update, delete, set global, bind, unbind, import |
| **Prompt brokers, RPC router** `src/apps/desktop/src/git-transport/promptBroker.ts`, `plugins/rpcRouter.ts`, `lib/hostApi.ts` | queue of confirmations, one gate, requests in flight per plugin | route, limit, confirm, cancel |
| **Plugins, permissions, themes** `plugins/`, `themes.rs` | installation rows, grants, theme rows | discover, install, grant, activate |
| **Addresses** `git/transport/url.rs`, `providers/url.rs` | none | validation and normalisation |

### How they interact

A network operation goes through most of them. The router authorises a plugin's request,
counts it and asks the user. The command **reserves** the operation id in the registry and
hands the guard to a worker thread. The worker **binds** the repository in the registry,
**tries** the write lock of the repository, runs its preflight on the stored snapshot,
**creates and starts** the job, runs `git`, **drops the write lock**, refreshes the snapshot
(which waits for the lock), asks the registry whether it was canceled in the meantime, and
closes the job. Two cancel commands race with all of this: the plugin's, which first
withdraws the dialogs, then raises the flag in the registry and then flags the job, and the
Task Center's, which writes the job table only. A local write waits for the repository lock
and may get in between git and the refresh. The process can die at every point; registry
and locks are gone then, and the rows are not.

A clone does the same for a path that is not a repository yet; it begins with an intent
that one plugin makes and another spends, and adds a row, a staging directory and a marker
that outlive the process, and are compared with each other by the next start.

Identities, transport profiles and repositories meet in the Git configuration of a
repository; the accounts and the discovery in the rows of accounts, which a deletion may
take away only after every request that uses them has ended.

### What is hard about it

- *Two records of one fact.* A cancellation lives in the registry (flag), in the job
  (status, request flag), in the broker and in what the caller was told; a clone in a row, a
  job and a disk; an identity in a row and a file. Each is written at its own time.
- *Locks given up and taken again.* The write lock is free between git and refresh, and
  between the two gits of a diff.
- *Operations of several writes.* `succeed`, the start-up sweep and the installation of a
  plugin write row after row.
- *Early returns.* About fifteen ways out of `execute_network`, some thirty out of the
  clone, with guards, locks, rows, jobs and directories to give back.
- *Processes nobody controls.* git and its helpers inherit pipes, leave their process group,
  print without end or not at all, while a timeout and a cancellation race with their end.
- *Files anybody may edit.* A profile or an identity is written key by key into a
  configuration which the user, another tool or a failing git may change in between.
- *Stores that fail apart.* A secret is in the key ring and the reference to it in the
  database; both are written around an `await`, by calls that nothing serialises.
- *Reused names.* Operation ids come from the caller, and guards find their entries by id
  and resource, not by identity.
- *Things that are worth something once.* Clone intents and page cursors expire, are
  displaced at a limit, and are spent long after they were given out.

`PROJECT.json` lists each of these hazards at the line where it bites, with the properties
that catch it or the reason why none does.

### What makes each part correct

| part | properties |
| --- | --- |
| job table | a job walks one way through its life; terminal rows stay; the second write of a two-write operation always applies (`ImplementsLifecycle`; proved only: `TerminalRowsAreFrozen`, `PendingWritesApply`) |
| echo task, Task Center | a task that ended has settled its job; every task ends (`NoJobLeftBehind`, `EveryTaskEnds`; proved only: `CancelHolds`, a confirmed cancel stays) |
| start | no transport job is shown as running after a start; permissions never grow after the first installation; the active theme is one that was loaded (`SweepIsComplete`, `GrantsAreOfTheFirstInstall`, `ThemesAreLoaded`) |
| registry | a lease per operation, with one verdict (`ImplementsLease`; proved only: `IndexesAgree`, `HoldersExclude`, `OneWinner`) |
| network operations | one process per repository; nobody decides on an out-of-date snapshot; no open job without somebody to close it; job and verdict agree; every call ends (`RepositoryExclusive`, `GapIsCovered`, `OpenJobsHaveCalls`, `VerdictMatchesJob`, `EveryCallEnds`) |
| git engine | nobody of a stopped run's group survives it; a success has the whole output; every run ends (`ReturnsAlone`, `SuccessIsWhole`, `EveryRunEnds`) |
| repositories | a stored snapshot is current or says that it is not; a diff names what was selected; a scan accounts for every repository; permits and locks come back (`StoredIsCurrent`, `DiffNamesTheSelection`, `ScanIsComplete`, `HoldersAreAtWork`) |
| clone | nothing at a final path is replaced; a closed row leaves nothing on disk; row, job and disk tell one story; recovery offers what fits the disk (`FinalIsKept`, `ClosedLeavesNothing`, `OneStory`, `OffersAreSound`) |
| transport profiles | what is configured, what is bound and what unbinding will give back stay in step, or a repair record says otherwise; bindings fit their profiles (`ConfigIsAccounted`, `BindingsFitProfiles`) |
| provider accounts | an account has its secret, a secret its account, and one account is the default (`AccountsKeepSecrets`, `SecretsAreAccounted`, `OneDefault`) |
| discovery | the pages of a listing add up to the whole; a suggestion was verified at every address; a deletion and a revocation wait for what they cancelled (`PagesAddUp`, `SuggestionsAreEarned`, `DrainsAreComplete`) |
| identities | row and file agree or the failure says so; a failure restores; a commit has the identity it resolved; two locks, no circle (`RowsAndFilesAgree`, `FailuresRestore`, `CommitsKeepTheirIdentity`, `NoCircularWait`) |
| prompts and RPC | what was canceled or refused is never sent; every dialog is asked for and answered by itself; no prompt and no place is lost; an intent serves one clone (`CanceledStaysAtHome`, `NothingRunsUnasked`, `PromptsAreWaitedFor`, `SlotsAreGivenBack`, `IntentsAreSpentOnce`) |

## The modules

```
 JobLifecycle (abstract)                  ResourceLease (abstract)
      ^ implements                              ^ implements
     Jobs  <--- AppState <---------\    /---> OperationRegistry
                   ^                \  /
             BackgroundJobs    NetworkOperation  <--- NetworkOperationProofs
                   ^           CloneOperation    <--- CloneOperationProofs
               LocalProofs ---> Repositories

 Jobs, OperationRegistry <--- SharedTablesProofs <--- the three modules of proofs above

 RemoteUrls <--- ManagedConfig          GitOutput, ProjectWalk <--- Repositories
 PluginRoutes, PromptBroker <--- PluginHost    ThemeDefinitions <--- PluginManifests <--- Startup
 GitProcess   TransportProfiles   ProviderAccounts   Discovery   Identities
 ProgressLines   ScanRules   PatchLimits
```

`A <--- B` means that B extends A. `Identities` and `PluginHost` have a module of proofs each
(`...Proofs`); those of `BackgroundJobs` and `Repositories` are in `LocalProofs`, those of
`TransportProfiles`, `GitProcess` and `Discovery` in `RemoteProofs`, those of
`ProviderAccounts` and `Startup` in `InstallationProofs`. Every module with a run has an `MC`
module of its own; the modules without state are taken in by an `MC` module and evaluated
there as assumptions.

Jobs and what uses them:

- **`Jobs`** - `jobs/service.rs` and `jobs/repository.rs`. `jobs` is the table (a row has a
  kind, a status, a progress, the cancel flag, and whether an error is stored); `writing`
  is the operation that holds `operation_lock` between two of its writes. Every method of
  `JobService` is an action; `succeed` is two (`SucceedStatus`, `SucceedProgress`), and
  `fail_running_by_kind_prefix` is a list and one action per row. What the service
  refuses is no action: it changes nothing. `Edges` is the `match` of `transition`.
- **`JobLifecycle`** - what the table promises its readers, without lock, writes or crash.
- **`AppState`** - the life of the process around the table: `Die`, `Boot`, `Sweep`.
- **`BackgroundJobs`** - the table's users: the echo task, step by step between its awaits
  (`worker` is where it is), `cancel_job`, and transport services that make any legal call.
  Errors of the store, which the echo task drops, are a choice at each of its writes.
- **`OperationRegistry`** - `operation.rs`: each critical section of the mutex is an
  action. A guard is named by the `Arc<AtomicBool>` made for it. `reserver`, `told` and
  `acked` record what callers know, which is what the properties are about.
- **`ResourceLease`** - what the registry promises, without ids, tables or flags.
- **`NetworkOperation`** - composes registry, job table, write locks, snapshots, local
  writes, both cancel commands and crashes around `execute_network`. `pc` is the line the
  call is at; `lock` the write lock of each repository; `snapshot` what its newest snapshot
  row is worth (`current`, `outdated` because a git has changed the repository since,
  `failed` if it says so itself, `lost` if nobody is left to refresh it).
- **`CloneOperation`** - composes registry, job table, clone row and disk around
  `clone_repository_with_guard`, with a foreign directory that may appear at the final
  path, and the classification of the next start.

Git and repositories:

- **`GitProcess`** - `run_with_context` of `git/engine.rs`: the caller that polls, a reader
  per stream, the writer of the input, git, and a helper that inherits some of the pipes and
  may leave the process group. A pipe holds `PipeSize` chunks. Timeouts are events that may
  come at any time. git and the helper do what they like.
- **`ProgressLines`** - `progress.rs` and `ProgressBridge` as functions of a stream: cutting
  it into chunks must not change the events.
- **`Repositories`** - `git/service.rs` and `repository.rs`: a call of the user, a scan with
  its workers, the lock of each repository, the lock of the project and the read gate, on a
  disk that the user edits meanwhile. git, the database and a thread that panics may fail at
  each step. It extends **`GitOutput`** (what git says of a tree, and what `parser.rs` and
  the diff make of it) and **`ProjectWalk`** (the walk of a scan through the directories).
- **`ScanRules`**, **`PatchLimits`** - glob patterns, relative paths, folder names and scan
  rules; the limits of a diff. Functions, compared with reference definitions.
- **`Identities`** - `identity.rs` and the commit of `git/service.rs`: rows, the global and
  the local files written key by key, the lock of the profiles and those of the
  repositories, rollbacks that may fail themselves, edits by hand, crashes.

Transport and providers:

- **`TransportProfiles`** - `profile_service.rs` and `config.rs`: profiles, bindings and the
  managed keys of each repository's configuration. `op` is the bind, unbind or reapply that
  holds the lifecycle lock; it starts with its checks (`StartBind`, `StartUnbind`,
  `StartReapply`) and then goes through `write_managed_snapshot` as the code does: read,
  write a key, read back, next key; save the row. Each of these may fail, which turns `op`
  into its own compensation (`undoing`), and a failing compensation into a repair record.
  `delete_profile` works through its plan with the same operations. `base` and `tampered`
  are history: what the user would have without Git-Ramus, and who else had a hand in it.
- **`ManagedConfig`** - which keys and values those are, over the addresses of
  **`RemoteUrls`**: URL validation and normalisation of the transport, of the providers and of
  the window, as functions over structured addresses.
- **`ProviderAccounts`** - `providers/service.rs` and `store.rs`: rows, references, the key
  ring and the clean-up table. A call is cut at its awaits and between two stores: a
  rotation deposits the new secret (`BeginRotate`), switches the row (`Rotate`), retires the
  old secret (`Retire`). `Discard` is a deletion that may fail, and whose note in the
  clean-up table may fail too. `contended` and `lost` are history.
- **`Discovery`** - listing and matching: admission and limits, cursors, the pages of a
  request with its attempts and retries, cancellation, and the deletion of an account and the
  revocation of a grant, which wait for what they cancelled.

Plugins:

- **`PluginRoutes`** - the table of `rpcRouter.ts`: the permissions each method needs, and
  those the Rust command asks for a second time.
- **`PromptBroker`** - one operator per synchronous piece of the two brokers and their gate.
- **`PluginHost`** - a request from frame to command: authorisation, limiter, dialogs and
  directory selection in the window, where all prompts end when their dialog is unmounted
  (`Unmount`); reservation, intent and run in the core; cancellation through both. JavaScript runs to its next await in one step.
- **`Startup`** - `AppState::from_paths` step by step, cut off anywhere, over releases that
  add, break, change or remove plugins; it extends **`PluginManifests`** (manifest, registry,
  adapters) and **`ThemeDefinitions`** (which themes core and window accept).

Each definition is mapped to its lines in `PROJECT.json`. A definition whose name has a
suffix (`Permits_AnyOther`) is a *mutant*: the definition as a plausible bug would have
it. Every property checked has one that violates it.

## The runs

| run | question | result |
| --- | --- | --- |
| `background_jobs` | does the job table keep its promises to its users, through failing stores, late calls, crashes and sweeps that crash? | 16 316 states, holds |
| `network_operation` | exclusion, snapshots, jobs, verdicts and termination of fetch/pull/push with everything they share; does the registry, used like this, implement leases? | 472 247 states, holds |
| `git_process` | does every git end, and with the whole output if it succeeds, whatever it and its helper do with their pipes, under limits, timeouts and a cancellation? | 1 148 478 states, holds |
| `repositories` | do snapshots, diffs and scans fit the repositories, beside a user who edits them, with git, the database and panics failing at each step? | 1 214 957 states, holds |
| `clone_operation` | can a clone replace, leak or misreport anything, with a failing store, a failing disk, cancels, foreign directories and crashes? | 380 950 states, holds |
| `transport_profiles` | is the configuration accounted for after any sequence of binds, switches, failures on any key, compensations, repairs, edits, deletions and crashes? | 1 343 464 states (up to symmetry), holds |
| `provider_accounts` | does an account keep its secret, and every secret an account, when the provider, the key ring and the database fail at any step? | 374 468 states (up to symmetry), holds |
| `discovery` | do pages, suggestions and drains come out right when requests are interrupted, refused, retried and cancelled, and cursors expire? | 1 292 012 states (up to symmetry), holds |
| `identities` | do rows, files and commits agree while profiles are bound, edited and deleted, with git, the database and rollbacks failing? | 1 487 017 states (up to symmetry), holds |
| `plugin_host` | is anything sent that the user did not agree to or had canceled; is a prompt or a place lost; is an intent spent twice? | 1 454 813 states (up to symmetry), holds |
| `startup` | what do releases that come and go, and starts that are cut off, leave of permissions and themes? | 1 015 134 states, holds |
| `retired_secrets` | is the old secret out of use once a rotation is committed, as the design document says? | violated |

Assumptions that the runs evaluate, over all short inputs of their kind:

| module | assumption |
| --- | --- |
| `MCGitProcess` | `EventsAreThoseOfTheLines`: however a stream is cut, the events are those of its lines that are not too long |
| `MCRepositories` | `WalkIsCompleteHere` (the premise of `ScansAreAlwaysComplete`, on the disks of the run), `WalkFindsWhatIsWanted`, `GlobsDenoteWhatTheySay`, `ClonesAreScanned` (a scan finds what a clone may create, and nothing else), `PathsAreConfined`, `FoldersAreNames`, `PatchesAreHonest` |
| `MCTransportProfiles` | `PlansAreReadBack`, `HostWideNamesCannotBeRead`, `QuotingIsUndoneByTheShell` |
| `MCDiscovery` | `ClonedAddressesAreAccepted`, `WindowShowsWhatIsUsed`, `SanitizedNamesTheSame`, `ClonesAreRecognised` |
| `MCPluginHost` | `RouterAsksForAll` (the core never asks for more than the router), `NetworkIsAskedTwice` |
| `MCStartup` | `FrontendReadsWhatTheCoreAccepts` |

A note on what some of them took to get right:

- `GapIsCovered` is what makes it sound to let the write lock go between git and refresh:
  the registry entry, not the lock, keeps the next network operation away from its
  preflight. The mutant that releases the guard with the lock violates it.
- `OpenJobsHaveCalls` holds only with its last disjunct: a job that was queued when the
  process died stays queued, because the sweep asks for running jobs.
- `OneStory` excludes calls that could not write their row or job (`dropped`): with the
  store gone there is nobody to tell a story.
- `VerdictMatchesJob` and `OneStory` depend on the refusal of `jobs.succeed` being looked
  at, after the Task Center canceled the job of a call that is past its last decision.
- `ConfigIsAccounted` says nothing of a repository that was edited *while* an operation
  wrote to it, that a crash left half-written, or whose repair record could not be stored
  (`tampered = "lost"`), until the user keeps what is there: the code has no journal it
  could be recovered from. An edit between operations is covered: it is the user's own, but
  must not change what unbinding gives back. `RowsAndFilesAgree` has the same exception
  (`loose`), which ends with the next binding.
- `AccountsKeepSecrets` and `SecretsAreAccounted` except accounts two calls have been on at
  the same time (`contended`): two rotations leave the secret of the first behind, and a
  validation can undo a rotation (`retired_secrets`). Nothing in the code keeps them apart.
- `ReturnsAlone` is about the process group. A helper that has left it may survive, and
  keeps a canceled run waiting for its pipe until the clean-up gives up: the run is then
  reported as timed out, not as canceled.
- `CanceledStaysAtHome` holds for as long as the broker remembers a cancellation, which the
  code does for ten minutes and for at most 1024 operations.
- `StoredIsCurrent` excepts repositories that somebody outside has changed since, and those
  whose refresh could neither be stored nor recorded as failed (`touched`). The machine's time
  is any of `0..MaxTicks` whenever a row is written, so it may also have been set back: a
  refresh that succeeds behind an earlier row of a later time is hidden by it, and excepted
  too, until the next refresh. A failure needs no exception. It has the time of the newest
  success and comes after it, so what is shown then is an error whatever the clock says.

## Bounds

| constant | value | why it is enough |
| --- | --- | --- |
| `JobIds`, `Ids` | 2 | a second job or operation next to the first, or after it under the same id |
| `Guards` (network, clone) | 2 | every conflict in the code is between two; the registry itself is proved for any number |
| `Resources` (network, clone) | 1 | nothing relates two repositories or two final paths but the registry |
| `Domains` | 1 | `cancel_owned` compares plugin and domain alike |
| `Writers` | 1 | one local write against two calls; two local writes only take the same lock |
| `TransportKinds` | one kind | network: a kind that reads the snapshot (pull, push), which does all that fetch does and more |
| `FullProgress` | 3; 1 where progress is not followed | two rounds of the echo task: a first one and one that follows another (the code has three, 0.25, 0.5, 0.75, all alike) |
| `PipeSize`, `OutputLimit` | 1 | a full pipe, and an output at its limit, with the fewest chunks |
| `InputSize`, `MaxChunks` | 2 | one chunk in the pipe and one that waits; one more chunk than the limit allows |
| `Dirs`, `Disks` | 7 directories, 2 disks | nested, broken, excluded repositories, and a project inside one; the walk by itself is evaluated on all layouts of the shape |
| `Calls`, `Workers`, `ReadLimit` (repositories) | 1 | a call, a scan and its worker already compete for one permit, one repository lock and the project lock |
| `MaxCalls`, `MaxScans`, `MaxEdits`, `MaxTicks` | 1 | each may come at any point of the others; two ticks or edits add states but no new order of the steps of one call; with two times a row is before, with or after another |
| `Repositories`, `Keys`, `Profiles`, `Contents` (profiles) | 1, 2, 2, 2 | operations go one at a time under the lifecycle lock; a failure between two keys (every plan of the code has two); a switch; profiles that say the same and profiles that do not |
| `MaxEvents` (profiles) | 1 | edits and crashes in one behaviour |
| `Profiles`, `Calls`, `MaxEdits`, `MaxCrashes` (identities) | 2, 2, 1, 1 | a switch of profiles; a call against a commit; one edit or crash in any gap |
| `Accounts`, `Calls` (accounts) | 2 (1 account in `retired_secrets`) | a default to hand over; two calls on one account or on two |
| `MaxSecrets` | 2 | the token of the connect and that of one rotation; a second rotation finds what the first one found |
| `MaxCrashes` (accounts) | 2; 0 in `retired_secrets` | a start that dies while it repeats the clean-up of another; no crash is needed to lose a rotation |
| `Calls`, `Plugins` (discovery) | 2 | one request in the way of another, of the same plugin or of another one |
| limits of discovery | `GlobalLimit`, `AccountLimit` 2, `Concurrency`, `CursorCapacity` 1, `MaxPages`, `MaxAttempts` 2 | each limit is reached and passed by two calls; a listing of more pages than one request reads; a retry |
| `Layouts` | 2 | two pages, each more than one answer holds, so that an answer ends in the middle of either, and a query that finds nothing on the first; a page that leads to itself |
| `Locals` | 3 | a remote whose two addresses are answered with one repository, a remote without an address, and one whose addresses are answered with two |
| `Calls`, `Intents` (plugins) | 3, 1 | two requests for one intent or operation id, and one that finds the limits reached or cancels |
| limits of the host | `NetworkLimit`, `MaxPending`, `MaxPerPlugin` 2, `MaxRemembered`, `MaxIntents` 1 | the third request is one too many; the second cancellation and the second intent displace the first |
| `MaxReleases` | 2 | a change and a change back; starts may be cut off any number of times |

In two runs a bound leaves something out. `transport_profiles` has one repository, so the
plan of a deletion has at most one binding to remove; with two repositories the state space
is too large, and the proof takes its place. `repositories` has one call, so two calls of the
user never wait for each other; the scan and its worker stand in for the second one, and the
proof is for any number.

Nothing else is counted without end. Calls and ids of the network, clone and plugin modules
are numbered and used in that order, so that one of each set of symmetric behaviours is
kept. TLC's own symmetry is used where only safety is checked. A guard, a call and a
writer act once each, unless a bound above says otherwise.

The runs with `CHECK_DEADLOCK FALSE` are the ones that may stop: when every call has been
made and is over (or every account deleted), nothing is left to do. In `background_jobs` and
`startup` the process may always die and start again, and in `transport_profiles` there is
always something the user may do next.

## Fairness

- `EchoTask(id)`: the async runtime polls every task it has spawned; the steps of a task
  never wait for anything but `operation_lock`.
- `TransportSeal(id)`: a thread between the two writes of `succeed` goes on to the second
  one. Without it the lock could stay taken.
- `Call(g)`: worker threads keep running, and `git` itself is ended by the time and output
  limits of the engine, so the step `running` comes to its end; `EveryRunEnds` is where that
  is checked.
- `WriterEnd(w)`: a local write is a git process with a limit too, and lets its lock go.
- `Runner`, `Expire` of `GitProcess`: the thread that called `run_with_context` keeps
  polling, and time passes. Nothing is assumed of git, of its helper, of the readers and the
  writer of the pipes: they may stop for ever, and the run still ends.

All of it is weak fairness on a whole task, so a task that waits for a lock is only
promised its turn if the lock stays free; `EveryCallEnds` still holds because every holder
is itself such a task, and each writer comes once. Nothing is assumed of users: cancel
commands, new operations, crashes and restarts may or may not happen. Crashes end a call as
`lost`, which the liveness properties count as an end: what becomes of its job is the
subject of `OpenJobsHaveCalls` and `SweepIsComplete`.

The other modules state no fairness. Where everyone could wait on everyone, a safety
property says that whoever is waited for is at work: `NoCircularWait`, `HoldersAreAtWork`,
`DrainsAreComplete`, `PromptsAreWaitedFor`.

## Proofs

Eight modules, checked by TLAPS for every value of the constants that satisfies the
assumptions named in the modules. `JobsAssumption`: progress has a full value; a kind is a
transport kind or not. `EchoAssumption`: the echo job is no transport job, and its task has at
least one round. `RegistryAssumption`: `None` is no id, resource or guard. `NetworkAssumption`
and `CloneAssumption`: operation ids are job ids; ids and guards are numbered; local writers
are no guards, and what belongs to somebody else on disk has no id. `AccountsAssumption`: the
bounds are numbers. `IdentitiesAssumption`: contents are well formed; the global lock is that
of no repository. `ProfilesAssumption`: what the user sets, what a profile says, and the lack
of a value differ; keys are numbered. `PluginHostAssumption`: calls and intents are numbered,
a call is made of known methods, the limits are at least one. `GitProcessAssumption`: a pipe
holds something. `StartupAssumption`: no package has the id of the host or names a Provider
account, whose random id is made when the user connects it. `DiscoveryAssumption`: a local remote is a
sequence of addresses, each with what it resolves to; each page of a layout is a sequence of
listed repositories and leads to a page there is or to none; pages and limits are at least one.
`GitOutputAssumption` and `RepositoriesAssumption`: a repository has finitely many paths, of
trees there is at least one, calls are no workers, and there is a worker for each permit.
`ProjectWalkAssumption`: there are finitely many directories. Apart
from these, `None` is never one of the things it
stands for the lack of. There may be any number of ids, calls, repositories, accounts and
profiles; the bounds on edits, events and crashes may be any number, the proofs do not use
them.

TLC checked the inductive invariants first, on the instances of the runs: `NetInv` on 472 247
states, `CloneInv` on 380 950 (3 850 232 with two final paths), `AccInv` on 374 468,
`IdentInv` on 1 487 017, `DiscoveryInv` and `ListingInv` on 1 292 012,
`RepositoryInv` on 1 214 957, `HostInv` on 1 454 813, `RunInv` on 1 148 478, `StartInv` on
1 015 134, `ProfilesInv` on 1 343 464, and on all states
of two repositories with one key.

**`SharedTablesProofs`, the job table.** `JobsInv` = types and `PendingWritesApply`.
`PendingWritesApply` needs the types (`Absent` is not a row), and is inductive with them: while the lock is held only its
holder writes, and each row of the sweep leaves the list with the write that moves it. Then
`TerminalRowsStayFrozen`, in which the second write of `succeed` is the one exception and
`PendingWritesApply` shows that it is its own row; and `TableImplementsLifecycle`, one lemma
per kind of step: a transition is a move (`LifeTransition`), progress is a stutter.

**`SharedTablesProofs`, the registry.** `RegInv` = types, `IndexesAgree`, and `VerdictInv`: a guard
that is not gone has been told nothing, a flag that is up was acknowledged to somebody, and
what was told to be completed has its flag down. `OneWinner` is not inductive by itself:
a cancel call after the completion is excluded only because the entry is gone by then
(`IndexesAgree`). `ConsumeEffect` is the lemma about `remove_registration`: since the tables
are inverse, going by id and resource removes the guard's own entry and resource and nothing
else. `RegistryImplementsLease` follows with one lemma per action.

**`LocalProofs`, the installation.** `UsersObeyTheTable`: a behaviour of the installation is one of
the table, so `InstallationKeepsTheTable` follows from the theorems above. For the rest the
invariant is `TypeOK /\ JobsInv /\ SweepInv /\ WorkerInv /\ CancelHolds`. `SweepInv` says
that while a start is sweeping, what is on the list is exactly what still runs: that is why
the last row ends the start with none (`StartsSweepTheTable`). `WorkerInv` says what the row
of an echo job can be at each step of its task; it needs `SweepInv`, for the sweep is the
only one besides the task that fails or succeeds jobs, and only because it lists transport
jobs does the task never find its job failed. `CancelHolds` follows from the graph alone: no
edge leaves `canceled`.

**`LocalProofs`, the repositories.** The four invariants of the run, and `CountIsTally`. The
invariant is `RepositoryInv` = types, `LockInv`, `ScanInv`, `StoredInv` and `DiffInv`, for any
number of calls, workers, repositories and trees.

- `LockInv`: a thread past the lock holds that of its own repository, and every holder is at
  work (`HoldersAreAtWork`). A thread that panics leaves the lock poisoned, not taken.
- `ScanInv`: while a scan refreshes, each repository the walk has found is in the queue, in the
  hands of one worker, or recorded; a record of a failure has its failure listed. Only a dead
  worker may have taken one away, and a scan with a dead worker does not return (`Progress`).
- `StoredInv`: what is about to be published is the tree as it is; once it is published the
  newest row counts it; and whoever leaves the lock free has stored the one or recorded a
  failure. The newest row is the last one because the rows that are kept are in the order of
  their times (`Ordered`), though they were not written in it (`NewestOfMore`). A new row is the
  last of them, or a row is ahead of it (`StoredRows`); and no success is ahead of a failure
  (`FailureFacts`).
- `DiffInv`: a diff that is listed names every change that was chosen when it began; it names
  nothing else unless the tree was changed between the two gits of the diff.

What a step of a thread does to lock, gate and scan is the same few cases for every step
(`Effect`), so there is one lemma per action that says which, and one per conjunct that says
it is enough. `StoredIsCurrent` and `DiffNamesTheSelection` are about what the program makes of
git's output: `CountIsTally` says that parsing the porcelain status of any tree counts what is
staged, unstaged, untracked and conflicted in it, renames once; `DiffListing` that the files of
the parsed patch are those chosen. Both parsers are recursive functions; induction is replaced
by `Counting`, about a set of numbers that contains 0 and with a number the next, and the
existence of such a function by `RecursionExists`.

`ScansAreAlwaysComplete` has one premise, `WalkIsComplete`: the walk finds nothing that is not
there and reports what it does not find. What the walk of a tree of directories returns is a
matter of induction over the tree, so TLC evaluates the premise on the disks of the run, and
`WalkFindsWhatIsWanted` on all layouts of its shape. The theorem is about what the scan makes of
the walk: queue, workers, failing gits, panics and records.

**`NetworkOperationProofs`.** All four safety invariants of the run, and that every behaviour
of fetch, pull and push is one of the registry and one of the job table
(`NetworkImplementsLease`, `NetworkKeepsTheTable`), so that the theorems of the two modules
above hold of it. `NetInv` adds to `RegInv` and `JobsInv` what a call holds at each of its
steps: its write lock (`LockInv`), its guard (`GuardOK`), the row of its job (`JobOK`), its
verdict (`ExitOK`). `VerdictMatchesJob` needs that a call's row is its own, although ids are
reused (`OneJobEach`), and that it was told "completed" with an active guard. `GapIsCovered`
needs `GapInv`, which names the call that owes the refresh. `OpenJobsHaveCalls` looks at a
process that is up; `OpenInv` also says what a crash leaves for the sweep of the next start.
`Frame(g)` is what a step of call g leaves to the others.

**`CloneOperationProofs`.** The three invariants of the run, `FinalIsKept`, and both
refinements. `CloneInv` says of each call what its step implies about the guard, the job, the
row and the disk (`GuardOK`, `JobOK`, `StepOK`), what remains of that when it is over
(`DiskOK`, `StoryOK`), and that no call is at work while a start classifies (`ProcessInv`). It
is the invariant for the crash between any two writes: whatever the step was, `DiskOK` holds
of what is found, and classification makes of it what `OffersAreSound` asks for.

**`RemoteProofs`, the transport profiles.** `BindingsFitProfiles` and `ConfigIsAccounted`, for
any number of repositories. Both are silent about the repository that is being written to; the invariant is
about the operation there. Its row fits a profile that exists (`OpFits`): that needs the
lifecycle lock, which keeps `Update` and `DeleteLast` away. What it found (`restore`), what it
wants (`target`) and what it will save (`row`) all agree with the user's base (`OpAccounted`),
so that the end of a compensation and the end of a save both leave a settled repository; a
write of a key in between needs nothing but that. `DeletionInv` adds that the plan of a
deletion and the bindings to its profile shrink together, from which
`DeletionsAlwaysLeaveNoBinding`, which no run states: when the plan is done, the count at
the end of `delete_profile` finds no binding.

**`RemoteProofs`, one git process.** `ReturnsAlone` and `SuccessIsWhole`. `RunInv` says with each
step of the caller what is left of git and of its group (`PhaseInv`): who is killed before the
outputs are collected stays so, for only a living git starts a helper, and a clean-up that is
late kills again. `SuccessIsWhole` is a balance (`StreamInv`): what was written to a stream is
in its pipe or was kept, unless its limit was exceeded, and a reader that has ended left an
empty pipe that nobody holds any more. A verdict of success has neither a limit nor a reader
left, so the balance is all there is.

**`RemoteProofs`, discovery.** `SuggestionsAreEarned` and `DrainsAreComplete`. `RegistryFits`
says that the registry holds exactly the calls at work, each under its own key: a key in use is
refused, and who leaves takes its own key along. `DrainFits` says of whom a deletion or a
revocation has cancelled that it is still registered in its scope or about to wake those who
wait; so an empty scope means that all of them are done, and with a subscription made before the
look at the registry no end is slept through. `MatchFits` says what a match carries from one
address to the next: the answers so far, whether one of them failed, and for each remote it is
done with a remark that is earned. That a remark says "Suggested" exactly when all answers are one
repository is a fact about the number of distinct answers (`UniqueIsOne`).

`PagesAddUp` has an invariant of its own, `ListingInv`: at each step of a listing and at each
cursor, what was given, what is left over and what the service still has are the whole
(`CursorAdds`, `AskingAdds`, `EndingAdds`). It needs that a page is asked for only when nothing
is left over and the answer is not full, so that what comes back follows what was given; and
that something is left over only when the answer is full, so that an answer with a further
cursor is never short. A listing that failed promises nothing (`Listing`), and its cursor is
spent. `Honest`, which excludes a service whose pages lead in a circle, is needed for the
equation only. What a page leaves of the pages after it is `FromFacts`, by `Counting` and
`RecursionExists` again; that sequences may be regrouped when they are put together
(`SequencesGroup`) is stated for a set of sequences, since the SMT backend did not find it
among all of them.

**`InstallationProofs`, the accounts.** The three invariants of the run. Nothing in the code keeps two
calls on one account apart, so `AccInv` says what a call knows of its row and of the key ring
only where it is alone on the account (`Alone`, `Knows`, `Deposited`); that is the same
exception the invariants make. `OneDefault` needs none: the default changes in one
transaction (`DefaultInv`).

**`InstallationProofs`, the start.** `GrantsAreOfTheFirstInstall` and `ThemesAreLoaded`.
`GrantsFit` says what a plugin may do at any point of a start, also of one that is not up: what
its first package asked for, or nothing while its grants are still to come (`Pending`) or were
cut off. `VisitInv` says that who has been visited has the kind of its package, and that a start
which grants is at one plugin (`OneTurn`), so that what is cut off is that one's. `ThemesInv`
needs that only the default theme is the host's: that is why the rows left valid by
`invalidate_plugin_themes` are one at most.

**`IdentitiesProofs`.** The three invariants of the run and `FailuresRestore`. The locks give
one writer per file (`LocksExclude`), of whom `FileInv` says how far it is: the keys done have
the goal, those left have what was there before, going forward or back. `GoalInv` says that
the goal is still what the row will say when it is written, for which no row may refer to a
profile that is gone (`Referenced`). `CommitsKeepTheirIdentity` follows because a commit has
the lock of its repository, so that neither binding nor file has a writer; that the profile
stays has no lock of its own, and follows from the binding to it: a bound profile is not
changed and not deleted.

**`PluginHostProofs`.** All five invariants of the run, for any number of requests and any
limits. `HostInv` relates what is kept of a request in five places. `Fits` says which dialogs
of a call are still to come: all the others, whose numbers are higher than what is left, were
agreed to, so that at the command, with none left, all were (`NothingRunsUnasked`); it also
keeps the permission of the git client from the check to the consumption of an intent.
`BrokerOK` says that confirmations and forms of the calls are those of the brokers, each in
one place; it needs that prompts have different numbers (`PromptIdFacts`), and the counts of
`PromptsAreWaitedFor` follow with one bijection for the calls and one for the queue.
`StoppedStay` says where a stopped call can be: before its command, its operation remembered.
That is why `Choose` has to look again. `SlotsFit` is about the set of calls that take a slot; a
cancellation ends several calls in one step, and `MoveKeeps` is about any set of them.
`SpentFit` adds to `IntentsAreSpentOnce` that what was spent is gone. What a filter leaves of
a queue (`Without`) is defined by ranks and not by recursion, which spares the proof an
induction, and `WithoutFacts` says that it keeps the rest, once each.

Proved and not run: the types of these modules, `PendingWritesApply`, `TerminalRowsAreFrozen`,
`CancelHolds`, `IndexesAgree`, `HoldersExclude`, `OneWinner` and `DeletionsLeaveNoBinding`. A
run would only repeat, on a small instance, what holds for every one. The registry has no run
of its own for the same reason; `network_operation` checks `ImplementsLease` of the registry
as its users drive it.

Every invariant of the passing runs is stated by a theorem. Checked by TLC only:

- the liveness properties (`EveryTaskEnds`, `EveryCallEnds`, `EveryRunEnds`), which are out of
  reach of the prover, with everything that depends on `ENABLED`;
- `WalkIsComplete`, the premise of `ScansAreAlwaysComplete`, as said above;
- the functions on addresses, lines, manifests, patches and walks (`RemoteUrls`,
  `ManagedConfig`, `ProgressLines`, `ThemeDefinitions`, `ScanRules`, `PatchLimits`,
  `ProjectWalk`): what a recursive function computes for every input needs induction over data,
  and they are evaluated on all inputs of a bounded size instead.

## What the code does and the documents do not say

One run expects a violation, and quotes
`src/docs/superpowers/specs/2026-07-19-provider-account-repository-discovery-design.md`:

- `retired_secrets`: line 236 has the old secret deleted when a rotation is committed.
  `validate_account` (`providers/service.rs:378`) writes back the reference it read before it
  waited for the provider. If a rotation came in between, the account refers to the deleted
  secret afterwards: it cannot be used or validated, and not even deleted, since
  `delete_account` wants the secret first. Rotating it once more is the way out.

The rest was met while modelling. It is in the models, as a choice, an exception of a
property or an assumption, and no run is about it. "design" is
`src/docs/superpowers/specs/2026-07-20-git-transport-network-operations-design.md`, "plan"
`src/docs/superpowers/plans/2026-07-20-git-transport-network-operations.md`.

*Jobs, network operations, clones.*

- design:412 has canceling terminate git. `cancel_job` (`commands.rs:811`), which the Cancel
  button of the Task Center calls for every job, writes the job table only: the row says
  canceled while git goes on, and the call finds its job closed when it is done. Its caller
  then gets a partial result, and the repository is refreshed, so no other property suffers.
- design:419 has recovery go on with the registration of a clone that was renamed and still
  has its marker. `classify_recovery_operation` (`clone.rs:987`) asks for
  `filesystem_complete`, which is written *after* the rename; a clone whose process died between
  the two is offered nothing but "unsafe path". It errs on the safe side (`OffersAreSound`). A
  clone that died right after its row was inserted has neither staging directory nor marker,
  and is classified the same.
- design:418 has a start refresh the repositories whose operations were interrupted;
  `app_state.rs` fails their jobs and leaves the snapshots as they are (the worth `lost`). The
  result of the classification is discarded at start-up (`let _recovery`), and the actions it
  lists have no command behind them.
- "Counting objects: 100 %" sets a job's progress to 1.0 before the transfer begins; since only
  a greater fraction is stored (`transport/service.rs:877`), the job shows 100 % from then on.
- A canceled git whose helper left the group and keeps a pipe open is reported as timed out.
  So may be a commit or a push that has succeeded.

*Repositories.*

- `sanitize_git_stderr` truncates at byte 512 and panics inside a character, although the comment
  of `scan_project` (`git/service.rs:495`) has the other repositories continue: the panic ends
  the scan and poisons the lock.
- The lines of a hunk are read as headers if they look like them (`Phantom` in `GitOutput`);
  additions and deletions are always 0; a deleted file is listed twice; unmerged files count
  as staged; a combined diff renames the entry before it.
- A bare repository inside a repository is never found; a `.git` file that leads nowhere hides
  the repository around it. Relations of a project to repositories that have left it stay.
  A scan during a clone finds the staging directory and registers it, and the row stays.
- Files with `:` or `\` in their names are listed and cannot be staged or shown
  (`validate_relative_path`). `?` in a pattern matches a byte, not a character. A scan depth
  of 0 allows no clone into the project. When a patch was cut off, the first untracked file is
  still read.
- The newest snapshot is the one with the latest wall-clock time: after the clock was set
  back, newer rows are hidden until it catches up (`Ahead`).

*Transport profiles and addresses.*

- design:271 has drifted values never overwritten silently. The check for drift and the write
  are separate reads of the configuration (`profile_service.rs:501`, `config.rs:89`), and the
  second is not compared with the first, so an edit in between is replaced and reported to
  nobody. The window is one git process wide. `identity.rs` has the same window.
- design:522 has a repair record block switching until the user has resolved the drift;
  `resolve_repair` (`store.rs:264`) has no caller, so the repository stays blocked.
- A user's own `credential.https://host.username` matches the keys the program reads and is
  refused by `canonical_managed_key`: every read fails then, so nothing can be bound, and a
  bound repository can neither fetch nor push (`HostWideNamesCannotBeRead`). An https remote
  with an IPv6 address makes a key of this kind itself (`PlansAreReadBack`). After
  `git remote set-url` a binding is not considered drifted.
- design:288 allows `ssh://user@host/path.git`; `url.rs:52` refuses it without a port, and with
  port 22 accepts it, drops the port and refuses it when it comes back. The window accepts it.
  The brackets of IPv6 addresses are doubled. A clone over ssh is recognised as a repository
  of its instance only at the default port and without a root path; cloning accepts any ssh
  user, recognition only `git`.

*Providers.*

- `validate_instance`, `update_instance` and `bind_remote` write back what they read before
  their await. Changing the address of an instance keeps its accounts and bindings unvalidated.
  `bind_remote` and `binding_list` check neither permission nor context.
- A continuation that failed or was cancelled has consumed its cursor. A listing that reads its
  maximum of pages without filling one fails and loses what it read. A cancelled listing marks
  the account unavailable, a cancelled match does not. Cursors that repeat are noticed within
  one request only.
- Between the wait of a deletion and the deletion itself an operation may still start, go on
  with the secret of an account that is gone, and store its health or leave a cursor. After a
  revocation a plugin may not cancel its own operation any more.

*Plugins.*

- A navigation to a clone waits for the Git client to become ready, and nothing withdraws it;
  every later one waits behind it (`cloneNavigationBroker.ts:17`), while plan:1408 has it consumed
  once the plugin is selected. A second route replaces the first view as soon as it is ready.
- The permissions of routes are granted at the first installation only: a plugin whose first
  start was cut off between row and grants (`app_state.rs:124`) never gets any, an update that
  asks for more never does, and one that asks for less keeps them
  (`2026-07-17-git-ramus-design.md:184` has the user approve again). A removed plugin keeps row
  and grants. One built-in plugin that is broken stops the start.
- The command behind a clone asks for the intents alone, where the router asks for writing
  to repositories too; projects, repositories, identities and accounts are checked by the
  router only (`Asked` in `PluginRoutes`).
- A cancellation can overtake the command it is for on the way to the core, and is lost there.
  A frame that is closed leaves its dialog and its operation going. A revocation has removed
  the grant even when its wait fails as busy.

## What is not modelled

- *Inside `NetworkOperation`*: a git that survives the death of the application; changes by
  other programs to the repository; trust, project membership and the URL checks, which are
  looked at once before the call takes anything. What git prints, and how errors are worded,
  decides nothing here but success, failure, cancellation.
- *Inside `GitProcess`*: errors of the readers, the cleaning of the environment, the
  fallbacks of Windows for a job object that is refused. A signal reaches a group at once.
- *Inside `CloneOperation`*: a marker that is written in part; errors of the start-up
  classification itself, which stop the start; more than one parent directory. The stages
  between `validating` and the end are one stage, since nothing tells them apart. The guard
  is let go together with the write that closes the job.
- *Inside `OperationRegistry`*: the branches of `bind_resource` for a guard without an entry
  (`IndexesAgree` shows them unreachable), and a poisoned mutex.
- *Inside `Repositories`*: workspaces, remotes as rows, contents of files, the order in which
  scan workers take repositories, clones left from a deleted project. The identity of a
  repository is its directory. No liveness: `HoldersAreAtWork` is the safety form.
- *Inside `TransportProfiles`*: keys with several values, which every write refuses; trust and
  the kind of the remote, checked before anything is written; changes of a profile's display
  name; a repository path that cannot be resolved after it could be a moment before.
- *Inside `Identities`*: a file is read in one step, and a key is unset, added and read back in
  one; a theme that is activated while the global profile is set (both commands run on the
  main thread).
- *Inside `ProviderAccounts`*: instances, whose deletion the foreign key refuses while they
  have accounts; bindings of remotes; the health shown for an account.
- *Inside `Discovery`*: adapters that are disabled, errors of the database, the order in which
  waiting requests get their permit. Sending a request and reading its answer is one wait.
- *Inside `PluginHost`*: the drawing of the overlay, the end of the window, answers to closed
  frames, `cancelAll` (which only tests call), the navigation queue (its few lines would only be repeated).
- *Inside `Startup`*: every step that fails ends the start, whatever the reason; loss of power
  under SQLite's write-ahead log.
- *Not begun*: provider instances and bindings of remotes as state; workspaces; the serving of
  plugin files (`plugins/protocol.rs`); the activation of a theme in the window.
- *Left out for good*: HTTP and the provider adapters, the key ring, the parsing of bytes into
  the records of `GitOutput`, errors and their wording, the shell and the plugins' user
  interfaces, `e2e.rs`, which is compiled into test builds only: I/O, text and look-ups.

## Plan

Done, in this order: `Jobs`, `AppState`, `BackgroundJobs`, `OperationRegistry`,
`NetworkOperation`, `CloneOperation`, `TransportProfiles`, `ProviderAccounts` and the proofs of
`Jobs`, `BackgroundJobs` and `OperationRegistry`; then `Identities`, `GitProcess`,
`Repositories`, `Discovery`, `PluginHost`, `Startup` and the modules of functions they are
checked with; then the proofs of `NetworkOperation`, `CloneOperation`, `Identities`,
`ProviderAccounts`, `TransportProfiles`, `PluginHost`, `GitProcess`, `Startup`, `Discovery` and
`Repositories`.

What is left, the most valuable first:

1. Provider instances and remote bindings as rows of `ProviderAccounts`, for the two calls
   that write back what they read before an await.
2. The walk of a scan for every tree of directories, by the method of `Counting`, which would
   leave `ScansAreAlwaysComplete` with an assumption on `EntryLimit` alone.

## How to run

```
tlc -workers 2 -config MCNetworkOperation.cfg MCNetworkOperation.tla
tlapm SharedTablesProofs.tla
```

`PROJECT.json` pairs every run with its module and configuration. `MCProviderAccounts` has a
second configuration, for the run that expects a violation. The longest runs are
`network_operation`, `repositories`, `plugin_host` and `git_process`, two to three minutes each
on two workers; a proof module takes a few minutes, `LocalProofs`
and `RemoteProofs`, the longest, about ten.
