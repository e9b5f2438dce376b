------------------------ MODULE NetworkOperationProofs ------------------------
(***************************************************************************)
(* fetch, pull and push over everything they share, for every set of calls,*)
(* repositories, operation ids, local writes and plugins.  The registry    *)
(* and the job table are used only through their own operations, so what   *)
(* SharedTablesProofs proves of each of them alone holds here              *)
(* (StepOfRegistry, StepOfTable); on top come the properties that relate   *)
(* the two to each other, to the write locks and to the snapshots.         *)
(*                                                                         *)
(* NetInv ties the step a call is at to what it holds there: LockInv its   *)
(* write lock, GuardOK its registry guard, JobOK the row of its job and    *)
(* ExitOK its verdict.  The parts need each other.  That a succeeded job   *)
(* was never canceled (VerdictMatchesJob) needs that its row is its own    *)
(* (OneJobEach), that it was told "completed" while its guard was active   *)
(* (GuardOK), and RegInv for what that means to a cancel call.  That the   *)
(* gap before the refresh is covered needs GapInv, which names the call,   *)
(* GuardOK, which says it is still bound, and HoldersExclude.  OpenInv     *)
(* says more than OpenJobsHaveCalls, which looks at a process that is up:  *)
(* it must last through a crash and through the sweep of the next start,   *)
(* whose end is where the jobs of lost calls are no longer running.        *)
(*                                                                         *)
(* A step of one call is split in two.  Frame(g) is what it leaves to the  *)
(* others, and carries their half of the invariant; the lemmas Call...     *)
(* look at the call itself, one case for each of its steps.                *)
(***************************************************************************)
EXTENDS NetworkOperation, SharedTablesProofs

Steps == InFlight \cup {"idle", "done", "lost"}

\* The steps with the write lock, with a guard that is not yet bound and that
\* is, from the creation of the job, and with the job closed.
Locked    == {"prepare", "start", "spawn", "running", "refreshing"}
Bound     == {"lock", "prepare", "start", "spawn", "running", "refresh", "refreshing",
              "state", "settle", "finish", "drop"}
Unguarded == {"cancelJob", "succeed", "seal", "done", "lost"}
HasJob    == InFlight \ {"bind", "lock", "prepare"}

\* The types of what the calls and the local writes keep.
CallTypes ==
  /\ pc \in [Guards \cup Writers -> Steps]
  /\ \A w \in Writers : pc[w] \in {"idle", "running", "done", "lost"}
  /\ repo \in [Guards \cup Writers -> Resources \cup {None}]
  /\ exit \in [Guards -> {"none", "ok", "failed", "canceled", "partial"}]
  /\ created \subseteq Guards
  /\ lock \in [Resources -> Guards \cup Writers \cup {None}]
  /\ snapshot \in [Resources -> {"current", "outdated", "failed", "lost"}]
  /\ pending \subseteq Ids
  /\ dropped \subseteq Guards

\* Who holds the lock of a repository works on it, and the other way round.
LockInv ==
  /\ \A c \in Guards \cup Writers, r \in Resources :
       lock[r] = c <=> repo[c] = r /\ pc[c] \in Locked
  /\ \A c \in Guards \cup Writers : pc[c] # "idle" => repo[c] \in Resources

\* A call has an active guard from its command to its verdict, bound to its
\* repository once it has got through the registry.
GuardOK(g) ==
  /\ pc[g] = "idle" <=> guard[g] = Unused
  /\ pc[g] = "bind" => Active(g) /\ guard[g].resource = None
  /\ pc[g] \in Bound => Active(g) /\ guard[g].resource = repo[g]
  /\ pc[g] \in Unguarded => guard[g].state = "gone"

\* A call has a job from Prepare on; the job is started by nobody else, and
\* closed when the call is past its last write, or the store refused that.
JobOK(g) ==
  /\ pc[g] \in HasJob => g \in created
  /\ g \in created => pc[g] \notin {"idle", "bind", "lock", "prepare"} /\ Exists(Op(g))
  /\ g \in created /\ pc[g] = "start" => ~HasStatus(Op(g), {"running"})
  /\ g \in created /\ pc[g] \in HasJob \ {"start"} => ~HasStatus(Op(g), {"queued"})
  /\ g \in created /\ pc[g] \in {"drop", "seal", "done"} =>
       HasStatus(Op(g), Terminal) \/ g \in dropped

\* Only a git that ended well and whose refresh was published gets to the
\* verdict, and only a call that was told "completed" makes its job succeed.
ExitOK(g) ==
  /\ pc[g] \in {"state", "finish", "succeed", "seal"} => exit[g] = "ok"
  /\ pc[g] \in {"succeed", "seal"} => told[g] = "completed"
  /\ g \in created /\ HasStatus(Op(g), {"succeeded"}) =>
       told[g] = "completed" /\ (exit[g] = "ok" \/ pc[g] = "lost")

\* What holds of every call.
CallInv == \A g \in Guards : GuardOK(g) /\ JobOK(g) /\ ExitOK(g)

\* Two calls that created a job did so under different ids.
OneJobEach == \A g, h \in created : Op(g) = Op(h) => g = h

\* Nothing runs in a process that is not up; while a start sweeps the table
\* its list is what is still running.
ProcessInv ==
  /\ process # "up" => \A c \in Guards \cup Writers : pc[c] \in {"idle", "done", "lost"}
  /\ process = "down" => writing = NoWrite
  /\ process = "starting" => writing.op = "failRunning" /\ writing.ids = RunningTransport
  /\ process = "up" => writing.op # "failRunning"

\* All jobs of this table are of a transport kind, under an operation id.
KindInv == \A id \in JobIds : Exists(id) => jobs[id].kind \in TransportKinds /\ id \in Ids

\* A snapshot that is out of date is about to be refreshed by a call.
GapInv ==
  \A r \in Resources : snapshot[r] = "outdated" =>
    \E g \in Guards : repo[g] = r /\ pc[g] \in {"refresh", "refreshing"}

\* Who is to close an open job: a call in flight, nobody if the store refused
\* the call, or the next start if the call died with a job that was running.
OpenInv ==
  \A id \in Ids : HasStatus(id, Open) =>
    \E g \in created : Op(g) = id /\
      \/ pc[g] \in InFlight
      \/ g \in dropped
      \/ pc[g] = "lost" /\ (HasStatus(id, {"queued"}) \/ ~IsUp)

\* The inductive invariant.
NetInv ==
  /\ JobsInv /\ process \in {"up", "down", "starting"} /\ RegInv /\ CallTypes
  /\ LockInv /\ CallInv /\ OneJobEach /\ ProcessInv /\ KindInv /\ GapInv /\ OpenInv

-----------------------------------------------------------------------------
\* What a call is at each of its steps.
LEMMA CallFacts ==
  ASSUME NetInv, NEW g \in Guards
  PROVE  /\ pc[g] \in Steps /\ GuardOK(g) /\ JobOK(g) /\ ExitOK(g)
         /\ pc[g] # "idle" => repo[g] \in Resources /\ Op(g) \in Ids
         /\ guard[g] \in GuardRec /\ Active(g) => Op(g) \in Ids
<1>1. pc[g] \in Steps /\ GuardOK(g) /\ JobOK(g) /\ ExitOK(g)
  BY DEF NetInv, CallInv, CallTypes
<1>2. guard[g] \in GuardRec
  BY DEF NetInv, RegInv, RegTypeOK
<1>3. guard[g] # Unused => Op(g) \in Ids
  BY <1>2 DEF GuardRec, Unused, Op
<1> QED
  BY <1>1, <1>2, <1>3 DEF GuardOK, NetInv, LockInv, Active, Unused

\* What a step of the call g leaves alone.
Frame(g) ==
  /\ IsUp /\ process' = process
  /\ \A c \in (Guards \cup Writers) \ {g} : pc'[c] = pc[c] /\ repo'[c] = repo[c]
  /\ \A h \in Guards \ {g} : guard'[h] = guard[h] /\ told'[h] = told[h] /\ exit'[h] = exit[h]
  /\ \A id \in JobIds : id # Op(g) => jobs'[id] = jobs[id]
  /\ \A r \in Resources : r # repo'[g] => lock'[r] = lock[r] /\ snapshot'[r] = snapshot[r]
  /\ created \subseteq created' /\ created' \subseteq created \cup {g}
  /\ dropped \subseteq dropped' /\ dropped' \subseteq dropped \cup {g}
  /\ pending' = pending

\* The frame, for the command and for each step of the worker.
LEMMA BeginFrame ==
  ASSUME NetInv, NEW g \in Guards, Begin(g)
  PROVE  Frame(g)
BY DEF NetInv, JobsInv, JobsTypeOK, RegInv, RegTypeOK, CallTypes, Frame, Begin, Reserve, At, Goto,
       appVars, jobVars

\* The steps up to the start of the job.
LEMMA EarlyFrame ==
  ASSUME NetInv, NEW g \in Guards,
         Bind(g) \/ TryLock(g) \/ Prepare(g) \/ Reject(g) \/ StartJob(g) \/ AbandonJob(g)
  PROVE  Frame(g)
<1> USE DEF NetInv, JobsInv, JobsTypeOK, RegInv, RegTypeOK, CallTypes, Frame, At, Goto, Unlock,
            Release, Consume, appVars, regVars, jobVars
<1>1. CASE Bind(g)
  BY <1>1 DEF Bind, BindResource
<1>2. CASE TryLock(g)
  BY <1>2 DEF TryLock
<1>3. CASE Prepare(g)
  BY <1>3 DEF Prepare, CreateWithId
<1>4. CASE Reject(g)
  BY <1>4 DEF Reject
<1>5. CASE StartJob(g)
  BY <1>5 DEF StartJob, Start, Transition
<1>6. CASE AbandonJob(g)
  BY <1>6 DEF AbandonJob, Cancel, Transition
<1> QED
  BY <1>1, <1>2, <1>3, <1>4, <1>5, <1>6

\* The steps from git to the state that is read after the refresh.
LEMMA GitFrame ==
  ASSUME NetInv, NEW g \in Guards,
         Spawn(g) \/ AfterGit(g) \/ RefreshLock(g) \/ Refresh(g) \/ ReadState(g)
  PROVE  Frame(g)
<1> USE DEF NetInv, JobsInv, JobsTypeOK, RegInv, RegTypeOK, CallTypes, Frame, At, Goto, Unlock,
            appVars, regVars, jobVars
<1>1. CASE Spawn(g)
  BY <1>1 DEF Spawn
<1>2. CASE AfterGit(g)
  BY <1>2 DEF AfterGit, GitExits
<1>3. CASE RefreshLock(g)
  BY <1>3 DEF RefreshLock
<1>4. CASE Refresh(g)
  BY <1>4 DEF Refresh, Publish
<1>5. CASE ReadState(g)
  BY <1>5 DEF ReadState
<1> QED
  BY <1>1, <1>2, <1>3, <1>4, <1>5

\* The steps that close the job and the guard.
LEMMA LateFrame ==
  ASSUME NetInv, NEW g \in Guards,
         Settle(g) \/ DropGuard(g) \/ Finish(g) \/ CancelOwnJob(g) \/ Succeed(g) \/ Seal(g)
  PROVE  Frame(g)
<1> USE DEF NetInv, JobsInv, JobsTypeOK, RegInv, RegTypeOK, CallTypes, Frame, At, Goto, Unlock,
            Release, Consume, appVars, regVars, jobVars
<1>1. CASE Settle(g)
  BY <1>1 DEF Settle, Cancel, Fail, Transition
<1>2. CASE DropGuard(g)
  BY <1>2 DEF DropGuard
<1>3. CASE Finish(g)
  BY <1>3 DEF Finish, FinishIfNotCancelled
<1>4. CASE CancelOwnJob(g)
  BY <1>4 DEF CancelOwnJob, Cancel, Transition
<1>5. CASE Succeed(g)
  BY <1>5 DEF Succeed, SucceedStatus, Transition
<1>6. CASE Seal(g)
  BY <1>6 DEF Seal, SucceedProgress, LoseLock
<1> QED
  BY <1>1, <1>2, <1>3, <1>4, <1>5, <1>6

\* Whatever step a call makes, it leaves the others alone.
LEMMA CallFrame ==
  ASSUME NetInv, NEW g \in Guards, Call(g)
  PROVE  Frame(g)
BY EarlyFrame, GitFrame, LateFrame DEF Call

-----------------------------------------------------------------------------
\* Every step of the network is a step of the registry, or leaves it alone.
LEMMA StepOfRegistry ==
  ASSUME NetInv, [Next]_vars
  PROVE  [RegNext]_regVars
<1>1. ASSUME NEW g \in Guards, Begin(g) \/ Call(g)
      PROVE  [RegNext]_regVars
  <2>1. CASE Begin(g)
    BY <2>1 DEF Begin, RegNext
  <2>2. CASE Bind(g)
    <3>1. repo[g] \in Resources
      BY <2>2, CallFacts DEF Bind, At
    <3> QED
      BY <2>2, <3>1 DEF Bind, RegNext
  <2>3. CASE Reject(g) \/ AbandonJob(g) \/ DropGuard(g)
    BY <2>3 DEF Reject, AbandonJob, DropGuard, RegNext
  <2>4. CASE Finish(g)
    BY <2>4 DEF Finish, RegNext
  <2>5. CASE \/ TryLock(g) \/ Prepare(g) \/ StartJob(g) \/ Spawn(g) \/ AfterGit(g)
             \/ RefreshLock(g) \/ Refresh(g) \/ ReadState(g) \/ Settle(g) \/ CancelOwnJob(g)
             \/ Succeed(g) \/ Seal(g)
    BY <2>5 DEF TryLock, Prepare, StartJob, Spawn, AfterGit, RefreshLock, Refresh, ReadState,
       Settle, CancelOwnJob, Succeed, Seal
  <2> QED
    BY <1>1, <2>1, <2>2, <2>3, <2>4, <2>5 DEF Call
<1>2. ASSUME NEW w \in Writers, WriterLock(w) \/ WriterEnd(w)
      PROVE  [RegNext]_regVars
  BY <1>2 DEF WriterLock, WriterEnd
<1>3. ASSUME NEW id \in Ids, CancelCommand(id) \/ FlagJob(id) \/ TaskCenterCancel(id)
      PROVE  [RegNext]_regVars
  BY <1>3 DEF CancelCommand, FlagJob, TaskCenterCancel, RegNext
<1>4. CASE Crash \/ Startup \/ UNCHANGED vars
  BY <1>4 DEF Crash, Startup, vars, RegNext
<1> QED
  BY <1>1, <1>2, <1>3, <1>4 DEF Next

\* Every step of the network is a step of the job table, or leaves it alone.
LEMMA StepOfTable ==
  ASSUME NetInv, [Next]_vars
  PROVE  [JobsNext]_jobVars
<1>1. ASSUME NEW g \in Guards, Call(g)
      PROVE  [JobsNext]_jobVars
  <2>1. CASE Prepare(g) \/ StartJob(g) \/ AbandonJob(g) \/ Settle(g) \/ CancelOwnJob(g)
             \/ Succeed(g) \/ Seal(g)
    <3>1. Op(g) \in JobIds
      BY <2>1, CallFacts, NetworkAssumption DEF Prepare, StartJob, AbandonJob, Settle, CancelOwnJob,
         Succeed, Seal, At
    <3>2. CASE Prepare(g)
      BY <3>1, <3>2 DEF Prepare, Kinds, JobsNext, Operation
    <3>3. CASE StartJob(g) \/ AbandonJob(g)
      BY <3>1, <3>3 DEF StartJob, AbandonJob, JobsNext, Operation
    <3>4. CASE Settle(g) \/ CancelOwnJob(g)
      BY <3>1, <3>4 DEF Settle, CancelOwnJob, JobsNext, Operation
    <3>5. CASE Succeed(g) \/ Seal(g)
      BY <3>1, <3>5 DEF Succeed, Seal, JobsNext, Operation
    <3> QED
      BY <2>1, <3>2, <3>3, <3>4, <3>5
  <2>2. CASE Bind(g) \/ TryLock(g) \/ Reject(g) \/ Spawn(g) \/ AfterGit(g) \/ RefreshLock(g)
             \/ Refresh(g) \/ ReadState(g) \/ DropGuard(g) \/ Finish(g)
    BY <2>2 DEF Bind, TryLock, Reject, Spawn, AfterGit, GitExits, RefreshLock, Refresh, ReadState,
       DropGuard, Finish, appVars
  <2> QED
    BY <1>1, <2>1, <2>2 DEF Call
<1>2. CASE \/ \E g \in Guards : Begin(g)
           \/ \E w \in Writers : WriterLock(w) \/ WriterEnd(w)
           \/ \E id \in Ids : CancelCommand(id)
           \/ UNCHANGED vars
  BY <1>2 DEF Begin, WriterLock, WriterEnd, CancelCommand, appVars, vars
<1>3. ASSUME NEW id \in Ids, FlagJob(id) \/ TaskCenterCancel(id)
      PROVE  [JobsNext]_jobVars
  BY <1>3, NetworkAssumption DEF FlagJob, TaskCenterCancel, JobsNext, Operation
<1>4. CASE Crash
  BY <1>4 DEF Crash, Die, JobsNext
<1>5. CASE Startup
  BY <1>5 DEF Startup, Boot, Sweep, JobsNext, Operation
<1> QED
  BY <1>1, <1>2, <1>3, <1>4, <1>5 DEF Next

\* So all that is proved of the two alone holds next to everything else.
LEMMA PartsStep ==
  ASSUME NetInv, [Next]_vars, RegistryAssumption, JobsAssumption
  PROVE  /\ RegInv' /\ JobsInv'
         /\ \A g \in Guards : guard[g] # Unused => Op(g)' = Op(g) /\ guard'[g] # Unused
<1>1. RegInv'
  BY StepOfRegistry, RegStep DEF NetInv
<1>2. JobsInv'
  BY StepOfTable, JobsNextInv DEF NetInv
<1>3. ASSUME NEW g \in Guards, guard[g] # Unused
      PROVE  guard'[g].id = guard[g].id /\ guard'[g] # Unused
  BY <1>3, StepOfRegistry, GuardKeepsId DEF NetInv
<1> QED
  BY <1>1, <1>2, <1>3 DEF Op

\* A call leaves the row of every other call that created its job alone.
LEMMA OthersRows ==
  ASSUME NetInv, NEW g \in Guards, Begin(g) \/ Call(g), NEW h \in created, h # g
  PROVE  jobs'[Op(h)] = jobs[Op(h)] /\ Op(h)' = Op(h) /\ Op(h) \in JobIds
<1>1. h \in Guards /\ Exists(Op(h)) /\ pc[h] # "idle" /\ Op(h) \in JobIds /\ Frame(g)
  BY CallFacts, BeginFrame, CallFrame, NetworkAssumption DEF NetInv, CallTypes, JobOK
<1>2. Op(h)' = Op(h)
  BY <1>1 DEF Frame, Op
<1>3. jobs'[Op(h)] = jobs[Op(h)]
  <2>1. CASE Op(h) # Op(g)
    BY <1>1, <2>1 DEF Frame
  <2>2. CASE Op(h) = Op(g) /\ g \in created
    BY <2>2 DEF NetInv, OneJobEach
  <2>3. CASE Op(h) = Op(g) /\ g \notin created
    <3>1. pc[g] \notin HasJob
      BY <2>3, CallFacts DEF JobOK
    <3>2. ~Prepare(g)
      BY <1>1, <2>3 DEF Prepare, CreateWithId
    <3>3. Begin(g) \/ Bind(g) \/ TryLock(g) \/ Reject(g)
      BY <3>1, <3>2 DEF Call, HasJob, InFlight, At, StartJob, AbandonJob, Spawn, AfterGit, GitExits,
         RefreshLock, Refresh, ReadState, Settle, DropGuard, Finish, CancelOwnJob, Succeed, Seal
    <3> QED
      BY <3>3 DEF Begin, Bind, TryLock, Reject, appVars, jobVars
  <2> QED
    BY <2>1, <2>2, <2>3
<1> QED
  BY <1>1, <1>2, <1>3

-----------------------------------------------------------------------------
\* Types: the steps of a call.
LEMMA CallTypesStep ==
  ASSUME NetInv, NEW g \in Guards, Begin(g) \/ Call(g), NetworkAssumption
  PROVE  CallTypes'
<1>1. g \notin Writers /\ (pc[g] # "idle" => repo[g] \in Resources)
  BY NetworkAssumption, CallFacts
<1>2. ASSUME NEW step \in Steps, Goto(g, step)
      PROVE  /\ pc' \in [Guards \cup Writers -> Steps]
             /\ \A w \in Writers : pc'[w] \in {"idle", "running", "done", "lost"}
  BY <1>1, <1>2 DEF Goto, NetInv, CallTypes
<1>3. \E step \in Steps : Goto(g, step)
  <2> USE DEF Steps, InFlight
  <2>1. CASE Begin(g) \/ Bind(g) \/ TryLock(g) \/ Prepare(g) \/ StartJob(g) \/ Reject(g)
             \/ AbandonJob(g) \/ Spawn(g)
    BY <2>1 DEF Begin, Bind, TryLock, Prepare, StartJob, Reject, AbandonJob, Spawn
  <2>2. CASE AfterGit(g) \/ RefreshLock(g) \/ ReadState(g)
    BY <2>2 DEF AfterGit, GitExits, RefreshLock, ReadState
  <2>3. CASE Refresh(g) \/ Finish(g)
    BY <2>3 DEF Refresh, Finish
  <2>4. CASE Settle(g) \/ DropGuard(g) \/ CancelOwnJob(g) \/ Succeed(g) \/ Seal(g)
    BY <2>4 DEF Settle, DropGuard, CancelOwnJob, Succeed, Seal
  <2> QED
    BY <2>1, <2>2, <2>3, <2>4 DEF Call
<1>4. /\ repo' \in [Guards \cup Writers -> Resources \cup {None}]
      /\ exit' \in [Guards -> {"none", "ok", "failed", "canceled", "partial"}]
      /\ created' \subseteq Guards /\ pending' \subseteq Ids /\ dropped' \subseteq Guards
      /\ lock' \in [Resources -> Guards \cup Writers \cup {None}]
      /\ snapshot' \in [Resources -> {"current", "outdated", "failed", "lost"}]
  <2> USE DEF NetInv, CallTypes
  <2>0. CASE Begin(g)
    BY <2>0 DEF Begin
  <2>1. CASE Bind(g) \/ TryLock(g) \/ Prepare(g) \/ StartJob(g)
    BY <2>1 DEF Bind, TryLock, Prepare, StartJob
  <2>2. CASE Reject(g) \/ AbandonJob(g) \/ Spawn(g)
    BY <1>1, <2>2 DEF Reject, AbandonJob, Spawn, Unlock
  <2>3. CASE AfterGit(g)
    BY <1>1, <2>3 DEF AfterGit, GitExits, Unlock
  <2>4. CASE RefreshLock(g) \/ ReadState(g)
    BY <1>1, <2>4 DEF RefreshLock, ReadState
  <2>5. CASE Refresh(g)
    BY <1>1, <2>5 DEF Refresh, Publish, Unlock
  <2>6. CASE Settle(g) \/ DropGuard(g) \/ Finish(g) \/ CancelOwnJob(g) \/ Succeed(g) \/ Seal(g)
    BY <2>6 DEF Settle, DropGuard, Finish, CancelOwnJob, Succeed, Seal
  <2> QED
    BY <2>0, <2>1, <2>2, <2>3, <2>4, <2>5, <2>6 DEF Call
<1> QED
  BY <1>2, <1>3, <1>4 DEF CallTypes

\* The write lock: a call takes it only when it is free, and lets it go with
\* the step that leaves the section it covers.
LEMMA CallLockStep ==
  ASSUME NetInv, NEW g \in Guards, Begin(g) \/ Call(g), RegistryAssumption, NetworkAssumption
  PROVE  LockInv'
<1>1. /\ pc[g] # "idle" => repo[g] \in Resources
      /\ g # None /\ \A w \in Writers : w # None
  BY CallFacts, RegistryAssumption, NetworkAssumption
<1>2. LockInv /\ CallTypes
  BY DEF NetInv
<1>3. CASE Begin(g)
  BY <1>2, <1>3 DEF Begin, At, Goto, LockInv, CallTypes, Locked
<1>4. CASE \/ Bind(g) \/ StartJob(g) \/ ReadState(g) \/ Settle(g) \/ DropGuard(g) \/ Finish(g)
           \/ CancelOwnJob(g) \/ Succeed(g) \/ Seal(g)
  <2>1. repo' = repo /\ lock' = lock
    BY <1>4 DEF Bind, StartJob, ReadState, Settle, DropGuard, Finish, CancelOwnJob, Succeed, Seal
  <2>2. /\ pc[g] # "idle" /\ (pc'[g] \in Locked <=> pc[g] \in Locked)
        /\ \A c \in (Guards \cup Writers) \ {g} : pc'[c] = pc[c]
    BY <1>2, <1>4 DEF Bind, StartJob, ReadState, Settle, DropGuard, Finish, CancelOwnJob, Succeed,
       Seal, At, Goto, CallTypes, Locked
  <2> QED
    BY <1>2, <2>1, <2>2 DEF LockInv
<1>5. CASE TryLock(g) \/ RefreshLock(g)
  <2>1. /\ repo' = repo /\ lock' = [lock EXCEPT ![repo[g]] = g] /\ lock[repo[g]] = None
        /\ pc[g] # "idle" /\ pc[g] \notin Locked /\ pc'[g] \in Locked
        /\ \A c \in (Guards \cup Writers) \ {g} : pc'[c] = pc[c]
    BY <1>2, <1>5 DEF TryLock, RefreshLock, At, Goto, CallTypes, Locked
  <2> QED
    BY <1>1, <1>2, <2>1 DEF LockInv, CallTypes
<1>6. ASSUME lock' = [lock EXCEPT ![repo[g]] = None], repo' = repo,
             pc[g] \in Locked, pc'[g] \notin Locked,
             \A c \in (Guards \cup Writers) \ {g} : pc'[c] = pc[c]
      PROVE  LockInv'
  <2>1. lock[repo[g]] = g /\ repo[g] \in Resources /\ pc[g] # "idle"
    BY <1>1, <1>2, <1>6 DEF LockInv, Locked
  <2> QED
    BY <1>1, <1>2, <1>6, <2>1 DEF LockInv, CallTypes
<1>7. CASE Reject(g)
  <2>1. /\ repo' = repo /\ pc[g] # "idle" /\ pc'[g] = "done"
        /\ \A c \in (Guards \cup Writers) \ {g} : pc'[c] = pc[c]
    BY <1>2, <1>7 DEF Reject, Goto, CallTypes
  <2>2. CASE pc[g] = "prepare"
    BY <1>6, <1>7, <2>1, <2>2 DEF Reject, Unlock, Locked
  <2>3. CASE pc[g] \in {"bind", "lock"}
    <3>1. lock' = lock
      BY <1>7, <2>3 DEF Reject
    <3> QED
      BY <1>2, <2>1, <2>3, <3>1 DEF LockInv, Locked
  <2> QED
    BY <1>7, <2>2, <2>3 DEF Reject
<1>8. CASE AbandonJob(g) \/ AfterGit(g) \/ Refresh(g)
  <2>1. /\ repo' = repo /\ pc[g] \in Locked /\ pc'[g] \notin Locked
        /\ \A c \in (Guards \cup Writers) \ {g} : pc'[c] = pc[c]
    BY <1>2, <1>8 DEF AbandonJob, AfterGit, GitExits, Refresh, At, Goto, CallTypes, Locked
  <2> QED
    BY <1>6, <1>8, <2>1 DEF AbandonJob, AfterGit, Refresh, Unlock
<1>9. CASE Prepare(g) \/ Spawn(g)
  <2>1. /\ repo' = repo /\ pc[g] \in Locked /\ pc[g] # "idle"
        /\ \A c \in (Guards \cup Writers) \ {g} : pc'[c] = pc[c]
    BY <1>2, <1>9 DEF Prepare, Spawn, At, Goto, CallTypes, Locked
  <2>2. \/ lock' = [lock EXCEPT ![repo[g]] = None] /\ pc'[g] \notin Locked
        \/ lock' = lock /\ pc'[g] \in Locked
    BY <1>2, <1>9 DEF Prepare, Spawn, Unlock, Goto, CallTypes, Locked
  <2> QED
    BY <1>2, <1>6, <2>1, <2>2 DEF LockInv
<1> QED
  BY <1>3, <1>4, <1>5, <1>7, <1>8, <1>9 DEF Call

-----------------------------------------------------------------------------
\* While a call holds its registry guard nobody was told how it ended, and so
\* its job has not succeeded.
LEMMA NotYetTold ==
  ASSUME NetInv, NEW g \in Guards, pc[g] \in Bound \cup {"bind"}
  PROVE  /\ Active(g) /\ told[g] = "nothing"
         /\ g \in created => ~HasStatus(Op(g), {"succeeded"})
<1>1. Active(g) /\ GuardOK(g) /\ ExitOK(g)
  BY CallFacts DEF GuardOK
<1>2. told[g] = "nothing"
  BY <1>1 DEF NetInv, RegInv, VerdictInv, VerdictOK, Active
<1> QED
  BY <1>1, <1>2 DEF ExitOK

\* The guard of a call at the step that it makes.
LEMMA CallGuard ==
  ASSUME NetInv, NEW g \in Guards, Begin(g) \/ Call(g)
  PROVE  GuardOK(g)'
<1>1. pc \in [Guards \cup Writers -> Steps] /\ guard \in [Guards -> GuardRec] /\ GuardOK(g)
  BY CallFacts DEF NetInv, CallTypes, RegInv, RegTypeOK
<1>2. ASSUME NEW step, Goto(g, step)
      PROVE  pc'[g] = step
  BY <1>1, <1>2 DEF Goto
<1>3. ASSUME NEW answer, Consume(g, answer), pc'[g] \in Unguarded
      PROVE  GuardOK(g)'
  <2>1. guard'[g].state = "gone"
    BY <1>1, <1>3 DEF Consume, GuardRec
  <2> QED
    BY <1>3, <2>1 DEF GuardOK, Unguarded, Bound, Unused
<1>4. CASE Begin(g)
  <2>1. pc'[g] = "bind" /\ guard'[g].state = "active" /\ guard'[g].resource = None
    BY <1>1, <1>2, <1>4 DEF Begin, Reserve
  <2> QED
    BY <2>1 DEF GuardOK, Active, Bound, Unguarded, Unused
<1>5. CASE Bind(g)
  <2>1. /\ pc'[g] = "lock" /\ guard'[g].state = "active"
        /\ guard'[g].resource = repo[g] /\ repo' = repo
    BY <1>1, <1>2, <1>5 DEF Bind, BindResource, Active, GuardRec
  <2> QED
    BY <2>1 DEF GuardOK, Active, Bound, Unguarded, Unused
<1>6. CASE Reject(g) \/ AbandonJob(g) \/ DropGuard(g)
  <2>1. pc'[g] = "done" /\ Consume(g, "released")
    BY <1>2, <1>6 DEF Reject, AbandonJob, DropGuard, Release
  <2> QED
    BY <1>3, <2>1 DEF Unguarded
<1>7. CASE Finish(g)
  <2>1. pc'[g] \in {"succeed", "cancelJob"}
    BY <1>2, <1>7 DEF Finish
  <2> QED
    BY <1>3, <1>7, <2>1 DEF Unguarded, Finish, FinishIfNotCancelled
<1>8. ASSUME guard' = guard, repo' = repo, pc[g] \in Bound, pc'[g] \in Bound
      PROVE  GuardOK(g)'
  <2>1. pc[g] # "idle" /\ pc'[g] # "idle" /\ pc'[g] # "bind" /\ pc'[g] \notin Unguarded
    BY <1>8 DEF Bound, Unguarded
  <2> QED
    BY <1>1, <1>8, <2>1 DEF GuardOK, Active
<1>9. CASE \/ TryLock(g) \/ Prepare(g) \/ StartJob(g) \/ Spawn(g) \/ AfterGit(g)
           \/ RefreshLock(g) \/ ReadState(g) \/ Settle(g)
  <2>1. guard' = guard /\ repo' = repo
    BY <1>9 DEF TryLock, Prepare, StartJob, Spawn, AfterGit, GitExits, RefreshLock,
       ReadState, Settle, regVars
  <2>2. pc[g] \in Bound /\ pc'[g] \in Bound
    BY <1>2, <1>9 DEF TryLock, Prepare, StartJob, Spawn, AfterGit, GitExits, RefreshLock,
       ReadState, Settle, At, Bound
  <2> QED
    BY <1>8, <2>1, <2>2
<1>10. CASE Refresh(g)
  <2>1. guard' = guard /\ repo' = repo /\ pc[g] \in Bound /\ pc'[g] \in Bound
    BY <1>2, <1>10 DEF Refresh, At, Bound, regVars
  <2> QED
    BY <1>8, <2>1
<1>11. CASE CancelOwnJob(g) \/ Succeed(g) \/ Seal(g)
  <2>1. guard' = guard /\ pc[g] \in Unguarded /\ pc'[g] \in Unguarded
    BY <1>2, <1>11 DEF CancelOwnJob, Succeed, Seal, At, Unguarded, regVars
  <2> QED
    BY <1>1, <2>1 DEF GuardOK, Unguarded, Bound, Active, Unused
<1> QED
  BY <1>4, <1>5, <1>6, <1>7, <1>9, <1>10, <1>11 DEF Call

\* A write to the job of a call: the row of that job, under the same id.
LEMMA OwnTransition ==
  ASSUME NetInv, NEW g \in Guards, pc[g] \in HasJob, NEW target, Transition(Op(g), target),
         NetworkAssumption
  PROVE  /\ jobs'[Op(g)].status = target /\ jobs[Op(g)].status \in Open
         /\ jobs'[Op(g)] # Absent
<1>1. Op(g) \in JobIds
  BY CallFacts, NetworkAssumption DEF HasJob, InFlight
<1>2. jobs'[Op(g)].status = target /\ jobs'[Op(g)] = Moved(Op(g), target)
  BY <1>1, TransitionType DEF NetInv, JobsInv
<1> QED
  BY <1>2 DEF Transition, Permits, Edges, Open, Absent

\* The job of a call at the step that it makes.
LEMMA CallJob ==
  ASSUME NetInv, NEW g \in Guards, Begin(g) \/ Call(g),
         RegistryAssumption, JobsAssumption, NetworkAssumption
  PROVE  JobOK(g)'
<1>1. /\ pc \in [Guards \cup Writers -> Steps] /\ JobOK(g) /\ created \subseteq Guards
      /\ JobsTypeOK /\ process' = process
  BY CallFacts, BeginFrame, CallFrame DEF NetInv, CallTypes, JobsInv, Frame
<1>2. ASSUME NEW step, Goto(g, step)
      PROVE  pc'[g] = step
  BY <1>1, <1>2 DEF Goto
<1>3. ASSUME pc[g] # "idle"
      PROVE  Op(g)' = Op(g) /\ Op(g) \in JobIds
  <2>1. [Next]_vars
    BY <1>3 DEF Next
  <2>2. guard[g] # Unused /\ Op(g) \in JobIds
    BY <1>3, CallFacts, NetworkAssumption DEF GuardOK
  <2> QED
    BY <2>1, <2>2, PartsStep
<1>4. ASSUME g \notin created', pc'[g] \notin HasJob
      PROVE  JobOK(g)'
  BY <1>4 DEF JobOK
<1>5. CASE Begin(g)
  <2>1. pc'[g] = "bind" /\ g \notin created'
    BY <1>1, <1>2, <1>5 DEF Begin, At, JobOK
  <2> QED
    BY <1>4, <2>1 DEF HasJob
<1>6. CASE Bind(g) \/ TryLock(g) \/ Reject(g)
  <2>1. /\ pc[g] \in {"bind", "lock", "prepare"} /\ pc'[g] \in {"lock", "prepare", "done"}
        /\ created' = created
    BY <1>2, <1>6 DEF Bind, TryLock, Reject, At
  <2> QED
    BY <1>1, <1>4, <2>1 DEF JobOK, HasJob, InFlight
<1>7. CASE Prepare(g)
  <2>1. pc[g] = "prepare" /\ pc'[g] = "start" /\ created' = created \cup {g}
    BY <1>2, <1>7 DEF Prepare, At
  <2>2. jobs'[Op(g)].status = "queued"
    BY <1>1, <1>3, <1>7, <2>1 DEF Prepare, CreateWithId, JobsTypeOK
  <2> QED
    BY <1>3, <2>1, <2>2 DEF JobOK, HasJob, InFlight, Exists, Absent, HasStatus, Terminal
<1>8. CASE StartJob(g)
  <2>1. pc[g] = "start" /\ pc'[g] = "spawn" /\ created' = created /\ g \in created
    BY <1>1, <1>2, <1>8 DEF StartJob, At, JobOK, HasJob, InFlight
  <2>2. jobs'[Op(g)].status = "running" /\ jobs'[Op(g)] # Absent
    BY <1>8, <2>1, OwnTransition, NetworkAssumption DEF StartJob, Start, HasJob, InFlight
  <2> QED
    BY <1>3, <2>1, <2>2 DEF JobOK, Exists, HasStatus
<1>9. CASE AbandonJob(g) \/ Settle(g) \/ CancelOwnJob(g)
  <2>1. /\ pc[g] \in {"start", "settle", "cancelJob"} /\ pc'[g] \in {"done", "drop"}
        /\ created' = created /\ g \in created
    BY <1>1, <1>2, <1>9 DEF AbandonJob, Settle, CancelOwnJob, At, JobOK, HasJob, InFlight
  <2>2. \/ Cancel(Op(g)) \/ Fail(Op(g))
        \/ HasStatus(Op(g), Terminal) /\ UNCHANGED jobs
        \/ UNCHANGED jobs /\ dropped' = dropped \cup {g}
    BY <1>9 DEF AbandonJob, Settle, CancelOwnJob, jobVars
  <2>3. CASE Cancel(Op(g)) \/ Fail(Op(g))
    <3>1. jobs'[Op(g)].status \in {"canceled", "failed"} /\ jobs'[Op(g)] # Absent
      BY <2>1, <2>3, OwnTransition, NetworkAssumption DEF Cancel, Fail, HasJob, InFlight
    <3> QED
      BY <1>3, <2>1, <3>1 DEF JobOK, Exists, HasStatus, Terminal
  <2>4. CASE HasStatus(Op(g), Terminal) /\ UNCHANGED jobs
    BY <1>1, <1>3, <2>1, <2>4 DEF JobOK, Exists, HasStatus, Terminal
  <2>5. CASE UNCHANGED jobs /\ dropped' = dropped \cup {g}
    <3>1. Exists(Op(g))' /\ (~HasStatus(Op(g), {"queued"}) => ~HasStatus(Op(g), {"queued"})')
      BY <1>1, <1>3, <2>1, <2>5 DEF JobOK, Exists, HasStatus
    <3>2. pc'[g] = "drop" => ~HasStatus(Op(g), {"queued"})
      BY <1>1, <1>2, <1>9, <2>1 DEF JobOK, HasJob, InFlight, AbandonJob, Settle, CancelOwnJob, At
    <3> QED
      BY <1>3, <2>1, <2>5, <3>1, <3>2 DEF JobOK, HasJob, InFlight
  <2> QED
    BY <2>2, <2>3, <2>4, <2>5
<1>10. ASSUME jobs' = jobs, created' = created, dropped \subseteq dropped',
              pc[g] \in HasJob \ {"start"}, pc'[g] \in (HasJob \cup {"done"}) \ {"start"},
              pc'[g] \in {"drop", "seal", "done"} =>
                HasStatus(Op(g), Terminal) \/ g \in dropped'
       PROVE  JobOK(g)'
  <2>1. g \in created /\ Exists(Op(g))' /\ ~HasStatus(Op(g), {"queued"})'
        /\ (HasStatus(Op(g), Terminal) => HasStatus(Op(g), Terminal)')
    BY <1>1, <1>3, <1>10 DEF JobOK, HasJob, InFlight, Exists, HasStatus
  <2>2. pc'[g] \notin {"idle", "bind", "lock", "prepare", "start"}
    BY <1>10 DEF HasJob, InFlight
  <2> QED
    BY <1>10, <2>1, <2>2 DEF JobOK, HasJob
<1>11. CASE \/ Spawn(g) \/ AfterGit(g) \/ RefreshLock(g) \/ Refresh(g) \/ ReadState(g)
            \/ DropGuard(g) \/ Finish(g)
  <2>1. jobs' = jobs /\ created' = created /\ dropped' = dropped
    BY <1>11 DEF Spawn, AfterGit, GitExits, RefreshLock, Refresh, ReadState, DropGuard, Finish,
       appVars, jobVars
  <2>2. CASE DropGuard(g)
    <3>1. pc[g] = "drop" /\ pc'[g] = "done" /\ g \in created
      BY <1>1, <1>2, <2>2 DEF DropGuard, At, JobOK, HasJob, InFlight
    <3> QED
      BY <1>1, <1>10, <2>1, <3>1 DEF JobOK, HasJob, InFlight
  <2>3. CASE ~DropGuard(g)
    <3>1. pc[g] \in HasJob \ {"start"}
      BY <1>11, <2>3 DEF Spawn, AfterGit, GitExits, RefreshLock, Refresh, ReadState, Finish, At,
         HasJob, InFlight
    <3>2. pc'[g] \in HasJob \ {"start", "drop", "seal", "done"}
      <4>1. CASE Spawn(g) \/ AfterGit(g) \/ RefreshLock(g) \/ ReadState(g)
        BY <1>2, <4>1 DEF Spawn, AfterGit, GitExits, RefreshLock, ReadState, HasJob, InFlight
      <4>2. CASE Refresh(g) \/ Finish(g)
        BY <1>2, <4>2 DEF Refresh, Finish, HasJob, InFlight
      <4> QED
        BY <1>11, <2>3, <4>1, <4>2
    <3> QED
      BY <1>10, <2>1, <3>1, <3>2
  <2> QED
    BY <2>2, <2>3
<1>12. CASE Succeed(g)
  <2>1. pc[g] = "succeed" /\ created' = created /\ g \in created
    BY <1>1, <1>12 DEF Succeed, At, JobOK, HasJob, InFlight
  <2>2. CASE SucceedStatus(Op(g)) /\ Goto(g, "seal")
    <3>1. pc'[g] = "seal" /\ jobs'[Op(g)].status = "succeeded" /\ jobs'[Op(g)] # Absent
      BY <1>2, <2>1, <2>2, OwnTransition, NetworkAssumption DEF SucceedStatus, HasJob, InFlight
    <3> QED
      BY <1>3, <2>1, <3>1 DEF JobOK, Exists, HasStatus, Terminal
  <2>3. CASE HasStatus(Op(g), Terminal) /\ Goto(g, "done") /\ UNCHANGED <<jobVars, dropped>>
    BY <1>2, <1>10, <2>1, <2>3 DEF HasJob, InFlight, jobVars
  <2>4. CASE UNCHANGED jobVars /\ Goto(g, "done") /\ dropped' = dropped \cup {g}
    BY <1>2, <1>10, <2>1, <2>4 DEF HasJob, InFlight, jobVars
  <2> QED
    BY <1>12, <2>2, <2>3, <2>4 DEF Succeed
<1>13. CASE Seal(g)
  <2>1. /\ pc[g] = "seal" /\ pc'[g] = "done" /\ created' = created /\ g \in created
        /\ dropped \subseteq dropped'
    BY <1>1, <1>2, <1>13 DEF Seal, At, JobOK, HasJob, InFlight
  <2>2. Op(g) \in JobIds /\ (HasStatus(Op(g), Terminal) \/ g \in dropped) /\ Exists(Op(g))
    BY <1>1, <1>3, <2>1 DEF JobOK
  <2>3. jobs'[Op(g)].status = jobs[Op(g)].status /\ (jobs[Op(g)] # Absent => jobs'[Op(g)] # Absent)
    <3>1. CASE LoseLock
      BY <3>1 DEF LoseLock
    <3>2. CASE SucceedProgress(Op(g))
      <4>1. jobs[Op(g)] \in Job /\ jobs'[Op(g)] = [jobs[Op(g)] EXCEPT !.progress = FullProgress]
        BY <1>1, <2>2, <3>2 DEF SucceedProgress, Exists, JobsTypeOK
      <4>2. jobs'[Op(g)].status = jobs[Op(g)].status /\ jobs[Op(g)].status # "absent"
        BY <4>1 DEF Job, Open, Terminal
      <4> QED
        BY <4>2 DEF Absent
    <3> QED
      BY <1>13, <3>1, <3>2 DEF Seal
  <2> QED
    BY <1>3, <2>1, <2>2, <2>3 DEF JobOK, Exists, HasStatus, HasJob, InFlight
<1> QED
  BY <1>5, <1>6, <1>7, <1>8, <1>9, <1>11, <1>12, <1>13 DEF Call

\* How the git of a call ended and what the call was told, at the step that
\* it makes.
LEMMA CallExit ==
  ASSUME NetInv, NEW g \in Guards, Begin(g) \/ Call(g),
         RegistryAssumption, JobsAssumption, NetworkAssumption
  PROVE  ExitOK(g)'
<1>1. /\ pc \in [Guards \cup Writers -> Steps] /\ JobOK(g) /\ ExitOK(g)
      /\ exit \in [Guards -> {"none", "ok", "failed", "canceled", "partial"}]
      /\ told \in [Guards -> {"nothing", "completed", "canceled", "released"}] /\ JobsTypeOK
  BY CallFacts DEF NetInv, CallTypes, JobsInv, RegInv, RegTypeOK
<1>2. ASSUME NEW step, Goto(g, step)
      PROVE  pc'[g] = step
  BY <1>1, <1>2 DEF Goto
<1>3. ASSUME pc[g] # "idle"
      PROVE  Op(g)' = Op(g) /\ Op(g) \in JobIds
  <2>1. [Next]_vars
    BY <1>3 DEF Next
  <2>2. guard[g] # Unused /\ Op(g) \in JobIds
    BY <1>3, CallFacts, NetworkAssumption DEF GuardOK
  <2> QED
    BY <2>1, <2>2, PartsStep
<1>4. CASE Begin(g) \/ Bind(g) \/ TryLock(g) \/ Reject(g)
  <2>1. /\ pc[g] \in {"idle", "bind", "lock", "prepare"}
        /\ pc'[g] \in {"bind", "lock", "prepare", "done"} /\ created' = created
    BY <1>2, <1>4 DEF Begin, Bind, TryLock, Reject, At
  <2> QED
    BY <1>1, <2>1 DEF ExitOK, JobOK
<1>5. CASE Prepare(g) \/ StartJob(g)
  <2>1. pc[g] \in {"prepare", "start"} /\ pc'[g] \in {"start", "spawn"}
    BY <1>2, <1>5 DEF Prepare, StartJob, At
  <2>2. jobs'[Op(g)].status \in {"queued", "running"}
    <3>1. CASE Prepare(g)
      BY <1>1, <1>3, <2>1, <3>1 DEF Prepare, CreateWithId, JobsTypeOK
    <3>2. CASE StartJob(g)
      <4>1. pc[g] = "start"
        BY <3>2 DEF StartJob, At
      <4> QED
        BY <3>2, <4>1, OwnTransition, NetworkAssumption DEF StartJob, Start, HasJob, InFlight
    <3> QED
      BY <1>5, <3>1, <3>2
  <2> QED
    BY <1>3, <2>1, <2>2 DEF ExitOK, HasStatus
<1>6. CASE AbandonJob(g) \/ Settle(g)
  <2>1. /\ pc[g] \in {"start", "settle"} /\ pc'[g] \in {"done", "drop"} /\ created' = created
        /\ g \in created
    BY <1>1, <1>2, <1>6 DEF AbandonJob, Settle, At, JobOK, HasJob, InFlight
  <2>2. ~HasStatus(Op(g), {"succeeded"})
    BY <2>1, NotYetTold DEF Bound
  <2>3. UNCHANGED jobs \/ Cancel(Op(g)) \/ Fail(Op(g))
    BY <1>6 DEF AbandonJob, Settle, jobVars
  <2>4. Cancel(Op(g)) \/ Fail(Op(g)) => jobs'[Op(g)].status \in {"canceled", "failed"}
    BY <2>1, OwnTransition, NetworkAssumption DEF Cancel, Fail, HasJob, InFlight
  <2>5. ~HasStatus(Op(g), {"succeeded"})'
    BY <1>3, <2>1, <2>2, <2>3, <2>4 DEF HasStatus
  <2> QED
    BY <2>1, <2>5 DEF ExitOK
<1>7. CASE \/ Spawn(g) \/ AfterGit(g) \/ RefreshLock(g) \/ Refresh(g) \/ ReadState(g)
           \/ DropGuard(g) \/ Finish(g)
  <2>1. jobs' = jobs /\ created' = created
    BY <1>7 DEF Spawn, AfterGit, GitExits, RefreshLock, Refresh, ReadState, DropGuard, Finish,
       appVars, jobVars
  <2>2. pc[g] \in Bound /\ pc[g] # "idle"
    BY <1>7 DEF Spawn, AfterGit, GitExits, RefreshLock, Refresh, ReadState, DropGuard, Finish, At,
       Bound
  <2>3. g \in created' => ~HasStatus(Op(g), {"succeeded"})'
    BY <1>3, <2>1, <2>2, NotYetTold DEF HasStatus
  <2>4. /\ pc'[g] \in {"state", "finish", "succeed", "seal"} => exit'[g] = "ok"
        /\ pc'[g] \in {"succeed", "seal"} => told'[g] = "completed"
    <3>1. CASE Spawn(g) \/ AfterGit(g) \/ RefreshLock(g) \/ DropGuard(g)
      <4>1. pc'[g] \in {"refresh", "running", "refreshing", "done"}
        BY <1>2, <3>1 DEF Spawn, AfterGit, GitExits, RefreshLock, DropGuard
      <4> QED
        BY <4>1
    <3>2. CASE Refresh(g)
      <4>1. pc'[g] = IF exit'[g] = "ok" THEN "state" ELSE "settle"
        BY <1>2, <3>2 DEF Refresh
      <4> QED
        BY <4>1
    <3>3. CASE ReadState(g)
      <4>1. pc[g] = "state" /\ exit[g] = "ok"
        BY <1>1, <3>3 DEF ReadState, At, ExitOK
      <4>2. pc'[g] = "settle" \/ (pc'[g] = "finish" /\ exit' = exit)
        BY <1>2, <3>3 DEF ReadState
      <4> QED
        BY <4>1, <4>2
    <3>4. CASE Finish(g)
      <4>1. exit'[g] = "ok"
        BY <1>1, <3>4 DEF Finish, At, ExitOK
      <4>2. pc'[g] = IF told'[g] = "completed" THEN "succeed" ELSE "cancelJob"
        BY <1>2, <3>4 DEF Finish
      <4> QED
        BY <4>1, <4>2
    <3> QED
      BY <1>7, <3>1, <3>2, <3>3, <3>4
  <2> QED
    BY <2>3, <2>4 DEF ExitOK
<1>8. CASE CancelOwnJob(g) \/ Succeed(g) \/ Seal(g)
  <2>1. /\ pc[g] \in {"cancelJob", "succeed", "seal"} /\ pc'[g] \in {"seal", "done"}
        /\ exit' = exit /\ told' = told /\ created' = created
    BY <1>2, <1>8 DEF CancelOwnJob, Succeed, Seal, At, regVars
  <2>2. CASE Succeed(g) \/ Seal(g)
    <3>1. exit[g] = "ok" /\ told[g] = "completed"
      BY <1>1, <2>2 DEF Succeed, Seal, At, ExitOK
    <3> QED
      BY <2>1, <3>1 DEF ExitOK
  <2>3. CASE CancelOwnJob(g)
    <3>1. pc[g] = "cancelJob" /\ pc'[g] = "done"
      BY <1>2, <2>3 DEF CancelOwnJob, At
    <3>2. UNCHANGED jobs \/ Cancel(Op(g))
      BY <2>3 DEF CancelOwnJob, jobVars
    <3>3. Cancel(Op(g)) => jobs'[Op(g)].status = "canceled"
      BY <3>1, OwnTransition, NetworkAssumption DEF Cancel, HasJob, InFlight
    <3> QED
      BY <1>1, <1>3, <2>1, <3>1, <3>2, <3>3 DEF ExitOK, HasStatus
  <2> QED
    BY <1>8, <2>2, <2>3
<1> QED
  BY <1>4, <1>5, <1>6, <1>7, <1>8 DEF Call

\* The calls, all of them, after a step of one.
LEMMA CallInvStep ==
  ASSUME NetInv, NEW g \in Guards, Begin(g) \/ Call(g),
         RegistryAssumption, JobsAssumption, NetworkAssumption
  PROVE  CallInv'
<1>1. ASSUME NEW h \in Guards, h # g
      PROVE  GuardOK(h)' /\ JobOK(h)' /\ ExitOK(h)'
  <2>1. /\ pc'[h] = pc[h] /\ repo'[h] = repo[h] /\ guard'[h] = guard[h] /\ told'[h] = told[h]
        /\ exit'[h] = exit[h] /\ (h \in created' <=> h \in created) /\ dropped \subseteq dropped'
        /\ process' = process
    BY <1>1, BeginFrame, CallFrame DEF Frame
  <2>2. GuardOK(h) /\ JobOK(h) /\ ExitOK(h)
    BY CallFacts
  <2>3. GuardOK(h)'
    BY <2>1, <2>2 DEF GuardOK, Active
  <2>4. CASE h \in created
    <3>1. jobs'[Op(h)] = jobs[Op(h)] /\ Op(h)' = Op(h)
      BY <1>1, <2>4, OthersRows
    <3> QED
      BY <2>1, <2>2, <2>3, <2>4, <3>1 DEF JobOK, ExitOK, Exists, HasStatus
  <2>5. CASE h \notin created
    BY <2>1, <2>2, <2>3, <2>5 DEF JobOK, ExitOK
  <2> QED
    BY <2>4, <2>5
<1> QED
  BY <1>1, CallGuard, CallJob, CallExit DEF CallInv

-----------------------------------------------------------------------------
\* What only the calls do to the table: Prepare makes the one row there is
\* for the id of its call, and nobody else makes any.
LEMMA CallTable ==
  ASSUME NetInv, NEW g \in Guards, Begin(g) \/ Call(g), NetworkAssumption
  PROVE  /\ created' = created \/ (Prepare(g) /\ created' = created \cup {g})
         /\ \/ jobs' = jobs
            \/ /\ pc[g] # "idle" /\ Op(g) \in Ids
               /\ \/ Prepare(g)
                  \/ \E target : Transition(Op(g), target)
                  \/ SucceedProgress(Op(g))
         /\ writing' = writing \/ writing' = NoWrite \/ writing'.op = "succeed"
         /\ pc'[g] # "lost"
<1>1. pc \in [Guards \cup Writers -> Steps] /\ (pc[g] # "idle" => Op(g) \in Ids)
  BY CallFacts DEF NetInv, CallTypes
<1>2. ASSUME NEW step, Goto(g, step)
      PROVE  pc'[g] = step
  BY <1>1, <1>2 DEF Goto
<1>3. CASE Begin(g) \/ Bind(g) \/ TryLock(g) \/ Reject(g) \/ DropGuard(g)
  BY <1>2, <1>3 DEF Begin, Bind, TryLock, Reject, DropGuard, appVars, jobVars
<1>4. CASE Spawn(g) \/ AfterGit(g) \/ RefreshLock(g) \/ ReadState(g)
  BY <1>2, <1>4 DEF Spawn, AfterGit, GitExits, RefreshLock, ReadState, appVars, jobVars
<1>5. CASE Refresh(g) \/ Finish(g)
  BY <1>2, <1>5 DEF Refresh, Finish, appVars, jobVars
<1>6. CASE Prepare(g)
  BY <1>1, <1>2, <1>6 DEF Prepare, At, CreateWithId
<1>7. CASE StartJob(g) \/ AbandonJob(g)
  <2>1. pc[g] # "idle" /\ pc'[g] # "lost" /\ created' = created
    BY <1>2, <1>7 DEF StartJob, AbandonJob, At
  <2>2. (\E target : Transition(Op(g), target) /\ writing' = writing) \/ UNCHANGED jobVars
    BY <1>7 DEF StartJob, AbandonJob, Start, Cancel, jobVars
  <2> QED
    BY <1>1, <2>1, <2>2 DEF jobVars
<1>8. CASE Settle(g) \/ CancelOwnJob(g)
  <2>1. pc[g] # "idle" /\ pc'[g] # "lost" /\ created' = created
    BY <1>2, <1>8 DEF Settle, CancelOwnJob, At
  <2>2. (\E target : Transition(Op(g), target) /\ writing' = writing) \/ UNCHANGED jobVars
    BY <1>8 DEF Settle, CancelOwnJob, Fail, Cancel, jobVars
  <2> QED
    BY <1>1, <2>1, <2>2 DEF jobVars
<1>9. CASE Succeed(g) \/ Seal(g)
  <2>1. pc[g] # "idle" /\ pc'[g] # "lost" /\ created' = created
    BY <1>2, <1>9 DEF Succeed, Seal, At
  <2>2. \/ \E target : Transition(Op(g), target) /\ writing'.op = "succeed"
        \/ UNCHANGED jobVars
        \/ (SucceedProgress(Op(g)) \/ UNCHANGED jobs) /\ writing' = NoWrite
    BY <1>9 DEF Succeed, Seal, SucceedStatus, SucceedProgress, LoseLock, jobVars
  <2> QED
    BY <1>1, <2>1, <2>2 DEF jobVars
<1> QED
  BY <1>3, <1>4, <1>5, <1>6, <1>7, <1>8, <1>9 DEF Call

\* One job for each call, of a transport kind, in a process that is up.
LEMMA CallTableInv ==
  ASSUME NetInv, NEW g \in Guards, Begin(g) \/ Call(g),
         RegistryAssumption, JobsAssumption, NetworkAssumption
  PROVE  OneJobEach' /\ ProcessInv' /\ KindInv'
<1>1. [Next]_vars /\ Frame(g)
  BY BeginFrame, CallFrame DEF Next
<1>2. OneJobEach'
  <2>1. ASSUME NEW h \in created, h # g
        PROVE  Op(h)' = Op(h)
    BY <2>1, OthersRows
  <2>2. ASSUME g \in created'
        PROVE  Op(g)' = Op(g)
    <3>1. pc[g] # "idle"
      BY <2>2, CallTable, CallFacts DEF Prepare, At, JobOK
    <3>2. guard[g] # Unused
      BY <3>1, CallFacts DEF GuardOK
    <3> QED
      BY <1>1, <3>2, PartsStep
  <2>3. CASE created' = created
    BY <2>1, <2>2, <2>3 DEF NetInv, OneJobEach
  <2>4. CASE Prepare(g) /\ created' = created \cup {g}
    <3>1. ASSUME NEW h \in created, h # g
          PROVE  Op(h) # Op(g)
      <4>1. Exists(Op(h))
        BY <3>1, CallFacts DEF NetInv, CallTypes, JobOK
      <4> QED
        BY <2>4, <4>1 DEF Prepare, CreateWithId
    <3> QED
      BY <2>1, <2>2, <2>4, <3>1 DEF NetInv, OneJobEach
  <2> QED
    BY <2>3, <2>4, CallTable, NetworkAssumption
<1>3. ProcessInv'
  <2>1. process = "up" /\ process' = "up"
    BY <1>1 DEF Frame, IsUp
  <2>2. writing'.op # "failRunning"
    BY <2>1, CallTable, NetworkAssumption DEF NetInv, ProcessInv, NoWrite
  <2> QED
    BY <2>1, <2>2 DEF ProcessInv
<1>4. KindInv'
  <2> SUFFICES ASSUME NEW id \in JobIds, Exists(id)'
               PROVE  jobs'[id].kind \in TransportKinds /\ id \in Ids
    BY DEF KindInv
  <2>1. CASE Exists(id)
    BY <1>1, <2>1, StepOfTable, RowStays DEF NetInv, KindInv
  <2>2. CASE ~Exists(id)
    <3>1. jobs'[id] # jobs[id]
      BY <2>2 DEF Exists
    <3>2. id = Op(g) /\ Op(g) \in Ids /\ Op(g) \in JobIds /\ JobsTypeOK
      BY <1>1, <3>1, CallTable, NetworkAssumption DEF Frame, NetInv, JobsInv
    <3>3. ASSUME NEW target, Transition(Op(g), target)
          PROVE  FALSE
      BY <2>2, <3>2, <3>3, TransitionType DEF Exists, Absent, Job, Open, Terminal
    <3>4. ~SucceedProgress(Op(g))
      BY <2>2, <3>2 DEF SucceedProgress, NetInv, JobsInv, PendingWritesApply, Exists, Absent
    <3>5. Prepare(g)
      BY <3>1, <3>3, <3>4, CallTable, NetworkAssumption
    <3> QED
      BY <3>2, <3>5 DEF Prepare, CreateWithId, JobsTypeOK
  <2> QED
    BY <2>1, <2>2
<1> QED
  BY <1>2, <1>3, <1>4

\* The gap between the git of a call and its refresh.
LEMMA CallGap ==
  ASSUME NetInv, NEW g \in Guards, Begin(g) \/ Call(g), NetworkAssumption
  PROVE  GapInv'
<1>1. /\ pc \in [Guards \cup Writers -> Steps] /\ Frame(g) /\ GapInv
      /\ snapshot \in [Resources -> {"current", "outdated", "failed", "lost"}]
  BY BeginFrame, CallFrame DEF NetInv, CallTypes
<1>2. ASSUME NEW step, Goto(g, step)
      PROVE  pc'[g] = step
  BY <1>1, <1>2 DEF Goto
<1>3. ASSUME snapshot' = snapshot, repo'[g] = repo[g],
             pc[g] \in {"refresh", "refreshing"} => pc'[g] \in {"refresh", "refreshing"}
      PROVE  GapInv'
  BY <1>1, <1>3 DEF GapInv, Frame
<1>4. CASE Begin(g)
  <2>1. snapshot' = snapshot /\ pc[g] = "idle"
    BY <1>4 DEF Begin, At
  <2> QED
    BY <1>1, <2>1 DEF GapInv, Frame
<1>5. CASE \/ Bind(g) \/ TryLock(g) \/ Prepare(g) \/ Reject(g) \/ StartJob(g) \/ AbandonJob(g)
           \/ Spawn(g)
  <2>1. snapshot' = snapshot /\ repo' = repo /\ pc[g] \notin {"refresh", "refreshing"}
    BY <1>5 DEF Bind, TryLock, Prepare, Reject, StartJob, AbandonJob, Spawn, At
  <2> QED
    BY <1>3, <2>1
<1>6. CASE \/ ReadState(g) \/ Settle(g) \/ DropGuard(g) \/ Finish(g) \/ CancelOwnJob(g)
           \/ Succeed(g) \/ Seal(g)
  <2>1. snapshot' = snapshot /\ repo' = repo /\ pc[g] \notin {"refresh", "refreshing"}
    BY <1>6 DEF ReadState, Settle, DropGuard, Finish, CancelOwnJob, Succeed, Seal, At
  <2> QED
    BY <1>3, <2>1
<1>7. CASE RefreshLock(g)
  <2>1. snapshot' = snapshot /\ repo' = repo /\ pc'[g] = "refreshing"
    BY <1>2, <1>7 DEF RefreshLock
  <2> QED
    BY <1>3, <2>1
<1>8. CASE AfterGit(g)
  <2>1. /\ snapshot' = [snapshot EXCEPT ![repo[g]] = "outdated"] /\ repo' = repo
        /\ pc[g] = "running" /\ pc'[g] = "refresh"
    BY <1>2, <1>8 DEF AfterGit, GitExits, At
  <2> QED
    BY <1>1, <2>1 DEF GapInv, Frame
<1>9. CASE Refresh(g)
  <2>1. repo' = repo /\ pc[g] = "refreshing"
    BY <1>9 DEF Refresh, At
  <2>2. repo[g] \in Resources
    BY <2>1, CallFacts
  <2>3. snapshot'[repo[g]] # "outdated"
    BY <1>1, <1>9, <2>2 DEF Refresh, Publish
  <2> QED
    BY <1>1, <2>1, <2>2, <2>3 DEF GapInv, Frame
<1> QED
  BY <1>4, <1>5, <1>6, <1>7, <1>8, <1>9 DEF Call

\* Whoever is to close an open job is still there after a step of one call.
LEMMA CallOpen ==
  ASSUME NetInv, NEW g \in Guards, Begin(g) \/ Call(g),
         RegistryAssumption, JobsAssumption, NetworkAssumption
  PROVE  OpenInv'
<1> SUFFICES ASSUME NEW id \in Ids, HasStatus(id, Open)'
             PROVE  \E h \in created' : Op(h)' = id /\
                      \/ pc'[h] \in InFlight
                      \/ h \in dropped'
                      \/ pc'[h] = "lost" /\ (HasStatus(id, {"queued"})' \/ ~IsUp')
  BY DEF OpenInv
<1>1. Frame(g) /\ [Next]_vars /\ created \subseteq Guards /\ id \in JobIds
  BY BeginFrame, CallFrame, NetworkAssumption DEF Next, NetInv, CallTypes
<1>2. CASE g \in created' /\ Op(g)' = id
  <2>1. JobOK(g)' /\ pc'[g] \in Steps /\ pc'[g] # "lost"
    BY CallTypesStep, CallJob, CallTable, RegistryAssumption, JobsAssumption, NetworkAssumption
       DEF CallTypes
  <2>2. pc'[g] = "done" => g \in dropped'
    BY <1>2, <2>1 DEF JobOK, HasStatus, Open, Terminal
  <2>3. pc'[g] \in InFlight \/ g \in dropped'
    BY <1>2, <2>1, <2>2 DEF JobOK, Steps
  <2> QED
    BY <1>2, <2>3
<1>3. CASE ~(g \in created' /\ Op(g)' = id)
  <2>1. jobs'[id] = jobs[id]
    <3> SUFFICES ASSUME jobs'[id] # jobs[id]
                 PROVE  FALSE
      OBVIOUS
    <3>1. id = Op(g)
      BY <1>1 DEF Frame
    <3>2. pc[g] # "idle" /\ (Prepare(g) \/ pc[g] \in HasJob)
      BY CallTable, NetworkAssumption DEF Call, Begin, Bind, TryLock, Prepare, Reject, At, HasJob,
         InFlight, StartJob, AbandonJob, Spawn, AfterGit, GitExits, RefreshLock, Refresh, ReadState, Settle,
         DropGuard, Finish, CancelOwnJob, Succeed, Seal, appVars, jobVars
    <3>3. g \in created'
      BY <1>1, <3>2, CallFacts DEF JobOK, Prepare, Frame
    <3>4. Op(g)' = Op(g)
      BY <1>1, <3>2, PartsStep, CallFacts DEF GuardOK
    <3> QED
      BY <1>3, <3>1, <3>3, <3>4
  <2>2. PICK h \in created : /\ Op(h) = id
                             /\ \/ pc[h] \in InFlight
                                \/ h \in dropped
                                \/ pc[h] = "lost" /\ (HasStatus(id, {"queued"}) \/ ~IsUp)
    BY <2>1 DEF NetInv, OpenInv, HasStatus
  <2>3. h # g
    <3> SUFFICES ASSUME h = g
                 PROVE  FALSE
      OBVIOUS
    <3>1. g \in created' /\ guard[g] # Unused
      BY <1>1, CallFacts DEF Frame, JobOK, GuardOK
    <3> QED
      BY <1>1, <1>3, <2>2, <3>1, PartsStep
  <2>4. pc'[h] = pc[h] /\ Op(h)' = Op(h) /\ h \in created' /\ (h \in dropped => h \in dropped')
        /\ process' = process
    BY <1>1, <2>3, OthersRows DEF Frame
  <2> QED
    BY <2>1, <2>2, <2>4 DEF HasStatus, IsUp
<1> QED
  BY <1>2, <1>3

\* Every step of a call keeps the invariant.
LEMMA CallStep ==
  ASSUME NetInv, NEW g \in Guards, Begin(g) \/ Call(g),
         RegistryAssumption, JobsAssumption, NetworkAssumption
  PROVE  NetInv'
<1>1. [Next]_vars
  BY DEF Next
<1>2. RegInv' /\ JobsInv'
  BY <1>1, PartsStep
<1>3. process' \in {"up", "down", "starting"}
  BY BeginFrame, CallFrame DEF Frame, NetInv
<1> QED
  BY <1>2, <1>3, CallTypesStep, CallLockStep, CallInvStep, CallTableInv, CallGap, CallOpen
     DEF NetInv

-----------------------------------------------------------------------------
\* A step that moves no call and holds no lock keeps what is said of them.
LEMMA CallsAtRest ==
  ASSUME NetInv, \A id \in JobIds : Mild(id), NetworkAssumption,
         UNCHANGED <<guard, told, exit, created, dropped, pc, repo, lock, snapshot>>
  PROVE  CallInv' /\ OneJobEach' /\ LockInv' /\ GapInv' /\ KindInv'
<1>1. ASSUME NEW g \in Guards
      PROVE  GuardOK(g)' /\ JobOK(g)' /\ ExitOK(g)'
  <2>1. GuardOK(g) /\ JobOK(g) /\ ExitOK(g) /\ Op(g)' = Op(g)
    BY CallFacts DEF Op
  <2>2. GuardOK(g)'
    BY <2>1 DEF GuardOK, Active
  <2>3. CASE g \in created
    <3>1. Exists(Op(g)) /\ Op(g) \in JobIds
      BY <2>1, <2>3, CallFacts, NetworkAssumption DEF JobOK
    <3>2. /\ Exists(Op(g))'
          /\ ~HasStatus(Op(g), {"queued"}) => ~HasStatus(Op(g), {"queued"})'
          /\ ~HasStatus(Op(g), {"running"}) => ~HasStatus(Op(g), {"running"})'
          /\ ~HasStatus(Op(g), {"succeeded"}) => ~HasStatus(Op(g), {"succeeded"})'
          /\ HasStatus(Op(g), Terminal) => HasStatus(Op(g), Terminal)'
      BY <2>1, <3>1 DEF Mild, Exists, HasStatus, Terminal
    <3> QED
      BY <2>1, <2>2, <2>3, <3>2 DEF JobOK, ExitOK
  <2>4. CASE g \notin created
    BY <2>1, <2>2, <2>4 DEF JobOK, ExitOK
  <2> QED
    BY <2>3, <2>4
<1>2. OneJobEach'
  BY DEF NetInv, OneJobEach, Op
<1>3. LockInv' /\ GapInv'
  BY DEF NetInv, LockInv, GapInv
<1>4. KindInv'
  BY DEF NetInv, KindInv, Mild, Exists, HasStatus, Open, Absent
<1> QED
  BY <1>1, <1>2, <1>3, <1>4 DEF CallInv

\* Who has to close an open job, after a step that moves no call.
LEMMA OpenAtRest ==
  ASSUME NetInv, \A id \in JobIds : Mild(id), NetworkAssumption,
         UNCHANGED <<guard, created, dropped, pc>>,
         IsUp' => IsUp \/ RunningTransport' = {}, KindInv'
  PROVE  OpenInv'
<1> SUFFICES ASSUME NEW id \in Ids, HasStatus(id, Open)'
             PROVE  \E h \in created' : Op(h)' = id /\
                      \/ pc'[h] \in InFlight
                      \/ h \in dropped'
                      \/ pc'[h] = "lost" /\ (HasStatus(id, {"queued"})' \/ ~IsUp')
  BY DEF OpenInv
<1>1. id \in JobIds /\ HasStatus(id, Open) /\ jobs'[id].status = jobs[id].status
  BY NetworkAssumption DEF Mild, HasStatus, Open
<1>2. PICK h \in created : /\ Op(h) = id
                           /\ \/ pc[h] \in InFlight
                              \/ h \in dropped
                              \/ pc[h] = "lost" /\ (HasStatus(id, {"queued"}) \/ ~IsUp)
  BY <1>1 DEF NetInv, OpenInv
<1>3. Op(h)' = id
  BY <1>2 DEF Op
<1>4. CASE ~IsUp /\ IsUp'
  <2>1. Exists(id)'
    BY <1>1 DEF HasStatus, Open, Exists, Absent
  <2>2. id \notin RunningTransport'
    BY <1>4
  <2>3. jobs'[id].status = "queued"
    BY <1>1, <2>1, <2>2 DEF RunningTransport, KindInv, HasStatus, Open
  <2> QED
    BY <1>2, <1>3, <2>3 DEF HasStatus
<1> QED
  BY <1>1, <1>2, <1>3, <1>4 DEF HasStatus

-----------------------------------------------------------------------------
\* A local write takes the lock only when it is free, and publishes before it
\* lets it go.
LEMMA WriterStep ==
  ASSUME NetInv, NEW w \in Writers, WriterLock(w) \/ WriterEnd(w), NetworkAssumption,
         RegistryAssumption, JobsAssumption
  PROVE  NetInv'
<1>1. /\ w \notin Guards /\ w # None /\ CallTypes /\ LockInv /\ [Next]_vars
      /\ \A g \in Guards : g # None
  BY NetworkAssumption, RegistryAssumption DEF NetInv, Next
<1>2. RegInv' /\ JobsInv'
  BY <1>1, PartsStep
<1>3. /\ UNCHANGED <<jobs, writing, process, guard, told, exit, created, dropped, pending>>
      /\ \A c \in (Guards \cup Writers) \ {w} : pc'[c] = pc[c] /\ repo'[c] = repo[c]
      /\ process = "up"
  BY <1>1 DEF WriterLock, WriterEnd, appVars, jobVars, regVars, At, IsUp, Goto, CallTypes
<1>4. CallTypes' /\ LockInv' /\ GapInv'
  <2>1. CASE WriterLock(w)
    <3>1. PICK r \in Resources : /\ lock[r] = None /\ lock' = [lock EXCEPT ![r] = w]
                                 /\ repo' = [repo EXCEPT ![w] = r]
      BY <2>1 DEF WriterLock
    <3>2. /\ pc[w] = "idle" /\ pc' = [pc EXCEPT ![w] = "running"]
          /\ UNCHANGED <<exit, created, snapshot, pending, dropped>>
      BY <2>1 DEF WriterLock, At, Goto
    <3>3. CallTypes'
      BY <1>1, <3>1, <3>2 DEF CallTypes, Steps, InFlight
    <3>4. LockInv'
      BY <1>1, <1>3, <3>1, <3>2 DEF LockInv, CallTypes, Locked
    <3>5. GapInv'
      BY <1>1, <1>3, <3>2 DEF NetInv, GapInv
    <3> QED
      BY <3>3, <3>4, <3>5
  <2>2. CASE WriterEnd(w)
    <3>1. /\ pc[w] = "running" /\ pc' = [pc EXCEPT ![w] = "done"] /\ repo' = repo
          /\ lock' = [lock EXCEPT ![repo[w]] = None]
          /\ UNCHANGED <<exit, created, pending, dropped>>
      BY <2>2 DEF WriterEnd, At, Goto, Unlock
    <3>2. repo[w] \in Resources /\ lock[repo[w]] = w
      BY <1>1, <3>1 DEF LockInv, Locked
    <3>3. PICK worth \in {"current", "failed", "lost"} :
            snapshot' = [snapshot EXCEPT ![repo[w]] = IF worth # "lost" THEN worth
                                    ELSE IF @ = "outdated" THEN "lost" ELSE @]
      BY <2>2 DEF WriterEnd, Publish
    <3>4. CallTypes'
      BY <1>1, <3>1, <3>2, <3>3 DEF CallTypes, Steps, InFlight
    <3>5. LockInv'
      BY <1>1, <1>3, <3>1, <3>2 DEF LockInv, CallTypes, Locked
    <3>6. \A r \in Resources : snapshot'[r] = "outdated" => snapshot[r] = "outdated"
      BY <1>1, <3>2, <3>3 DEF CallTypes
    <3>7. GapInv'
      BY <1>1, <1>3, <3>1, <3>6 DEF NetInv, GapInv
    <3> QED
      BY <3>4, <3>5, <3>7
  <2> QED
    BY <2>1, <2>2
<1>5. CallInv'
  <2>1. ASSUME NEW g \in Guards
        PROVE  GuardOK(g)' /\ JobOK(g)' /\ ExitOK(g)'
    <3>1. /\ GuardOK(g) /\ JobOK(g) /\ ExitOK(g) /\ Op(g)' = Op(g)
          /\ pc'[g] = pc[g] /\ repo'[g] = repo[g]
      BY <1>1, <1>3, CallFacts DEF Op
    <3> QED
      BY <1>3, <3>1 DEF GuardOK, JobOK, ExitOK, Active, Exists, HasStatus
  <2> QED
    BY <2>1 DEF CallInv
<1>6. OneJobEach' /\ ProcessInv' /\ KindInv'
  BY <1>3 DEF NetInv, OneJobEach, Op, ProcessInv, KindInv, Exists
<1>7. OpenInv'
  BY <1>1, <1>3 DEF NetInv, CallTypes, OpenInv, Op, HasStatus, IsUp
<1> QED
  BY <1>2, <1>3, <1>4, <1>5, <1>6, <1>7 DEF NetInv

\* The cancel command raises a flag in the registry; the job table comes
\* later, and the button of the Task Center knows nothing else.
LEMMA CancelingStep ==
  ASSUME NetInv, NEW id \in Ids, CancelCommand(id) \/ FlagJob(id) \/ TaskCenterCancel(id),
         NetworkAssumption, RegistryAssumption, JobsAssumption
  PROVE  NetInv'
<1>1. [Next]_vars /\ id \in JobIds
  BY NetworkAssumption DEF Next
<1>2. RegInv' /\ JobsInv'
  BY <1>1, PartsStep
<1>3. /\ UNCHANGED <<guard, told, exit, created, dropped, pc, repo, lock, snapshot>>
      /\ UNCHANGED <<process, writing>> /\ process = "up"
      /\ pending' \subseteq pending \cup {id}
      /\ UNCHANGED jobs \/ RequestCancel(id) \/ Cancel(id)
  BY DEF CancelCommand, FlagJob, TaskCenterCancel, CancelOwned, appVars, jobVars, regVars, callVars,
     IsUp, RequestCancel, Cancel
<1>4. \A i \in JobIds : Mild(i)
  BY <1>1, <1>3, CancelIsMild DEF NetInv, Mild
<1>5. CallInv' /\ OneJobEach' /\ LockInv' /\ GapInv' /\ KindInv'
  BY <1>3, <1>4, CallsAtRest, NetworkAssumption
<1>6. OpenInv'
  BY <1>3, <1>4, <1>5, OpenAtRest, NetworkAssumption DEF IsUp
<1>7. CallTypes' /\ ProcessInv'
  BY <1>3 DEF NetInv, CallTypes, ProcessInv
<1> QED
  BY <1>2, <1>3, <1>5, <1>6, <1>7 DEF NetInv

\* The process dies: every call in flight is lost, with its guard and locks.
LEMMA CrashStep ==
  ASSUME NetInv, Crash, NetworkAssumption, RegistryAssumption, JobsAssumption
  PROVE  NetInv'
<1>1. [Next]_vars /\ CallTypes
  BY DEF Next, NetInv
<1>2. RegInv' /\ JobsInv' /\ guard \in [Guards -> GuardRec]
  BY <1>1, PartsStep DEF NetInv, RegInv, RegTypeOK
<1>3. /\ UNCHANGED <<jobs, repo, created, dropped, told>> /\ process' = "down"
      /\ writing' = NoWrite /\ pending' = {} /\ lock' = [r \in Resources |-> None]
      /\ guard' = [g \in Guards |->
            IF Active(g) THEN [guard[g] EXCEPT !.state = "gone"] ELSE guard[g]]
  BY DEF Crash, Die, LoseLock, Vanish
<1>4. /\ pc' = [c \in Guards \cup Writers |-> IF pc[c] \in InFlight THEN "lost" ELSE pc[c]]
      /\ exit' = [g \in Guards |-> IF pc[g] \in InFlight THEN "none" ELSE exit[g]]
  BY DEF Crash
<1>5. \A c \in Guards \cup Writers : pc'[c] \in {"idle", "done", "lost"}
  BY <1>1, <1>4 DEF CallTypes, Steps
<1>6. snapshot' \in [Resources -> {"current", "failed", "lost"}]
  BY <1>1 DEF Crash, CallTypes
<1>7. CallTypes'
  BY <1>1, <1>3, <1>4, <1>5, <1>6 DEF CallTypes, Steps
<1>8. LockInv'
  <2>1. \A c \in Guards \cup Writers : c # None /\ pc'[c] \notin Locked
    BY <1>5, NetworkAssumption, RegistryAssumption DEF Locked
  <2>2. \A c \in Guards \cup Writers : pc'[c] # "idle" => pc[c] # "idle"
    BY <1>4 DEF InFlight
  <2> QED
    BY <1>1, <1>3, <2>1, <2>2 DEF NetInv, LockInv
<1>9. ASSUME NEW g \in Guards
      PROVE  /\ GuardOK(g)' /\ JobOK(g)' /\ ExitOK(g)' /\ Op(g)' = Op(g)
             /\ pc[g] \in InFlight => pc'[g] = "lost"
             /\ pc[g] \notin InFlight => pc'[g] = pc[g]
  <2>1. GuardOK(g) /\ JobOK(g) /\ ExitOK(g) /\ pc[g] \in Steps
    BY CallFacts
  <2>2. /\ pc'[g] = IF pc[g] \in InFlight THEN "lost" ELSE pc[g]
        /\ exit'[g] = IF pc[g] \in InFlight THEN "none" ELSE exit[g]
        /\ pc'[g] \in {"idle", "done", "lost"}
    BY <1>4, <1>5
  <2>3. /\ Active(g) => guard'[g].state = "gone" /\ guard'[g].id = guard[g].id
        /\ ~Active(g) => guard'[g] = guard[g]
    BY <1>2, <1>3 DEF Active, GuardRec
  <2>4. Op(g)' = Op(g)
    BY <2>3 DEF Op
  <2>5. GuardOK(g)'
    <3>1. CASE pc[g] = "idle"
      BY <2>1, <2>2, <2>3, <3>1 DEF GuardOK, Active, Unused, InFlight, Bound, Unguarded
    <3>2. CASE pc[g] # "idle"
      <4>1. pc'[g] \in {"done", "lost"} /\ (Active(g) \/ guard[g].state = "gone")
        BY <2>1, <2>2, <3>2 DEF GuardOK, Bound, Unguarded, Steps, InFlight
      <4>2. guard'[g].state = "gone"
        BY <2>3, <4>1
      <4> QED
        BY <4>1, <4>2 DEF GuardOK, Bound, Unguarded, Unused
    <3> QED
      BY <3>1, <3>2
  <2>6. JobOK(g)'
    BY <1>3, <2>1, <2>2, <2>4 DEF JobOK, HasJob, InFlight, Steps, Exists, HasStatus
  <2>7. ExitOK(g)'
    BY <1>3, <2>1, <2>2, <2>4 DEF ExitOK, InFlight, HasStatus
  <2> QED
    BY <2>2, <2>4, <2>5, <2>6, <2>7
<1>10. CallInv' /\ OneJobEach'
  BY <1>1, <1>3, <1>9 DEF CallInv, NetInv, OneJobEach, CallTypes
<1>11. ProcessInv' /\ KindInv' /\ GapInv'
  BY <1>3, <1>5, <1>6 DEF NetInv, ProcessInv, KindInv, GapInv, Exists
<1>12. OpenInv'
  <2> SUFFICES ASSUME NEW id \in Ids, HasStatus(id, Open)'
               PROVE  \E h \in created' : Op(h)' = id /\ (h \in dropped' \/ pc'[h] = "lost")
    BY <1>3 DEF OpenInv, IsUp
  <2>1. PICK h \in created : Op(h) = id /\ (pc[h] \in InFlight \/ h \in dropped \/ pc[h] = "lost")
    BY <1>3 DEF NetInv, OpenInv, HasStatus
  <2>2. h \in Guards /\ (pc[h] = "lost" => pc[h] \notin InFlight)
    BY <1>1 DEF CallTypes, InFlight
  <2> QED
    BY <1>3, <1>9, <2>1, <2>2
<1> QED
  BY <1>2, <1>3, <1>7, <1>8, <1>10, <1>11, <1>12 DEF NetInv

\* A start fails what it finds running, row by row, before it takes commands.
LEMMA StartupStep ==
  ASSUME NetInv, Startup, NetworkAssumption, RegistryAssumption, JobsAssumption
  PROVE  NetInv'
<1>1. [Next]_vars /\ UNCHANGED <<regVars, callVars>>
  BY DEF Next, Startup
<1>2. RegInv' /\ JobsInv'
  BY <1>1, PartsStep
<1>3. UNCHANGED <<guard, told, exit, created, dropped, pc, repo, lock, snapshot, pending>>
  BY <1>1 DEF regVars, callVars
<1> DEFINE Swept ==
      /\ \A i \in JobIds : Mild(i)
      /\ process' = "starting" => writing' = [op |-> "failRunning", ids |-> RunningTransport']
      /\ process' = "up" => writing' = NoWrite /\ RunningTransport' = {}
      /\ process' \in {"up", "starting"} /\ process # "up"
<1>4. Swept
  <2>1. CASE Boot
    <3>1. process = "down" /\ jobs' = jobs /\ RunningTransport' = RunningTransport
      BY <2>1 DEF Boot, FailRunningList, jobVars, RunningTransport, HasStatus
    <3>2. writing = NoWrite
      BY <3>1 DEF NetInv, ProcessInv
    <3> QED
      BY <2>1, <3>1, <3>2 DEF Boot, FailRunningList, jobVars, Mild
  <2>2. ASSUME NEW id \in JobIds, Sweep(id)
        PROVE  Swept
    <3>1. /\ process = "starting" /\ FailRunningRow(id)
          /\ writing.op = "failRunning" /\ writing.ids = RunningTransport
          /\ writing \in WriteState
      BY <2>2 DEF Sweep, NetInv, ProcessInv, JobsInv, JobsTypeOK
    <3>2. /\ Transition(id, "failed") /\ id \in RunningTransport
          /\ writing' = IF RunningTransport = {id} THEN NoWrite
                        ELSE [op |-> "failRunning", ids |-> RunningTransport \ {id}]
      BY <3>1 DEF FailRunningRow, WriteState
    <3>3. /\ jobs'[id].status = "failed"
          /\ \A other \in JobIds \ {id} : jobs'[other] = jobs[other]
      BY <3>2, TransitionType DEF NetInv, JobsInv
    <3>4. RunningTransport' = RunningTransport \ {id}
      BY <3>3 DEF RunningTransport, HasStatus
    <3>5. \A i \in JobIds : Mild(i)
      BY <3>1, CancelIsMild DEF NetInv
    <3> QED
      BY <2>2, <3>1, <3>2, <3>4, <3>5 DEF Sweep, NoWrite
  <2> QED
    BY <2>1, <2>2 DEF Startup
<1>5. CallInv' /\ OneJobEach' /\ LockInv' /\ GapInv' /\ KindInv'
  BY <1>3, <1>4, CallsAtRest, NetworkAssumption
<1>6. OpenInv'
  BY <1>3, <1>4, <1>5, OpenAtRest, NetworkAssumption DEF IsUp
<1>7. CallTypes' /\ ProcessInv'
  BY <1>3, <1>4 DEF NetInv, CallTypes, ProcessInv, NoWrite
<1> QED
  BY <1>2, <1>4, <1>5, <1>6, <1>7 DEF NetInv

\* Every step of the network keeps the invariant.
LEMMA NetStep ==
  ASSUME NetInv, [Next]_vars, NetworkAssumption, RegistryAssumption, JobsAssumption
  PROVE  NetInv'
<1>1. CASE UNCHANGED vars
  <2>1. RegInv' /\ JobsInv'
    BY <1>1, PartsStep
  <2>2. UNCHANGED <<guard, told, exit, created, dropped, pc, repo, lock, snapshot, pending>>
        /\ UNCHANGED <<jobs, writing, process>>
    BY <1>1 DEF vars, appVars, jobVars, regVars, callVars
  <2>3. CallInv' /\ OneJobEach' /\ LockInv' /\ GapInv' /\ KindInv'
    BY <2>2, CallsAtRest, NetworkAssumption DEF Mild
  <2>4. CallTypes' /\ ProcessInv'
    BY <2>2 DEF NetInv, CallTypes, ProcessInv, RunningTransport, HasStatus
  <2>5. OpenInv'
    BY <2>2, <2>3, OpenAtRest, NetworkAssumption DEF Mild, IsUp
  <2> QED
    BY <2>1, <2>2, <2>3, <2>4, <2>5 DEF NetInv
<1> QED
  BY <1>1, CallStep, WriterStep, CancelingStep, CrashStep, StartupStep, NetworkAssumption,
     RegistryAssumption, JobsAssumption DEF Next

-----------------------------------------------------------------------------
\* NetInv holds in every behaviour of the network operations.
THEOREM NetworkInvariant == Spec => []NetInv
<1>1. Init => NetInv
  <2> SUFFICES ASSUME Init
               PROVE  NetInv
    OBVIOUS
  <2>1. RegInv /\ JobsInv /\ process = "up" /\ writing = NoWrite
    BY RegInitInv, JobsInitInv DEF Init, AppInit, JobsInit
  <2>2. CallTypes /\ LockInv
    BY RegistryAssumption, NetworkAssumption DEF Init, CallTypes, LockInv, Steps, Locked
  <2>3. CallInv
    <3>1. ASSUME NEW g \in Guards
          PROVE  pc[g] = "idle" /\ guard[g] = Unused /\ g \notin created
      BY DEF Init, RegInit
    <3> QED
      BY <3>1 DEF CallInv, GuardOK, JobOK, ExitOK, HasJob, InFlight, Bound, Unguarded
  <2>4. OneJobEach /\ ProcessInv /\ GapInv
    BY <2>1 DEF Init, OneJobEach, ProcessInv, GapInv, NoWrite
  <2>5. \A id \in JobIds : ~Exists(id) /\ ~HasStatus(id, Open)
    BY DEF Init, AppInit, JobsInit, Exists, HasStatus, Absent, Open
  <2>6. KindInv /\ OpenInv
    BY <2>5, NetworkAssumption DEF KindInv, OpenInv
  <2> QED
    BY <2>1, <2>2, <2>3, <2>4, <2>6 DEF NetInv
<1>2. NetInv /\ [Next]_vars => NetInv'
  BY NetStep, NetworkAssumption, RegistryAssumption, JobsAssumption
<1> QED
  BY <1>1, <1>2, PTL DEF Spec

\* No two of the processes that the application runs ever work on one
\* repository: not two network operations, and not one and a local write.
THEOREM RepositoriesStayExclusive == Spec => []RepositoryExclusive
<1>1. NetInv => RepositoryExclusive
  <2> SUFFICES ASSUME NetInv, NEW c \in Guards \cup Writers, NEW d \in Guards \cup Writers,
                      pc[c] = "running", pc[d] = "running", repo[c] = repo[d]
               PROVE  c = d
    BY DEF RepositoryExclusive
  <2>1. repo[c] \in Resources
    BY DEF NetInv, LockInv
  <2>2. lock[repo[c]] = c /\ lock[repo[c]] = d
    BY <2>1 DEF NetInv, LockInv, Locked
  <2> QED
    BY <2>2
<1> QED
  BY <1>1, NetworkInvariant, PTL

\* Between the git of a call and its refresh, while the write lock is open,
\* the registry entry of the call keeps every other network operation off the
\* repository (execute_network drops the lock and keeps the guard).
THEOREM GapIsAlwaysCovered == Spec => []GapIsCovered
<1>1. NetInv => GapIsCovered
  <2> SUFFICES ASSUME NetInv, NEW r \in Resources, snapshot[r] = "outdated"
               PROVE  \E g \in Guards :
                        /\ repo[g] = r
                        /\ pc[g] \in {"refresh", "refreshing"}
                        /\ \A h \in Guards : repo[h] = r => pc[h] # "prepare"
    BY DEF GapIsCovered
  <2>1. PICK g \in Guards : repo[g] = r /\ pc[g] \in {"refresh", "refreshing"}
    BY DEF NetInv, GapInv
  <2>2. Active(g) /\ guard[g].resource = r
    BY <2>1, CallFacts DEF GuardOK, Bound
  <2>3. ASSUME NEW h \in Guards, repo[h] = r, pc[h] = "prepare"
        PROVE  FALSE
    <3>1. Active(h) /\ guard[h].resource = r
      BY <2>3, CallFacts DEF GuardOK, Bound
    <3>2. HoldersExclude /\ r # None
      BY InvExcludes, RegistryAssumption DEF NetInv
    <3>3. g = h
      BY <2>2, <3>1, <3>2 DEF HoldersExclude
    <3> QED
      BY <2>1, <2>3, <3>3
  <2> QED
    BY <2>1, <2>3
<1> QED
  BY <1>1, NetworkInvariant, PTL

\* An open job has a call that is still going to close it, or the store failed
\* its call; a queued one may be left behind by a process that died.
THEOREM OpenJobsAlwaysHaveCalls == Spec => []OpenJobsHaveCalls
<1>1. NetInv => OpenJobsHaveCalls
  BY DEF NetInv, OpenInv, OpenJobsHaveCalls
<1> QED
  BY <1>1, NetworkInvariant, PTL

\* An operation whose cancel command returned true never ends as succeeded,
\* and one that succeeded has published what its git did.
THEOREM VerdictsAlwaysMatchJobs == Spec => []VerdictMatchesJob
<1>1. NetInv => VerdictMatchesJob
  <2> SUFFICES ASSUME NetInv, NEW g \in created, HasStatus(Op(g), {"succeeded"})
               PROVE  /\ exit[g] = "ok" \/ pc[g] = "lost"
                      /\ \A p \in Principals : <<g, p>> \notin acked
    BY DEF VerdictMatchesJob
  <2>1. g \in Guards /\ told[g] = "completed" /\ (exit[g] = "ok" \/ pc[g] = "lost")
    BY CallFacts DEF NetInv, CallTypes, ExitOK
  <2>2. g \notin cancelled
    BY <2>1 DEF NetInv, RegInv, VerdictInv, VerdictOK
  <2> QED
    BY <2>1, <2>2 DEF NetInv, RegInv, RegTypeOK
<1> QED
  BY <1>1, NetworkInvariant, PTL

-----------------------------------------------------------------------------
\* The network operations use the registry as it is meant to be used: every
\* behaviour of theirs is one of the registry alone, and so one of the
\* exclusive leases of ResourceLease.
THEOREM NetworkImplementsLease == Spec => RegSpec /\ ImplementsLease
<1>1. Init => RegInit
  BY DEF Init
<1>2. NetInv /\ [Next]_vars => [RegNext]_regVars
  BY StepOfRegistry
<1>3. Spec => RegSpec
  BY <1>1, <1>2, NetworkInvariant, PTL DEF Spec, RegSpec
<1> QED
  BY <1>3, RegistryImplementsLease

\* And they use the job table as it is meant to be used: a finished job stays
\* as it is, and the table is the one of JobLifecycle.
THEOREM NetworkKeepsTheTable == Spec => JobsSpec /\ TerminalRowsAreFrozen /\ ImplementsLifecycle
<1>1. Init => JobsInit
  BY DEF Init, AppInit
<1>2. NetInv /\ [Next]_vars => [JobsNext]_jobVars
  BY StepOfTable
<1>3. Spec => JobsSpec
  BY <1>1, <1>2, NetworkInvariant, PTL DEF Spec, JobsSpec
<1> QED
  BY <1>3, TerminalRowsStayFrozen, TableImplementsLifecycle
=============================================================================
