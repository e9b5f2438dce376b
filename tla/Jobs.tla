-------------------------------- MODULE Jobs --------------------------------
(***************************************************************************)
(* JobService and JobRepository (jobs/service.rs, jobs/repository.rs): the *)
(* persistent table of background jobs.  Every operation of the service    *)
(* runs under one operation_lock, so it is one action here, except the two *)
(* that write the database more than once: succeed (status, then progress) *)
(* and fail_running_by_kind_prefix (one row after the other).  Between     *)
(* their writes nobody else gets in, but the process may die: `writing`    *)
(* says which of them holds the lock and what it still has to write.       *)
(* An operation the service refuses changes nothing and is no action.      *)
(***************************************************************************)
EXTENDS Naturals

CONSTANTS
  JobIds,           \* the ids of jobs (UUIDs chosen by the callers)
  TransportKinds,   \* kinds whose name begins with "git.transport."
  OtherKinds,       \* the kinds of all other jobs
  FullProgress      \* progress is a fraction: k stands for k / FullProgress

ASSUME JobsAssumption ==
  /\ FullProgress \in Nat \ {0}
  /\ TransportKinds \cap OtherKinds = {}

VARIABLES jobs,     \* the jobs table
          writing   \* the multi-write operation that holds operation_lock

jobVars == <<jobs, writing>>

Kinds    == TransportKinds \cup OtherKinds
Open     == {"queued", "running"}
Terminal == {"succeeded", "failed", "canceled"}

Job == [kind : Kinds, status : Open \cup Terminal, progress : 0..FullProgress,
        cancelRequested : BOOLEAN, error : BOOLEAN]

Absent == [status |-> "absent"]   \* no row with this id

NoWrite    == [op |-> "none", ids |-> {}]
WriteState == [op : {"none", "succeed", "failRunning"}, ids : SUBSET JobIds]

Exists(id)     == jobs[id] # Absent
HasStatus(id, statuses) == jobs[id].status \in statuses
Unlocked       == writing = NoWrite

JobsInit ==
  /\ jobs = [id \in JobIds |-> Absent]
  /\ writing = NoWrite

-----------------------------------------------------------------------------
\* transition: the edges of the status graph; everything else is refused.
Edges == { <<"queued", "running">>, <<"queued", "canceled">>,
           <<"running", "succeeded">>, <<"running", "failed">>,
           <<"running", "canceled">> }

Permits(id, target) == <<jobs[id].status, target>> \in Edges

\* Mutant: the cancel flag is overwritten by every transition.
Moved_ForgetsRequest(id, target) ==
  [jobs[id] EXCEPT !.status = target,
                   !.cancelRequested = (target = "canceled"),
                   !.error = (target = "failed")]

\* The row transition writes: the cancel flag is sticky, the error is the
\* one given (none, unless the target is "failed").
Moved(id, target) ==
  [jobs[id] EXCEPT !.status = target,
                   !.cancelRequested = @ \/ target = "canceled",
                   !.error = (target = "failed")]

Transition(id, target) ==
  /\ Permits(id, target)
  /\ jobs' = [jobs EXCEPT ![id] = Moved(id, target)]

CreateWithId(id, kind) ==
  /\ Unlocked
  /\ ~Exists(id)
  /\ jobs' = [jobs EXCEPT ![id] =
        [kind |-> kind, status |-> "queued", progress |-> 0,
         cancelRequested |-> FALSE, error |-> FALSE]]
  /\ UNCHANGED writing

Start(id)  == Unlocked /\ Transition(id, "running")  /\ UNCHANGED writing
Fail(id)   == Unlocked /\ Transition(id, "failed")   /\ UNCHANGED writing
Cancel(id) == Unlocked /\ Transition(id, "canceled") /\ UNCHANGED writing

\* succeed, first write: the row turns "succeeded" with its old progress.
SucceedStatus(id) ==
  /\ Unlocked
  /\ Transition(id, "succeeded")
  /\ writing' = [op |-> "succeed", ids |-> {id}]

\* Mutant: the second write is left out.
SucceedProgress_Skipped(id) ==
  /\ writing = [op |-> "succeed", ids |-> {id}]
  /\ writing' = NoWrite
  /\ UNCHANGED jobs

\* succeed, second write: the progress becomes 1.0 and the lock is let go.
SucceedProgress(id) ==
  /\ writing = [op |-> "succeed", ids |-> {id}]
  /\ jobs' = [jobs EXCEPT ![id].progress = FullProgress]
  /\ writing' = NoWrite

\* request_cancel: only raises the flag, and only of a job still open.
RequestCancel(id) ==
  /\ Unlocked
  /\ HasStatus(id, Open)
  /\ jobs' = [jobs EXCEPT ![id].cancelRequested = TRUE]
  /\ UNCHANGED writing

SetProgress(id, progress) ==
  /\ Unlocked
  /\ progress \in 0..FullProgress
  /\ HasStatus(id, {"running"})
  /\ jobs' = [jobs EXCEPT ![id].progress = progress]
  /\ UNCHANGED writing

\* fail_running_by_kind_prefix("git.transport."): the ids are listed first,
\* then each row is failed by a write of its own.
RunningTransport ==
  {id \in JobIds : HasStatus(id, {"running"}) /\ jobs[id].kind \in TransportKinds}

FailRunningList ==
  /\ Unlocked
  /\ RunningTransport # {}
  /\ writing' = [op |-> "failRunning", ids |-> RunningTransport]
  /\ UNCHANGED jobs

FailRunningRow(id) ==
  /\ writing.op = "failRunning"
  /\ id \in writing.ids
  /\ Transition(id, "failed")
  /\ writing' = IF writing.ids = {id} THEN NoWrite
                ELSE [writing EXCEPT !.ids = @ \ {id}]

\* The process dies: the table stays as the last write left it.
LoseLock == writing' = NoWrite /\ UNCHANGED jobs

-----------------------------------------------------------------------------
Operation(id) ==
  \/ \E kind \in Kinds : CreateWithId(id, kind)
  \/ Start(id)
  \/ Fail(id)
  \/ Cancel(id)
  \/ SucceedStatus(id)
  \/ SucceedProgress(id)
  \/ RequestCancel(id)
  \/ \E progress \in 0..FullProgress : SetProgress(id, progress)
  \/ FailRunningRow(id)

JobsNext ==
  \/ \E id \in JobIds : Operation(id)
  \/ FailRunningList
  \/ LoseLock

JobsSpec == JobsInit /\ [][JobsNext]_jobVars

-----------------------------------------------------------------------------
\* Every row is well-formed; the lock is held only for rows that exist.
JobsTypeOK ==
  /\ jobs \in [JobIds -> Job \cup {Absent}]
  /\ writing \in WriteState

\* What is still to be written matches the row it is to be written to: the
\* second write of succeed finds its row succeeded, and every row the start-up
\* sweep has listed is still running when its turn comes, so that the `?` in
\* the sweep's collect() cannot stop it half-way.
PendingWritesApply ==
  \A id \in writing.ids :
    jobs[id].status = IF writing.op = "succeed" THEN "succeeded" ELSE "running"

\* A terminal row never changes again, but for the second write of its own
\* succeed: neither late progress, nor a late cancel, nor the start-up sweep
\* resurrects or rewrites it.
TerminalRowsAreFrozen ==
  [][\A id \in JobIds : HasStatus(id, Terminal) =>
        \/ jobs'[id] = jobs[id]
        \/ id \in writing.ids /\ jobs'[id] = [jobs[id] EXCEPT !.progress = FullProgress]]_jobVars

\* The table implements the one-way life of JobLifecycle.
Life == INSTANCE JobLifecycle WITH
  stage     <- [id \in JobIds |-> jobs[id].status],
  requested <- {id \in JobIds : Exists(id) /\ jobs[id].cancelRequested}

ImplementsLifecycle == Life!LifeSpec
=============================================================================
