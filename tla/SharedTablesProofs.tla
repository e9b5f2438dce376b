------------------------- MODULE SharedTablesProofs -------------------------
(***************************************************************************)
(* The two tables that the operations of the core share, each by itself:   *)
(* the job table and the registry of network operations.  What is proved   *)
(* here of one of them holds wherever its users keep to its operations     *)
(* (LocalProofs, NetworkOperationProofs, CloneOperationProofs).            *)
(*                                                                         *)
(* The job table, for every set of jobs and kinds: it keeps its type, what *)
(* is still to be written always fits the row it goes to, terminal rows    *)
(* are frozen, and the table implements JobLifecycle.  JobsInv is          *)
(* inductive: the rows and the lock are of their type, and the writes that *)
(* are pending apply.  The second half carries the proof: no operation but *)
(* the one that holds the lock touches a row while a write to it is        *)
(* pending.                                                                *)
(*                                                                         *)
(* The registry, for every number of guards, ids and resources: RegInv     *)
(* joins IndexesAgree (the two tables and the guards describe the same     *)
(* operations) to VerdictInv (what the callers were told agrees with the   *)
(* flags).  Neither is inductive without types; OneWinner alone is not     *)
(* inductive at all: it needs that a guard whose operation was completed   *)
(* has left the table, which is what keeps a later cancel call from        *)
(* finding its token.                                                      *)
(***************************************************************************)
EXTENDS Jobs, OperationRegistry, TLAPS

JobsInv == JobsTypeOK /\ PendingWritesApply

\* Statuses and rows: what a row that exists looks like.
LEMMA RowFacts ==
  ASSUME JobsTypeOK, NEW id \in JobIds, jobs[id].status # "absent"
  PROVE  /\ jobs[id] \in Job
         /\ Exists(id)
BY DEF JobsTypeOK, Absent, Exists

\* A row with one of the five statuses of the schema exists.
LEMMA OpenExists ==
  ASSUME JobsTypeOK, NEW id \in JobIds, HasStatus(id, Open \cup Terminal)
  PROVE  jobs[id] \in Job
BY RowFacts DEF HasStatus, Open, Terminal

\* transition moves one row along an edge and keeps it well-formed.
LEMMA TransitionType ==
  ASSUME JobsTypeOK, NEW id \in JobIds, NEW target, Transition(id, target)
  PROVE  /\ jobs[id] \in Job
         /\ jobs' \in [JobIds -> Job \cup {Absent}]
         /\ jobs'[id] = Moved(id, target)
         /\ jobs'[id].status = target
         /\ \A other \in JobIds \ {id} : jobs'[other] = jobs[other]
<1>1. /\ jobs[id].status \in {"queued", "running"}
      /\ target \in {"running", "canceled", "succeeded", "failed"}
  BY DEF Transition, Permits, Edges
<1>2. jobs[id] \in Job
  BY <1>1, OpenExists DEF HasStatus, Open, Terminal
<1>3. Moved(id, target) \in Job /\ Moved(id, target).status = target
  BY <1>1, <1>2 DEF Moved, Job, Open, Terminal
<1>4. jobs' = [jobs EXCEPT ![id] = Moved(id, target)]
  BY DEF Transition
<1> QED
  BY <1>2, <1>3, <1>4 DEF JobsTypeOK

\* A transition of the holder of no pending write leaves what is pending
\* applicable, if the row it moves is not among it.
LEMMA TransitionElsewhere ==
  ASSUME JobsInv, NEW id \in JobIds, NEW target, Transition(id, target),
         id \notin writing.ids, UNCHANGED writing
  PROVE  JobsInv'
<1>1. JobsTypeOK'
  BY TransitionType DEF JobsInv, JobsTypeOK
<1>2. ASSUME NEW other \in writing.ids
      PROVE  jobs'[other] = jobs[other]
  BY TransitionType DEF JobsInv, JobsTypeOK, WriteState
<1> QED
  BY <1>1, <1>2 DEF JobsInv, PendingWritesApply

\* The initial table is empty and the lock free.
LEMMA JobsInitInv == JobsInit => JobsInv
BY DEF JobsInit, JobsInv, JobsTypeOK, PendingWritesApply, NoWrite, WriteState

\* A new row cannot be one that is still to be written: the lock is free.
LEMMA CreateInv ==
  ASSUME JobsAssumption, JobsInv, NEW id \in JobIds, NEW kind \in Kinds, CreateWithId(id, kind)
  PROVE  JobsInv'
<1> DEFINE new == [kind |-> kind, status |-> "queued", progress |-> 0,
                   cancelRequested |-> FALSE, error |-> FALSE]
<1>1. new \in Job
  BY DEF Job, Open, Terminal, JobsAssumption
<1>2. jobs' = [jobs EXCEPT ![id] = new]
  BY DEF CreateWithId
<1>3. JobsTypeOK'
  <2> HIDE DEF new
  <2> QED BY <1>1, <1>2 DEF JobsInv, JobsTypeOK, CreateWithId
<1> QED
  BY <1>3 DEF JobsInv, PendingWritesApply, CreateWithId, Unlocked, NoWrite

\* The first write of succeed leaves a row that its second write applies to.
LEMMA SucceedStatusInv ==
  ASSUME JobsInv, NEW id \in JobIds, SucceedStatus(id)
  PROVE  JobsInv'
<1>1. Transition(id, "succeeded") /\ writing' = [op |-> "succeed", ids |-> {id}]
  BY DEF SucceedStatus
<1>2. JobsTypeOK'
  BY <1>1, TransitionType DEF JobsInv, JobsTypeOK, WriteState
<1>3. jobs'[id].status = "succeeded"
  BY <1>1, TransitionType DEF JobsInv
<1> QED
  BY <1>1, <1>2, <1>3 DEF JobsInv, PendingWritesApply

\* The second write of succeed finds its row, and lets the lock go.
LEMMA SucceedProgressInv ==
  ASSUME JobsAssumption, JobsInv, NEW id \in JobIds, SucceedProgress(id)
  PROVE  JobsInv'
<1>1. jobs[id].status = "succeeded"
  BY DEF SucceedProgress, JobsInv, PendingWritesApply
<1>2. jobs[id] \in Job
  BY <1>1, RowFacts DEF JobsInv
<1>3. [jobs[id] EXCEPT !.progress = FullProgress] \in Job
  BY <1>2 DEF Job, JobsAssumption
<1>4. JobsTypeOK'
  BY <1>3 DEF JobsInv, JobsTypeOK, SucceedProgress, NoWrite, WriteState
<1> QED
  BY <1>4 DEF JobsInv, PendingWritesApply, SucceedProgress, NoWrite

\* Raising the flag touches no status, and nothing is pending.
LEMMA RequestCancelInv ==
  ASSUME JobsInv, NEW id \in JobIds, RequestCancel(id)
  PROVE  JobsInv'
<1>1. jobs[id] \in Job
  BY OpenExists DEF JobsInv, RequestCancel, HasStatus, Open, Terminal
<1>2. [jobs[id] EXCEPT !.cancelRequested = TRUE] \in Job
  BY <1>1 DEF Job
<1>3. JobsTypeOK'
  BY <1>2 DEF JobsInv, JobsTypeOK, RequestCancel
<1> QED
  BY <1>3 DEF JobsInv, PendingWritesApply, RequestCancel, Unlocked, NoWrite

\* Progress within 0..FullProgress keeps a running row well-formed.
LEMMA SetProgressInv ==
  ASSUME JobsInv, NEW id \in JobIds, NEW progress \in 0..FullProgress, SetProgress(id, progress)
  PROVE  JobsInv'
<1>1. jobs[id] \in Job
  BY OpenExists DEF JobsInv, SetProgress, HasStatus, Open, Terminal
<1>2. [jobs[id] EXCEPT !.progress = progress] \in Job
  BY <1>1 DEF Job
<1>3. JobsTypeOK'
  BY <1>2 DEF JobsInv, JobsTypeOK, SetProgress
<1> QED
  BY <1>3 DEF JobsInv, PendingWritesApply, SetProgress, Unlocked, NoWrite

\* One row of the sweep is failed; those still listed keep running.
LEMMA FailRunningRowInv ==
  ASSUME JobsInv, NEW id \in JobIds, FailRunningRow(id)
  PROVE  JobsInv'
<1>1. Transition(id, "failed") /\ writing.op = "failRunning"
  BY DEF FailRunningRow
<1>2. writing' \in WriteState /\ writing'.ids \subseteq writing.ids \ {id}
      /\ (writing'.ids # {} => writing'.op = "failRunning")
  BY DEF FailRunningRow, JobsInv, JobsTypeOK, WriteState, NoWrite
<1>3. JobsTypeOK'
  BY <1>1, <1>2, TransitionType DEF JobsInv, JobsTypeOK
<1>4. ASSUME NEW other \in writing'.ids
      PROVE  jobs'[other].status = IF writing'.op = "succeed" THEN "succeeded" ELSE "running"
  <2>1. other \in writing.ids /\ other # id /\ other \in JobIds
    BY <1>2 DEF JobsInv, JobsTypeOK, WriteState
  <2>2. jobs'[other] = jobs[other] /\ jobs[other].status = "running"
    BY <1>1, <2>1, TransitionType DEF JobsInv, PendingWritesApply
  <2> QED
    BY <1>2, <2>2
<1> QED
  BY <1>3, <1>4 DEF JobsInv, PendingWritesApply

\* The list of the sweep holds running rows only.
LEMMA FailRunningListInv ==
  ASSUME JobsInv, FailRunningList
  PROVE  JobsInv'
BY DEF JobsInv, JobsTypeOK, PendingWritesApply, FailRunningList, RunningTransport,
       HasStatus, WriteState

\* Every operation, and the death of the process, keeps the invariant.
LEMMA JobsNextInv ==
  ASSUME JobsAssumption, JobsInv, [JobsNext]_jobVars
  PROVE  JobsInv'
<1>1. CASE UNCHANGED jobVars
  BY <1>1 DEF jobVars, JobsInv, JobsTypeOK, PendingWritesApply
<1>2. ASSUME NEW id \in JobIds, Operation(id)
      PROVE  JobsInv'
  <2>1. ASSUME NEW target \in {"running", "failed", "canceled"},
               Unlocked, Transition(id, target), UNCHANGED writing
        PROVE  JobsInv'
    BY <2>1, TransitionElsewhere DEF Unlocked, NoWrite
  <2>2. CASE Start(id) \/ Fail(id) \/ Cancel(id)
    BY <2>1, <2>2 DEF Start, Fail, Cancel
  <2>3. CASE \E kind \in Kinds : CreateWithId(id, kind)
    BY <2>3, CreateInv
  <2>4. CASE \E progress \in 0..FullProgress : SetProgress(id, progress)
    BY <2>4, SetProgressInv
  <2> QED
    BY <1>2, <2>2, <2>3, <2>4, SucceedStatusInv, SucceedProgressInv, RequestCancelInv,
       FailRunningRowInv DEF Operation
<1>3. CASE FailRunningList
  BY <1>3, FailRunningListInv
<1>4. CASE LoseLock
  BY <1>4 DEF LoseLock, JobsInv, JobsTypeOK, PendingWritesApply, NoWrite, WriteState
<1> QED
  BY <1>1, <1>2, <1>3, <1>4 DEF JobsNext

\* The invariant of the job table in every behaviour.
THEOREM JobsInvariant == JobsSpec => []JobsInv
<1>1. JobsInv /\ [JobsNext]_jobVars => JobsInv'
  BY JobsNextInv, JobsAssumption
<1> QED
  BY JobsInitInv, <1>1, PTL DEF JobsSpec

\* Whatever is still to be written fits the row that it is to be written to
\* (jobs/service.rs, succeed and fail_running_by_kind_prefix).
THEOREM PendingWritesAlwaysApply == JobsSpec => []PendingWritesApply
BY JobsInvariant, PTL DEF JobsInv

-----------------------------------------------------------------------------
\* The rows that an operation leaves alone, and the one it may change.
LEMMA OneRowChanges ==
  ASSUME JobsInv, NEW id \in JobIds, Operation(id)
  PROVE  \A other \in JobIds \ {id} : jobs'[other] = jobs[other]
<1>1. ASSUME NEW target, Transition(id, target)
      PROVE  \A other \in JobIds \ {id} : jobs'[other] = jobs[other]
  BY <1>1, TransitionType DEF JobsInv
<1>2. CASE Start(id) \/ Fail(id) \/ Cancel(id) \/ SucceedStatus(id) \/ FailRunningRow(id)
  BY <1>1, <1>2 DEF Start, Fail, Cancel, SucceedStatus, FailRunningRow
<1>3. CASE \E kind \in Kinds : CreateWithId(id, kind)
  BY <1>3 DEF CreateWithId, JobsInv, JobsTypeOK
<1>4. CASE \E progress \in 0..FullProgress : SetProgress(id, progress)
  BY <1>4 DEF SetProgress, JobsInv, JobsTypeOK
<1>5. CASE SucceedProgress(id) \/ RequestCancel(id)
  BY <1>5 DEF SucceedProgress, RequestCancel, JobsInv, JobsTypeOK
<1> QED
  BY <1>2, <1>3, <1>4, <1>5 DEF Operation

\* What an operation may do to a row that is terminal.
LEMMA TerminalStep ==
  ASSUME JobsInv, NEW id \in JobIds, HasStatus(id, Terminal), Operation(id)
  PROVE  /\ id \in writing.ids
         /\ jobs'[id] = [jobs[id] EXCEPT !.progress = FullProgress]
<1>1. jobs[id] \in Job /\ jobs[id].status \in Terminal
  BY OpenExists DEF JobsInv, HasStatus
<1>2. ASSUME NEW target, Transition(id, target)
      PROVE  FALSE
  BY <1>1, <1>2 DEF Transition, Permits, Edges, Terminal
<1>3. ~(Start(id) \/ Fail(id) \/ Cancel(id) \/ SucceedStatus(id) \/ FailRunningRow(id))
  BY <1>2 DEF Start, Fail, Cancel, SucceedStatus, FailRunningRow
<1>4. ~(\E kind \in Kinds : CreateWithId(id, kind))
  BY <1>1 DEF CreateWithId, Exists, Absent, Job, Terminal, Open
<1>5. ~(\E progress \in 0..FullProgress : SetProgress(id, progress)) /\ ~RequestCancel(id)
  BY <1>1 DEF SetProgress, RequestCancel, HasStatus, Terminal, Open
<1>6. SucceedProgress(id)
  BY <1>3, <1>4, <1>5 DEF Operation
<1> QED
  BY <1>6 DEF SucceedProgress, JobsInv, JobsTypeOK

\* A row that is terminal keeps its status, whoever acts.
LEMMA TerminalStatusStays ==
  ASSUME JobsInv, [JobsNext]_jobVars, NEW id \in JobIds, HasStatus(id, Terminal)
  PROVE  jobs'[id].status = jobs[id].status
<1>1. CASE UNCHANGED jobs
  BY <1>1
<1>2. ASSUME NEW other \in JobIds, Operation(other)
      PROVE  jobs'[id].status = jobs[id].status
  <2>1. CASE other = id
    BY <1>2, <2>1, TerminalStep, OpenExists DEF JobsInv, Job, HasStatus
  <2>2. CASE other # id
    BY <1>2, <2>2, OneRowChanges
  <2> QED
    BY <2>1, <2>2
<1> QED
  BY <1>1, <1>2 DEF JobsNext, jobVars, FailRunningList, LoseLock

\* A row that exists stays, keeps its kind, and is queued only before it has run.
LEMMA RowStays ==
  ASSUME JobsInv, [JobsNext]_jobVars, NEW id \in JobIds, Exists(id)
  PROVE  /\ Exists(id)' /\ jobs'[id].kind = jobs[id].kind
         /\ ~HasStatus(id, {"queued"}) => ~HasStatus(id, {"queued"})'
<1>1. jobs[id] \in Job
  BY DEF JobsInv, JobsTypeOK, Exists
<1>2. CASE jobs'[id] = jobs[id]
  BY <1>2 DEF Exists, HasStatus
<1>3. ASSUME NEW target, Transition(id, target)
      PROVE  /\ Exists(id)' /\ jobs'[id].kind = jobs[id].kind
             /\ ~HasStatus(id, {"queued"}) => ~HasStatus(id, {"queued"})'
  <2>1. target \in {"running", "canceled", "succeeded", "failed"}
    BY <1>3 DEF Transition, Permits, Edges
  <2>2. jobs'[id] = Moved(id, target) /\ jobs'[id].status = target
    BY <1>3, TransitionType DEF JobsInv
  <2> QED
    BY <1>1, <2>1, <2>2 DEF Moved, Job, Exists, Absent, HasStatus
<1>4. ASSUME Operation(id)
      PROVE  /\ Exists(id)' /\ jobs'[id].kind = jobs[id].kind
             /\ ~HasStatus(id, {"queued"}) => ~HasStatus(id, {"queued"})'
  <2>1. CASE Start(id) \/ Fail(id) \/ Cancel(id) \/ SucceedStatus(id) \/ FailRunningRow(id)
    BY <1>3, <2>1 DEF Start, Fail, Cancel, SucceedStatus, FailRunningRow
  <2>2. CASE SucceedProgress(id) \/ RequestCancel(id)
             \/ \E progress \in 0..FullProgress : SetProgress(id, progress)
    <3>1. jobs'[id].status = jobs[id].status /\ jobs'[id].kind = jobs[id].kind
      BY <1>1, <2>2 DEF SucceedProgress, RequestCancel, SetProgress, JobsInv, JobsTypeOK, Job
    <3> QED
      BY <1>1, <3>1 DEF Exists, Absent, HasStatus, Job, Open, Terminal
  <2>3. ~(\E kind \in Kinds : CreateWithId(id, kind))
    BY DEF CreateWithId
  <2> QED
    BY <1>4, <2>1, <2>2, <2>3 DEF Operation
<1>5. ASSUME NEW other \in JobIds, Operation(other), other # id
      PROVE  jobs'[id] = jobs[id]
  BY <1>5, OneRowChanges
<1> QED
  BY <1>2, <1>4, <1>5 DEF JobsNext, jobVars, FailRunningList, LoseLock

\* What a cancel, or the sweep of a start, may do to a row.
Mild(id) ==
  \/ jobs'[id] = jobs[id]
  \/ /\ Exists(id)' /\ jobs'[id].kind = jobs[id].kind
     /\ jobs'[id].status \in {jobs[id].status, "canceled", "failed"}
     /\ HasStatus(id, Open)

\* Cancels and the sweep touch one row, which is open, and close or flag it.
LEMMA CancelIsMild ==
  ASSUME JobsInv, NEW id \in JobIds, RequestCancel(id) \/ Cancel(id) \/ FailRunningRow(id)
  PROVE  \A i \in JobIds : Mild(i)
<1>1. \A i \in JobIds \ {id} : jobs'[i] = jobs[i]
  BY OneRowChanges DEF Operation
<1>2. HasStatus(id, Open)
  BY DEF RequestCancel, Cancel, FailRunningRow, Transition, Permits, Edges, HasStatus, Open
<1>3. jobs[id] \in Job /\ jobs[id].status \in Open
  BY <1>2, OpenExists DEF JobsInv, HasStatus, Open, Terminal
<1>4. CASE RequestCancel(id)
  <2>1. jobs'[id] = [jobs[id] EXCEPT !.cancelRequested = TRUE]
    BY <1>4 DEF RequestCancel, JobsInv, JobsTypeOK
  <2>2. jobs'[id].status = jobs[id].status /\ jobs'[id].kind = jobs[id].kind
    BY <1>3, <2>1 DEF Job
  <2>3. Exists(id)'
    BY <1>3, <2>2 DEF Exists, Absent, Open
  <2> QED
    BY <1>1, <1>2, <2>2, <2>3 DEF Mild
<1>5. ASSUME NEW target \in {"canceled", "failed"}, Transition(id, target)
      PROVE  Mild(id)
  <2>1. jobs'[id] = Moved(id, target) /\ jobs'[id].status = target
    BY <1>5, TransitionType DEF JobsInv
  <2>2. jobs'[id].kind = jobs[id].kind /\ Exists(id)'
    BY <1>3, <2>1 DEF Moved, Job, Exists, Absent
  <2> QED
    BY <1>2, <2>1, <2>2 DEF Mild
<1> QED
  BY <1>1, <1>4, <1>5 DEF Cancel, FailRunningRow, Mild

\* A terminal row never changes again, but for the second write of its own
\* succeed (jobs/service.rs, transition and set_progress).
THEOREM TerminalRowsStayFrozen == JobsSpec => TerminalRowsAreFrozen
<1> DEFINE Frozen == \A id \in JobIds : HasStatus(id, Terminal) =>
             \/ jobs'[id] = jobs[id]
             \/ id \in writing.ids /\ jobs'[id] = [jobs[id] EXCEPT !.progress = FullProgress]
<1>1. ASSUME JobsInv, [JobsNext]_jobVars
      PROVE  Frozen
  <2> SUFFICES ASSUME NEW id \in JobIds, HasStatus(id, Terminal)
               PROVE  \/ jobs'[id] = jobs[id]
                      \/ id \in writing.ids /\ jobs'[id] = [jobs[id] EXCEPT !.progress = FullProgress]
    OBVIOUS
  <2>1. CASE UNCHANGED jobs
    BY <2>1
  <2>2. CASE \E other \in JobIds : Operation(other)
    <3>1. PICK other \in JobIds : Operation(other)
      BY <2>2
    <3>2. CASE other = id
      BY <1>1, <3>1, <3>2, TerminalStep
    <3>3. CASE other # id
      BY <1>1, <3>1, <3>3, OneRowChanges
    <3> QED
      BY <3>2, <3>3
  <2> QED
    BY <1>1, <2>1, <2>2 DEF JobsNext, jobVars, FailRunningList, LoseLock
<1>2. JobsInv /\ [JobsNext]_jobVars => [Frozen]_jobVars
  BY <1>1
<1> QED
  BY <1>2, JobsInvariant, PTL DEF JobsSpec, TerminalRowsAreFrozen

-----------------------------------------------------------------------------
\* The refinement: what JobLifecycle sees of the table.
Stages    == [id \in JobIds |-> jobs[id].status]
Requested == {id \in JobIds : Exists(id) /\ jobs[id].cancelRequested}

\* The empty table is the initial state of JobLifecycle.
LEMMA LifeInitHolds == JobsInit => Life!LifeInit
BY DEF JobsInit, Life!LifeInit, Exists, Absent

\* A step that leaves status and request of every row alone is a stutter.
LEMMA LifeStutter ==
  ASSUME Stages' = Stages, Requested' = Requested
  PROVE  UNCHANGED Life!lifeVars
BY DEF Stages, Requested, Life!lifeVars

\* The row of one job, before and after one operation, as JobLifecycle sees it.
LEMMA LifeRow ==
  ASSUME JobsInv, JobsTypeOK', NEW id \in JobIds,
         \A other \in JobIds \ {id} : jobs'[other] = jobs[other]
  PROVE  /\ Stages' = [Stages EXCEPT ![id] = jobs'[id].status]
         /\ (Exists(id) /\ jobs[id].cancelRequested) = (Exists(id) /\ jobs[id].cancelRequested)'
               => Requested' = Requested
         /\ (Exists(id) /\ jobs[id].cancelRequested)' => Requested' = Requested \cup {id}
BY DEF Stages, Requested, Exists, Absent, JobsInv, JobsTypeOK

\* Each transition is one of the moves of JobLifecycle.
LEMMA LifeTransition ==
  ASSUME JobsInv, JobsTypeOK', NEW id \in JobIds, NEW target, Transition(id, target)
  PROVE  Life!LifeNext
<1>1. /\ jobs[id] \in Job
      /\ jobs'[id] = Moved(id, target)
      /\ \A other \in JobIds \ {id} : jobs'[other] = jobs[other]
  BY TransitionType DEF JobsInv
<1>2. /\ jobs'[id].status = target
      /\ jobs'[id].cancelRequested = (jobs[id].cancelRequested \/ target = "canceled")
      /\ jobs[id].cancelRequested \in BOOLEAN
  BY <1>1 DEF Moved, Job
<1>3. Exists(id) /\ Exists(id)'
  <2>1. jobs[id].status # "absent" /\ target # "absent"
    BY DEF Transition, Permits, Edges
  <2> QED
    BY <1>2, <2>1 DEF Exists, Absent
<1>4. Stages' = [Stages EXCEPT ![id] = target] /\ Stages[id] = jobs[id].status
  BY <1>1, <1>2, LifeRow DEF Stages
<1>5. CASE target = "canceled"
  <2>1. Requested' = Requested \cup {id}
    BY <1>1, <1>2, <1>3, <1>5, LifeRow
  <2>2. Stages[id] \in {"queued", "running"}
    BY <1>4, <1>5 DEF Transition, Permits, Edges
  <2> QED
    BY <1>4, <1>5, <2>1, <2>2 DEF Life!LifeNext, Life!Abort, Life!Move, Stages, Requested
<1>6. CASE target # "canceled"
  <2>1. Requested' = Requested
    BY <1>1, <1>2, <1>3, <1>6, LifeRow
  <2>2. \/ Stages[id] = "queued" /\ target = "running"
        \/ Stages[id] = "running" /\ target \in {"succeeded", "failed"}
    BY <1>4, <1>6 DEF Transition, Permits, Edges
  <2> QED
    BY <1>4, <2>1, <2>2 DEF Life!LifeNext, Life!Begin, Life!Settle, Life!Break, Life!Move,
       Stages, Requested
<1> QED
  BY <1>5, <1>6

\* Every step of the table is a step of JobLifecycle, or invisible to it.
LEMMA LifeStep ==
  ASSUME JobsInv, JobsInv', [JobsNext]_jobVars
  PROVE  Life!LifeNext \/ UNCHANGED Life!lifeVars
<1>1. CASE UNCHANGED jobs
  BY <1>1, LifeStutter DEF Stages, Requested, Exists
<1>2. ASSUME NEW id \in JobIds, Operation(id)
      PROVE  Life!LifeNext \/ UNCHANGED Life!lifeVars
  <2>1. \A other \in JobIds \ {id} : jobs'[other] = jobs[other]
    BY <1>2, OneRowChanges
  <2>2. CASE Start(id) \/ Fail(id) \/ Cancel(id) \/ SucceedStatus(id) \/ FailRunningRow(id)
    BY <2>2, LifeTransition DEF Start, Fail, Cancel, SucceedStatus, FailRunningRow, JobsInv
  <2>3. CASE \E kind \in Kinds : CreateWithId(id, kind)
    <3>1. ~Exists(id) /\ jobs'[id].status = "queued" /\ jobs'[id].cancelRequested = FALSE
      BY <2>3 DEF CreateWithId, JobsInv, JobsTypeOK
    <3>2. Stages' = [Stages EXCEPT ![id] = "queued"] /\ Requested' = Requested
      BY <2>1, <3>1, LifeRow DEF JobsInv
    <3>3. Stages[id] = "absent"
      BY <3>1 DEF Stages, Exists, Absent
    <3> QED
      BY <3>2, <3>3 DEF Life!LifeNext, Life!Admit, Life!Move, Stages, Requested
  <2>4. CASE RequestCancel(id)
    <3>1. jobs[id] \in Job /\ jobs[id].status \in {"queued", "running"}
      BY <2>4, OpenExists DEF RequestCancel, JobsInv, HasStatus, Open, Terminal
    <3>2. jobs'[id] = [jobs[id] EXCEPT !.cancelRequested = TRUE]
      BY <2>4 DEF RequestCancel, JobsInv, JobsTypeOK
    <3>3. jobs'[id].status = jobs[id].status /\ jobs'[id].cancelRequested = TRUE /\ Exists(id)'
      BY <3>1, <3>2 DEF Job, Exists, Absent
    <3>4. Stages' = Stages /\ Requested' = Requested \cup {id}
      BY <2>1, <3>3, LifeRow DEF JobsInv, Stages
    <3>5. Stages[id] \in {"queued", "running"}
      BY <3>1 DEF Stages
    <3> QED
      BY <3>4, <3>5 DEF Life!LifeNext, Life!Ask, Stages, Requested
  <2>5. CASE SucceedProgress(id) \/ \E progress \in 0..FullProgress : SetProgress(id, progress)
    <3>1. PICK progress : jobs'[id] = [jobs[id] EXCEPT !.progress = progress]
      BY <2>5 DEF SucceedProgress, SetProgress, JobsInv, JobsTypeOK
    <3>2. jobs[id] \in Job
      BY <2>5, OpenExists DEF SucceedProgress, SetProgress, JobsInv, PendingWritesApply,
         HasStatus, Open, Terminal
    <3>3. /\ jobs'[id].status = jobs[id].status
          /\ jobs'[id].cancelRequested = jobs[id].cancelRequested
          /\ Exists(id) /\ Exists(id)'
      BY <3>1, <3>2 DEF Job, Exists, Absent, Open, Terminal
    <3>4. Stages' = Stages /\ Requested' = Requested
      BY <2>1, <3>3, LifeRow DEF JobsInv, Stages
    <3> QED
      BY <3>4, LifeStutter
  <2> QED
    BY <1>2, <2>2, <2>3, <2>4, <2>5 DEF Operation
<1> QED
  BY <1>1, <1>2 DEF JobsNext, jobVars, FailRunningList, LoseLock

\* The job table implements the one-way life of a job (JobLifecycle).
THEOREM TableImplementsLifecycle == JobsSpec => ImplementsLifecycle
<1>1. JobsInv /\ JobsInv' /\ [JobsNext]_jobVars => [Life!LifeNext]_(Life!lifeVars)
  BY LifeStep
<1> QED
  BY <1>1, LifeInitHolds, JobsInvariant, PTL DEF JobsSpec, ImplementsLifecycle, Life!LifeSpec

-----------------------------------------------------------------------------
\* A guard is reserved once, is told its end when it is gone, and its flag is
\* up exactly when a cancel call has returned true.
VerdictOK(g) ==
  /\ guard[g].state # "gone" => told[g] = "nothing"
  /\ guard[g].state = "unused" => g \notin cancelled
  /\ told[g] = "completed" => g \notin cancelled
  /\ g \in cancelled => \E p \in Principals : <<g, p>> \in acked

VerdictInv == \A g \in Guards : VerdictOK(g)

RegInv == RegTypeOK /\ IndexesAgree /\ VerdictInv

-----------------------------------------------------------------------------
\* An id is listed exactly when it has an entry.
LEMMA EntryFacts ==
  ASSUME RegTypeOK, RegistryAssumption, NEW id \in Ids
  PROVE  Listed(id) <=> operations[id] \in Entry
BY DEF RegTypeOK, RegistryAssumption, Listed, Entry, NoEntry

\* What a guard in use looks like, and what stands for it in the table.
LEMMA ActiveFacts ==
  ASSUME RegInv, RegistryAssumption, NEW g \in Guards, Active(g)
  PROVE  /\ guard[g] \in [state : {"active"}, id : Ids, resource : MaybeResource]
         /\ Listed(guard[g].id)
         /\ operations[guard[g].id] \in Entry
         /\ operations[guard[g].id].token = g
         /\ operations[guard[g].id].resource = guard[g].resource
         /\ operations[guard[g].id].by = reserver[g]
<1>1. guard[g] \in [state : {"active"}, id : Ids, resource : MaybeResource]
  BY DEF RegInv, RegTypeOK, GuardRec, Active
<1>2. operations[guard[g].id] = [resource |-> guard[g].resource, by |-> reserver[g], token |-> g]
  BY DEF RegInv, IndexesAgree, GuardsOwnTheirEntries
<1>3. operations[guard[g].id] # NoEntry
  BY <1>2 DEF NoEntry, RegistryAssumption
<1>4. operations[guard[g].id] \in Entry
  BY <1>1, <1>3 DEF RegInv, RegTypeOK
<1> QED
  BY <1>1, <1>2, <1>3, <1>4 DEF Listed

\* A new entry for a free id leaves the rest of the table alone.
LEMMA ReserveInv ==
  ASSUME RegInv, RegistryAssumption, NEW g \in Guards, NEW id \in Ids,
         NEW plugin \in Plugins, NEW domain \in Domains, Reserve(g, id, plugin, domain)
  PROVE  RegInv'
<1> DEFINE entry == [resource |-> None, by |-> <<plugin, domain>>, token |-> g]
           fresh == [state |-> "active", id |-> id, resource |-> None]
<1>1. /\ guard[g] = Unused /\ ~Listed(id)
      /\ operations' = [operations EXCEPT ![id] = entry]
      /\ guard' = [guard EXCEPT ![g] = fresh]
      /\ reserver' = [reserver EXCEPT ![g] = <<plugin, domain>>]
      /\ UNCHANGED <<resources, cancelled, told, acked>>
  BY DEF Reserve
<1>2. entry \in Entry /\ fresh \in GuardRec /\ <<plugin, domain>> \in Principals
  BY DEF Entry, GuardRec, MaybeResource, Principals
<1>3. RegTypeOK'
  BY <1>1, <1>2 DEF RegInv, RegTypeOK
<1>4. GuardsOwnTheirEntries'
  <2>1. ASSUME NEW h \in Guards, Active(h)'
        PROVE  (operations[guard[h].id] = [resource |-> guard[h].resource,
                                           by |-> reserver[h], token |-> h])'
    <3>1. CASE h = g
      BY <1>1, <3>1 DEF RegInv, RegTypeOK
    <3>2. CASE h # g
      <4>1. Active(h) /\ guard'[h] = guard[h] /\ reserver'[h] = reserver[h]
        BY <1>1, <2>1, <3>2 DEF RegInv, RegTypeOK, Active
      <4>2. guard[h].id # id
        BY <1>1, <4>1, ActiveFacts
      <4> QED
        BY <1>1, <4>1, <4>2 DEF RegInv, RegTypeOK, IndexesAgree, GuardsOwnTheirEntries
    <3> QED
      BY <3>1, <3>2
  <2>2. ASSUME NEW other \in Ids, Listed(other)'
        PROVE  (Active(operations[other].token) /\ guard[operations[other].token].id = other)'
    <3>1. CASE other = id
      BY <1>1, <3>1 DEF RegInv, RegTypeOK, Active
    <3>2. CASE other # id
      <4>1. operations'[other] = operations[other] /\ Listed(other)
        BY <1>1, <2>2, <3>2 DEF RegInv, RegTypeOK, Listed
      <4>2. /\ Active(operations[other].token) /\ guard[operations[other].token].id = other
            /\ operations[other].token \in Guards
        BY <4>1, EntryFacts DEF RegInv, IndexesAgree, GuardsOwnTheirEntries, Entry
      <4>3. operations[other].token # g
        BY <1>1, <4>2 DEF Active, Unused
      <4> QED
        BY <1>1, <4>1, <4>2, <4>3 DEF RegInv, RegTypeOK, Active
    <3> QED
      BY <3>1, <3>2
  <2> QED
    BY <2>1, <2>2 DEF GuardsOwnTheirEntries
<1>5. TablesAreInverse'
  <2> SUFFICES ASSUME NEW r \in Resources, NEW other \in Ids
               PROVE  (resources[r] = other <=> Listed(other) /\ operations[other].resource = r)'
    BY DEF TablesAreInverse
  <2>1. resources[r] = other <=> Listed(other) /\ operations[other].resource = r
    BY DEF RegInv, IndexesAgree, TablesAreInverse
  <2>2. CASE other = id
    BY <1>1, <2>1, <2>2 DEF RegInv, RegTypeOK, RegistryAssumption
  <2>3. CASE other # id
    BY <1>1, <2>1, <2>3 DEF RegInv, RegTypeOK, Listed
  <2> QED
    BY <2>2, <2>3
<1>6. VerdictInv'
  <2> SUFFICES ASSUME NEW h \in Guards
               PROVE  VerdictOK(h)'
    BY DEF VerdictInv
  <2>1. VerdictOK(h) /\ VerdictOK(g)
    BY DEF RegInv, VerdictInv
  <2> QED
    BY <1>1, <2>1 DEF RegInv, RegTypeOK, VerdictOK, Unused
<1> QED
  BY <1>3, <1>4, <1>5, <1>6 DEF RegInv, IndexesAgree

\* The resource bound was nobody's, and the entry and the guard get it both.
LEMMA BindInv ==
  ASSUME RegInv, RegistryAssumption, NEW g \in Guards, NEW r \in Resources, BindResource(g, r)
  PROVE  RegInv'
<1> DEFINE id == guard[g].id
<1>1. /\ Active(g) /\ operations[id].resource = None /\ resources[r] = None
      /\ resources' = [resources EXCEPT ![r] = id]
      /\ operations' = [operations EXCEPT ![id].resource = r]
      /\ guard' = [guard EXCEPT ![g].resource = r]
      /\ UNCHANGED <<cancelled, reserver, told, acked>>
  BY DEF BindResource
<1>2. /\ guard[g] \in [state : {"active"}, id : Ids, resource : MaybeResource]
      /\ operations[id] \in Entry /\ operations[id].token = g /\ operations[id].by = reserver[g]
  BY <1>1, ActiveFacts
<1>3. /\ operations'[id] \in Entry /\ operations'[id].token = g
      /\ operations'[id].resource = r /\ operations'[id].by = reserver[g]
      /\ \A other \in Ids : other # id => operations'[other] = operations[other]
  BY <1>1, <1>2 DEF RegInv, RegTypeOK, Entry, MaybeResource
<1>4. /\ guard'[g] \in [state : {"active"}, id : {id}, resource : {r}]
      /\ \A h \in Guards : h # g => guard'[h] = guard[h]
  BY <1>1, <1>2 DEF RegInv, RegTypeOK
<1>5. RegTypeOK'
  <2>1. operations' \in [Ids -> Entry \cup {NoEntry}]
    BY <1>1, <1>2, <1>3 DEF RegInv, RegTypeOK
  <2>2. guard' \in [Guards -> GuardRec]
    BY <1>1, <1>2, <1>4 DEF RegInv, RegTypeOK, GuardRec, MaybeResource
  <2> QED
    BY <1>1, <1>2, <2>1, <2>2 DEF RegInv, RegTypeOK
<1>6. \A other \in Ids : Listed(other)' <=> Listed(other)
  BY <1>1, <1>2, <1>3, <1>5, EntryFacts DEF RegInv, Listed, RegistryAssumption, NoEntry
<1>7. GuardsOwnTheirEntries'
  <2>1. ASSUME NEW h \in Guards, Active(h)'
        PROVE  (operations[guard[h].id] = [resource |-> guard[h].resource,
                                           by |-> reserver[h], token |-> h])'
    <3>1. CASE h = g
      BY <1>1, <1>3, <1>4, <3>1 DEF Entry
    <3>2. CASE h # g
      <4>1. Active(h) /\ guard'[h] = guard[h]
        BY <1>4, <2>1, <3>2 DEF Active
      <4>2. guard[h].id # id /\ guard[h].id \in Ids
        BY <1>2, <3>2, <4>1, ActiveFacts
      <4> QED
        BY <1>1, <1>3, <4>1, <4>2 DEF RegInv, IndexesAgree, GuardsOwnTheirEntries
    <3> QED
      BY <3>1, <3>2
  <2>2. ASSUME NEW other \in Ids, Listed(other)'
        PROVE  (Active(operations[other].token) /\ guard[operations[other].token].id = other)'
    <3>1. CASE other = id
      BY <1>2, <1>3, <1>4, <3>1 DEF Active
    <3>2. CASE other # id
      <4>1. operations'[other] = operations[other] /\ Listed(other)
        BY <1>3, <1>6, <2>2, <3>2
      <4>2. /\ Active(operations[other].token) /\ guard[operations[other].token].id = other
            /\ operations[other].token \in Guards
        BY <4>1, EntryFacts DEF RegInv, IndexesAgree, GuardsOwnTheirEntries, Entry
      <4> QED
        BY <1>4, <3>2, <4>1, <4>2 DEF Active
    <3> QED
      BY <3>1, <3>2
  <2> QED
    BY <2>1, <2>2 DEF GuardsOwnTheirEntries
<1>8. TablesAreInverse'
  <2> SUFFICES ASSUME NEW s \in Resources, NEW other \in Ids
               PROVE  (resources[s] = other <=> Listed(other) /\ operations[other].resource = s)'
    BY DEF TablesAreInverse
  <2>1. \A t \in Resources :
          resources[t] = other <=> Listed(other) /\ operations[other].resource = t
    BY DEF RegInv, IndexesAgree, TablesAreInverse
  <2>2. resources'[s] = IF s = r THEN id ELSE resources[s]
    BY <1>1 DEF RegInv, RegTypeOK
  <2>3. CASE other = id
    BY <1>1, <1>2, <1>3, <1>6, <2>1, <2>2, <2>3, ActiveFacts DEF RegistryAssumption
  <2>4. CASE other # id
    BY <1>1, <1>3, <1>6, <2>1, <2>2, <2>4 DEF RegistryAssumption
  <2> QED
    BY <2>3, <2>4
<1>9. VerdictInv'
  <2> SUFFICES ASSUME NEW h \in Guards
               PROVE  VerdictOK(h)'
    BY DEF VerdictInv
  <2>1. VerdictOK(h) /\ guard'[h].state = guard[h].state
    BY <1>2, <1>4 DEF RegInv, VerdictInv
  <2> QED
    BY <1>1, <2>1 DEF VerdictOK
<1> QED
  BY <1>5, <1>7, <1>8, <1>9 DEF RegInv, IndexesAgree

\* remove_registration takes out the guard's own entry, and the resource if
\* one was bound, and nothing else.
LEMMA ConsumeEffect ==
  ASSUME RegInv, RegistryAssumption, NEW g \in Guards, NEW answer, Consume(g, answer)
  PROVE  /\ operations' = [operations EXCEPT ![guard[g].id] = NoEntry]
         /\ resources' = [s \in Resources |-> IF resources[s] = guard[g].id THEN None ELSE resources[s]]
         /\ guard' = [guard EXCEPT ![g].state = "gone"]
         /\ told' = [told EXCEPT ![g] = answer]
         /\ UNCHANGED <<cancelled, reserver, acked>>
<1> DEFINE id == guard[g].id
           r  == guard[g].resource
<1>1. /\ operations' = [operations EXCEPT ![id] = IF Listed(id) /\ @.resource = r THEN NoEntry ELSE @]
      /\ resources' = [s \in Resources |-> IF s = r /\ resources[s] = id THEN None ELSE resources[s]]
  BY DEF Consume, RemoveRegistration
<1>2. id \in Ids /\ Listed(id) /\ operations[id].resource = r
  BY ActiveFacts DEF Consume
<1>3. \A s \in Resources : resources[s] = id => s = r
  BY <1>2 DEF RegInv, IndexesAgree, TablesAreInverse
<1>4. operations' = [operations EXCEPT ![id] = NoEntry]
  BY <1>1, <1>2 DEF RegInv, RegTypeOK
<1>5. resources' = [s \in Resources |-> IF resources[s] = id THEN None ELSE resources[s]]
  BY <1>1, <1>3
<1> QED
  BY <1>4, <1>5 DEF Consume

\* The end of a guard keeps the invariant, whatever it is told, provided it
\* is not told that a canceled operation completed.
LEMMA ConsumeInv ==
  ASSUME RegInv, RegistryAssumption, NEW g \in Guards,
         NEW answer \in {"completed", "canceled", "released"}, Consume(g, answer),
         answer = "completed" => g \notin cancelled
  PROVE  RegInv'
<1>0. PICK id \in Ids : id = guard[g].id
  BY ActiveFacts DEF Consume
<1>1. /\ operations' = [operations EXCEPT ![id] = NoEntry]
      /\ resources' = [s \in Resources |-> IF resources[s] = id THEN None ELSE resources[s]]
      /\ guard' = [guard EXCEPT ![g].state = "gone"]
      /\ told' = [told EXCEPT ![g] = answer]
      /\ UNCHANGED <<cancelled, reserver, acked>>
  BY <1>0, ConsumeEffect
<1>2. /\ Active(g) /\ guard[g] \in [state : {"active"}, id : Ids, resource : MaybeResource]
      /\ Listed(id) /\ operations[id].token = g
  BY <1>0, ActiveFacts DEF Consume
<1>3. /\ guard'[g] \in [state : {"gone"}, id : Ids, resource : MaybeResource]
      /\ \A h \in Guards : h # g => guard'[h] = guard[h]
  BY <1>1, <1>2 DEF RegInv, RegTypeOK
<1>4. /\ ~Listed(id)'
      /\ \A other \in Ids : other # id =>
           operations'[other] = operations[other] /\ (Listed(other)' <=> Listed(other))
  BY <1>1, <1>2 DEF RegInv, RegTypeOK, Listed
<1>5. RegTypeOK'
  <2>1. guard' \in [Guards -> GuardRec]
    BY <1>1, <1>3 DEF RegInv, RegTypeOK, GuardRec
  <2>2. operations' \in [Ids -> Entry \cup {NoEntry}] /\ resources' \in [Resources -> Ids \cup {None}]
    BY <1>1, <1>2 DEF RegInv, RegTypeOK
  <2> QED
    BY <1>1, <2>1, <2>2 DEF RegInv, RegTypeOK
<1>6. GuardsOwnTheirEntries'
  <2>1. ASSUME NEW h \in Guards, Active(h)'
        PROVE  (operations[guard[h].id] = [resource |-> guard[h].resource,
                                           by |-> reserver[h], token |-> h])'
    <3>1. h # g
      BY <1>3, <2>1 DEF Active
    <3>2. Active(h) /\ guard'[h] = guard[h]
      BY <1>3, <2>1, <3>1 DEF Active
    <3>3. guard[h].id # id /\ guard[h].id \in Ids
      BY <1>2, <3>1, <3>2, ActiveFacts
    <3> QED
      BY <1>1, <1>4, <3>2, <3>3 DEF RegInv, IndexesAgree, GuardsOwnTheirEntries
  <2>2. ASSUME NEW other \in Ids, Listed(other)'
        PROVE  (Active(operations[other].token) /\ guard[operations[other].token].id = other)'
    <3>1. other # id /\ operations'[other] = operations[other] /\ Listed(other)
      BY <1>4, <2>2
    <3>2. /\ Active(operations[other].token) /\ guard[operations[other].token].id = other
          /\ operations[other].token \in Guards
      BY <3>1, EntryFacts DEF RegInv, IndexesAgree, GuardsOwnTheirEntries, Entry
    <3> QED
      BY <1>0, <1>3, <3>1, <3>2 DEF Active
  <2> QED
    BY <2>1, <2>2 DEF GuardsOwnTheirEntries
<1>7. TablesAreInverse'
  <2> SUFFICES ASSUME NEW s \in Resources, NEW other \in Ids
               PROVE  (resources[s] = other <=> Listed(other) /\ operations[other].resource = s)'
    BY DEF TablesAreInverse
  <2>1. resources[s] = other <=> Listed(other) /\ operations[other].resource = s
    BY DEF RegInv, IndexesAgree, TablesAreInverse
  <2>2. resources'[s] = IF resources[s] = id THEN None ELSE resources[s]
    BY <1>1
  <2> QED
    BY <1>4, <2>1, <2>2 DEF RegistryAssumption
<1>8. VerdictInv'
  <2> SUFFICES ASSUME NEW h \in Guards
               PROVE  VerdictOK(h)'
    BY DEF VerdictInv
  <2>1. VerdictOK(h)
    BY DEF RegInv, VerdictInv
  <2>2. told'[h] = IF h = g THEN answer ELSE told[h]
    BY <1>1 DEF RegInv, RegTypeOK
  <2> QED
    BY <1>1, <1>2, <1>3, <2>1, <2>2 DEF VerdictOK
<1> QED
  BY <1>5, <1>6, <1>7, <1>8 DEF RegInv, IndexesAgree

\* A cancel call finds only tokens of guards still in use, so none that has
\* been told it completed.
LEMMA CancelInv ==
  ASSUME RegInv, RegistryAssumption, NEW id \in Ids, NEW plugin \in Plugins,
         NEW domain \in Domains, CancelOwned(id, plugin, domain)
  PROVE  RegInv'
<1> DEFINE g == operations[id].token
           p == <<plugin, domain>>
<1>1. /\ Listed(id) /\ cancelled' = cancelled \cup {g} /\ acked' = acked \cup {<<g, p>>}
      /\ UNCHANGED <<operations, resources, guard, reserver, told>>
  BY DEF CancelOwned
<1>2. g \in Guards /\ p \in Principals /\ Active(g)
  BY <1>1, EntryFacts DEF RegInv, IndexesAgree, GuardsOwnTheirEntries, Entry, Principals
<1>3. RegTypeOK'
  BY <1>1, <1>2 DEF RegInv, RegTypeOK
<1>4. IndexesAgree'
  BY <1>1 DEF RegInv, IndexesAgree, GuardsOwnTheirEntries, TablesAreInverse, Active, Listed
<1>5. VerdictInv'
  <2> SUFFICES ASSUME NEW h \in Guards
               PROVE  VerdictOK(h)'
    BY DEF VerdictInv
  <2>1. VerdictOK(h)
    BY DEF RegInv, VerdictInv
  <2> QED
    BY <1>1, <1>2, <2>1 DEF VerdictOK, Active
<1> QED
  BY <1>3, <1>4, <1>5 DEF RegInv

\* With the process everything goes, and the flags stay as they are.
LEMMA VanishInv ==
  ASSUME RegInv, RegistryAssumption, Vanish
  PROVE  RegInv'
<1>1. /\ operations' = [id \in Ids |-> NoEntry]
      /\ resources' = [r \in Resources |-> None]
      /\ UNCHANGED <<cancelled, reserver, told, acked>>
  BY DEF Vanish
<1>2. ASSUME NEW g \in Guards
      PROVE  /\ guard'[g] \in GuardRec /\ ~Active(g)'
             /\ guard'[g] = IF Active(g) THEN [guard[g] EXCEPT !.state = "gone"] ELSE guard[g]
  <2>1. guard'[g] = IF Active(g) THEN [guard[g] EXCEPT !.state = "gone"] ELSE guard[g]
    BY DEF Vanish
  <2>2. CASE Active(g)
    <3>1. guard[g] \in [state : {"active"}, id : Ids, resource : MaybeResource]
      BY <2>2, ActiveFacts
    <3> QED
      BY <2>1, <2>2, <3>1 DEF GuardRec, Active
  <2>3. CASE ~Active(g)
    BY <2>1, <2>3 DEF RegInv, RegTypeOK, Active
  <2> QED
    BY <2>1, <2>2, <2>3
<1>3. RegTypeOK'
  <2>1. guard' \in [Guards -> GuardRec]
    BY <1>2 DEF Vanish
  <2> QED
    BY <1>1, <2>1 DEF RegInv, RegTypeOK
<1>4. IndexesAgree'
  BY <1>1, <1>2 DEF IndexesAgree, GuardsOwnTheirEntries, TablesAreInverse, Listed, RegistryAssumption
<1>5. VerdictInv'
  <2> SUFFICES ASSUME NEW g \in Guards
               PROVE  VerdictOK(g)'
    BY DEF VerdictInv
  <2>1. VerdictOK(g)
    BY DEF RegInv, VerdictInv
  <2>2. \/ guard'[g] = guard[g]
        \/ Active(g) /\ guard'[g].state = "gone"
    BY <1>2 DEF RegInv, RegTypeOK, GuardRec
  <2> QED
    BY <1>1, <2>1, <2>2 DEF VerdictOK, Active
<1> QED
  BY <1>3, <1>4, <1>5 DEF RegInv

\* Every step of the registry keeps the invariant.
LEMMA RegStep ==
  ASSUME RegInv, [RegNext]_regVars, RegistryAssumption
  PROVE  RegInv'
<1>1. CASE UNCHANGED regVars
  <2>1. RegTypeOK'
    BY <1>1 DEF regVars, RegInv, RegTypeOK
  <2>2. IndexesAgree'
    BY <1>1 DEF regVars, RegInv, IndexesAgree, GuardsOwnTheirEntries, TablesAreInverse, Active, Listed
  <2>3. VerdictInv'
    BY <1>1 DEF regVars, RegInv, VerdictInv, VerdictOK
  <2> QED
    BY <2>1, <2>2, <2>3 DEF RegInv
<1>2. CASE RegNext
  BY <1>2, ReserveInv, BindInv, ConsumeInv, CancelInv, VanishInv
     DEF RegNext, FinishIfNotCancelled, Release
<1> QED
  BY <1>1, <1>2

\* Nothing is reserved yet.
LEMMA RegInitInv == RegInit => RegInv
BY RegistryAssumption DEF RegInit, RegInv, RegTypeOK, IndexesAgree, GuardsOwnTheirEntries,
   TablesAreInverse, VerdictInv, VerdictOK, Active, Listed, Unused, GuardRec, RegistryAssumption

\* A guard that was reserved keeps its id, and is never unused again.
LEMMA GuardKeepsId ==
  ASSUME RegInv, [RegNext]_regVars, RegistryAssumption, NEW g \in Guards, guard[g] # Unused
  PROVE  guard'[g].id = guard[g].id /\ guard'[g] # Unused
<1>1. guard \in [Guards -> GuardRec] /\ guard[g].id \in Ids
  BY DEF RegInv, RegTypeOK, GuardRec, Unused
<1>2. CASE UNCHANGED regVars
  BY <1>2 DEF regVars
<1>3. ASSUME NEW h \in Guards, NEW id \in Ids, NEW plugin \in Plugins, NEW domain \in Domains,
             Reserve(h, id, plugin, domain)
      PROVE  guard'[g].id = guard[g].id
  BY <1>1, <1>3 DEF Reserve
<1>4. ASSUME NEW h \in Guards, NEW r \in Resources, BindResource(h, r)
      PROVE  guard'[g].id = guard[g].id
  BY <1>1, <1>4 DEF BindResource, GuardRec
<1>5. ASSUME NEW h \in Guards, FinishIfNotCancelled(h) \/ Release(h)
      PROVE  guard'[g].id = guard[g].id
  BY <1>1, <1>5 DEF FinishIfNotCancelled, Release, Consume, GuardRec
<1>6. ASSUME Vanish
      PROVE  guard'[g].id = guard[g].id
  BY <1>1, <1>6 DEF Vanish, GuardRec, Active
<1>7. guard'[g].id = guard[g].id
  BY <1>2, <1>3, <1>4, <1>5, <1>6 DEF RegNext, CancelOwned, Release
<1> QED
  BY <1>1, <1>7, RegistryAssumption DEF Unused, RegistryAssumption

\* RegInv holds at every step of the registry.
THEOREM RegistryInvariant == RegSpec => []RegInv
<1>1. RegInit => RegInv
  BY RegInitInv
<1>2. RegInv /\ [RegNext]_regVars => RegInv'
  BY RegStep, RegistryAssumption
<1> QED
  BY <1>1, <1>2, PTL DEF RegSpec

\* The tables and the guards are well-typed, and a cancel that returned true
\* has raised its flag.
THEOREM RegistryTypes == RegSpec => []RegTypeOK
<1>1. RegInv => RegTypeOK
  BY DEF RegInv
<1> QED
  BY <1>1, RegistryInvariant, PTL

\* The table of operations, the table of resources and the guards agree,
\* however ids are reused and guards dropped.
THEOREM IndexesAlwaysAgree == RegSpec => []IndexesAgree
<1>1. RegInv => IndexesAgree
  BY DEF RegInv
<1> QED
  BY <1>1, RegistryInvariant, PTL

\* Two guards in use never have the same resource: the table has one id for
\* it, and the entry of that id one token.
LEMMA InvExcludes == ASSUME RegInv, RegistryAssumption PROVE HoldersExclude
<1> SUFFICES ASSUME NEW g \in Guards, NEW h \in Guards, Active(g), Active(h),
                    guard[g].resource = guard[h].resource, guard[g].resource # None
             PROVE  g = h
  BY DEF HoldersExclude
<1>1. /\ guard[g].resource \in Resources
      /\ guard[g].id \in Ids /\ Listed(guard[g].id) /\ operations[guard[g].id].token = g
      /\ operations[guard[g].id].resource = guard[g].resource
  BY ActiveFacts, RegistryAssumption DEF MaybeResource
<1>2. /\ guard[h].id \in Ids /\ Listed(guard[h].id) /\ operations[guard[h].id].token = h
      /\ operations[guard[h].id].resource = guard[g].resource
  BY ActiveFacts, RegistryAssumption
<1>3. resources[guard[g].resource] = guard[g].id /\ resources[guard[g].resource] = guard[h].id
  BY <1>1, <1>2 DEF RegInv, IndexesAgree, TablesAreInverse
<1> QED
  BY <1>1, <1>2, <1>3

\* Two guards in use never have the same resource.
THEOREM HoldersAlwaysExclude == RegSpec => []HoldersExclude
<1>1. RegInv => HoldersExclude
  BY InvExcludes, RegistryAssumption
<1> QED
  BY <1>1, RegistryInvariant, PTL

\* An operation whose cancel call returned true never completes, and one that
\* completed is never told to be canceled.
THEOREM OnlyOneWins == RegSpec => []OneWinner
<1>1. RegInv => OneWinner
  BY DEF RegInv, RegTypeOK, VerdictInv, VerdictOK, OneWinner
<1> QED
  BY <1>1, RegistryInvariant, PTL

-----------------------------------------------------------------------------
\* The refinement: what ResourceLease sees of the registry.
Holder  == [r \in Resources |->
             IF resources[r] = None THEN None ELSE operations[resources[r]].token]
Verdict == [g \in Guards |->
             CASE guard[g].state = "unused" -> "none"
               [] guard[g].state = "active" -> "open"
               [] OTHER ->
                    IF told[g] = "nothing" THEN "lost" ELSE told[g]]

\* The holder of a resource is the guard under whose id it is bound.
LEMMA HolderFacts ==
  ASSUME RegInv, RegistryAssumption, NEW r \in Resources
  PROVE  /\ resources[r] = None => Holder[r] = None
         /\ resources[r] # None =>
              /\ resources[r] \in Ids /\ Holder[r] \in Guards /\ Active(Holder[r])
              /\ guard[Holder[r]].id = resources[r] /\ guard[Holder[r]].resource = r
         /\ \A g \in Guards : Active(g) => (Holder[r] = g <=> resources[r] = guard[g].id)
<1>1. ASSUME resources[r] # None
      PROVE  /\ resources[r] \in Ids /\ Holder[r] \in Guards /\ Active(Holder[r])
             /\ guard[Holder[r]].id = resources[r] /\ guard[Holder[r]].resource = r
  <2>1. resources[r] \in Ids /\ Holder[r] = operations[resources[r]].token
    BY <1>1 DEF RegInv, RegTypeOK, Holder
  <2>2. Listed(resources[r]) /\ operations[resources[r]].resource = r
    BY <2>1 DEF RegInv, IndexesAgree, TablesAreInverse
  <2>3. Holder[r] \in Guards /\ Active(Holder[r]) /\ guard[Holder[r]].id = resources[r]
    BY <2>1, <2>2, EntryFacts DEF RegInv, IndexesAgree, GuardsOwnTheirEntries, Entry
  <2> QED
    BY <2>1, <2>2, <2>3, ActiveFacts
<1>2. ASSUME NEW g \in Guards, Active(g), resources[r] = guard[g].id
      PROVE  Holder[r] = g
  BY <1>2, ActiveFacts DEF Holder, RegistryAssumption
<1>3. resources[r] = None => Holder[r] = None
  BY DEF Holder
<1> QED
  BY <1>1, <1>2, <1>3 DEF RegistryAssumption

\* The verdict is open exactly for the guards in use.
LEMMA VerdictFacts ==
  ASSUME RegInv, RegistryAssumption, NEW g \in Guards
  PROVE  /\ Active(g) <=> Verdict[g] = "open"
         /\ guard[g] = Unused => Verdict[g] = "none"
         /\ Lease!WasCanceled(g) <=> g \in cancelled
<1>1. guard[g] \in GuardRec /\ told[g] \in {"nothing", "completed", "canceled", "released"}
  BY DEF RegInv, RegTypeOK
<1>2. Lease!WasCanceled(g) <=> g \in cancelled
  BY DEF RegInv, RegTypeOK, VerdictInv, VerdictOK, Lease!WasCanceled
<1>3. guard[g].state \in {"unused", "active", "gone"}
  BY <1>1 DEF GuardRec
<1> QED
  BY <1>1, <1>2, <1>3 DEF Active, Verdict, Unused

\* reserve opens the lease of a new guard.
LEMMA ReserveLease ==
  ASSUME RegInv, RegInv', RegistryAssumption, NEW g \in Guards, NEW id \in Ids,
         NEW plugin \in Plugins, NEW domain \in Domains, Reserve(g, id, plugin, domain)
  PROVE  Lease!LeaseNext
<1>1. /\ guard[g] = Unused /\ ~Listed(id)
      /\ \A other \in Ids : other # id => operations'[other] = operations[other]
      /\ guard' = [guard EXCEPT ![g] = [state |-> "active", id |-> id, resource |-> None]]
      /\ reserver' = [reserver EXCEPT ![g] = <<plugin, domain>>]
      /\ UNCHANGED <<resources, told, acked>>
  BY DEF Reserve, RegInv, RegTypeOK
<1>2. Holder' = Holder
  <2>1. ASSUME NEW r \in Resources, resources[r] # None
        PROVE  resources[r] \in Ids /\ resources[r] # id
    BY <1>1, <2>1 DEF RegInv, RegTypeOK, IndexesAgree, TablesAreInverse
  <2> QED
    BY <1>1, <2>1 DEF Holder
<1>3. Verdict[g] = "none" /\ Verdict' = [Verdict EXCEPT ![g] = "open"]
  <2>1. /\ guard'[g].state = "active"
        /\ \A h \in Guards : h # g => guard'[h] = guard[h]
    BY <1>1 DEF RegInv, RegTypeOK
  <2>2. ASSUME NEW h \in Guards
        PROVE  Verdict'[h] = IF h = g THEN "open" ELSE Verdict[h]
    BY <1>1, <2>1 DEF Verdict
  <2>3. Verdict' = [Verdict EXCEPT ![g] = "open"]
    BY <2>2 DEF Verdict
  <2> QED
    BY <1>1, <2>3, VerdictFacts
<1>4. Lease!OpenLease(g, <<plugin, domain>>)
  BY <1>1, <1>2, <1>3 DEF Lease!OpenLease, Holder, Verdict
<1> QED
  BY <1>4 DEF Lease!LeaseNext, Principals

\* bind_resource takes the lease of a resource that nobody has.
LEMMA BindLease ==
  ASSUME RegInv, RegInv', RegistryAssumption, NEW g \in Guards, NEW r \in Resources,
         BindResource(g, r)
  PROVE  Lease!LeaseNext
<1>0. PICK id \in Ids : id = guard[g].id
  BY ActiveFacts DEF BindResource
<1>1. /\ Active(g) /\ g \notin cancelled /\ operations[id].resource = None /\ resources[r] = None
      /\ resources' = [resources EXCEPT ![r] = id]
      /\ operations' = [operations EXCEPT ![id].resource = r]
      /\ guard' = [guard EXCEPT ![g].resource = r]
      /\ UNCHANGED <<reserver, told, acked>>
  BY <1>0 DEF BindResource
<1>2. operations[id] \in Entry /\ operations[id].token = g /\ guard[g].resource = None
  BY <1>0, <1>1, ActiveFacts
<1>3. \A other \in Ids : operations'[other].token = operations[other].token
  BY <1>1, <1>2 DEF RegInv, RegTypeOK, Entry
<1>4. Holder' = [Holder EXCEPT ![r] = g]
  <2>1. ASSUME NEW s \in Resources
        PROVE  Holder'[s] = IF s = r THEN g ELSE Holder[s]
    BY <1>1, <1>2, <1>3 DEF Holder, RegInv, RegTypeOK, RegistryAssumption
  <2> QED
    BY <2>1 DEF Holder
<1>5. Verdict' = Verdict
  <2>1. \A h \in Guards : guard'[h].state = guard[h].state
    BY <1>0, <1>1, ActiveFacts DEF RegInv, RegTypeOK
  <2> QED
    BY <1>1, <2>1 DEF Verdict
<1>6. /\ Verdict[g] = "open" /\ ~Lease!WasCanceled(g)
      /\ Holder[r] = None /\ \A s \in Resources : Holder[s] # g
  BY <1>1, <1>2, VerdictFacts, HolderFacts DEF RegistryAssumption
<1>7. Lease!TakeLease(g, r)
  BY <1>1, <1>4, <1>5, <1>6 DEF Lease!TakeLease, Holder, Verdict
<1> QED
  BY <1>7 DEF Lease!LeaseNext

\* The end of a guard closes its lease with what the guard is told.
LEMMA ConsumeLease ==
  ASSUME RegInv, RegInv', RegistryAssumption, NEW g \in Guards,
         NEW answer \in {"completed", "canceled", "released"}, Consume(g, answer)
  PROVE  Lease!Close(g, answer)
<1>1. /\ operations' = [operations EXCEPT ![guard[g].id] = NoEntry]
      /\ resources' = [s \in Resources |-> IF resources[s] = guard[g].id THEN None ELSE resources[s]]
      /\ guard' = [guard EXCEPT ![g].state = "gone"]
      /\ told' = [told EXCEPT ![g] = answer]
      /\ UNCHANGED <<cancelled, reserver, acked>>
  BY ConsumeEffect
<1>2. Active(g) /\ guard[g] \in [state : {"active"}, id : Ids, resource : MaybeResource]
  BY ActiveFacts DEF Consume
<1>3. \A r \in Resources : Holder'[r] = IF Holder[r] = g THEN None ELSE Holder[r]
  <2> SUFFICES ASSUME NEW r \in Resources
               PROVE  Holder'[r] = IF Holder[r] = g THEN None ELSE Holder[r]
    OBVIOUS
  <2>1. CASE resources[r] = guard[g].id
    BY <1>1, <1>2, <2>1, HolderFacts DEF Holder
  <2>2. CASE resources[r] # guard[g].id
    BY <1>1, <1>2, <2>2, HolderFacts DEF Holder, RegInv, RegTypeOK
  <2> QED
    BY <2>1, <2>2
<1>4. Holder' = [r \in Resources |-> IF Holder[r] = g THEN None ELSE Holder[r]]
  BY <1>3 DEF Holder
<1>5. Verdict' = [Verdict EXCEPT ![g] = answer]
  <2>1. /\ guard'[g].state = "gone" /\ told'[g] = answer
        /\ \A h \in Guards : h # g => guard'[h] = guard[h] /\ told'[h] = told[h]
    BY <1>1, <1>2 DEF RegInv, RegTypeOK
  <2>2. ASSUME NEW h \in Guards
        PROVE  Verdict'[h] = IF h = g THEN answer ELSE Verdict[h]
    BY <2>1 DEF Verdict
  <2> QED
    BY <2>2 DEF Verdict
<1>6. Verdict[g] = "open"
  BY <1>2, VerdictFacts
<1> QED
  BY <1>1, <1>4, <1>5, <1>6 DEF Lease!Close, Holder, Verdict

\* cancel_owned cancels for the principal that opened the lease.
LEMMA CancelLeaseStep ==
  ASSUME RegInv, RegInv', RegistryAssumption, NEW id \in Ids, NEW plugin \in Plugins,
         NEW domain \in Domains, CancelOwned(id, plugin, domain)
  PROVE  Lease!LeaseNext
<1>1. PICK g \in Guards : g = operations[id].token /\ Active(g) /\ guard[g].id = id
  BY EntryFacts DEF CancelOwned, RegInv, IndexesAgree, GuardsOwnTheirEntries, Entry
<1>2. /\ acked' = acked \cup {<<g, reserver[g]>>}
      /\ UNCHANGED <<operations, resources, guard, reserver, told>>
  BY <1>1, ActiveFacts DEF CancelOwned
<1>3. Verdict[g] = "open" /\ Verdict' = Verdict /\ Holder' = Holder
  BY <1>1, <1>2, VerdictFacts DEF Verdict, Holder
<1>4. Lease!CancelLease(g)
  BY <1>2, <1>3 DEF Lease!CancelLease, Verdict, Holder
<1> QED
  BY <1>4 DEF Lease!LeaseNext

\* With the process every open lease is lost.
LEMMA VanishLease ==
  ASSUME RegInv, RegistryAssumption, Vanish
  PROVE  Lease!LeaseNext
<1>1. Holder' = [r \in Resources |-> None]
  BY DEF Vanish, Holder
<1>2. Verdict' = [g \in Guards |-> IF Verdict[g] = "open" THEN "lost" ELSE Verdict[g]]
  <2>1. ASSUME NEW g \in Guards
        PROVE  Verdict'[g] = IF Verdict[g] = "open" THEN "lost" ELSE Verdict[g]
    <3>1. CASE Active(g)
      <4>1. guard'[g].state = "gone" /\ told'[g] = "nothing"
        BY <3>1, ActiveFacts DEF Vanish, Active, RegInv, VerdictInv, VerdictOK
      <4> QED
        BY <3>1, <4>1, VerdictFacts DEF Verdict
    <3>2. CASE ~Active(g)
      <4>1. guard'[g] = guard[g] /\ told'[g] = told[g]
        BY <3>2 DEF Vanish
      <4> QED
        BY <3>2, <4>1, VerdictFacts DEF Verdict
    <3> QED
      BY <3>1, <3>2
  <2> QED
    BY <2>1 DEF Verdict
<1>3. Lease!LoseAll
  BY <1>1, <1>2 DEF Lease!LoseAll, Holder, Verdict, Vanish
<1> QED
  BY <1>3 DEF Lease!LeaseNext

\* The registry implements exclusive leases with one verdict each.
THEOREM RegistryImplementsLease == RegSpec => ImplementsLease
<1>1. RegInit => Lease!LeaseInit
  BY DEF RegInit, Lease!LeaseInit, Unused
<1>2. RegInv /\ RegInv' /\ [RegNext]_regVars => [Lease!LeaseNext]_(Lease!leaseVars)
  <2> SUFFICES ASSUME RegInv, RegInv', [RegNext]_regVars
               PROVE  Lease!LeaseNext \/ UNCHANGED Lease!leaseVars
    OBVIOUS
  <2>1. ASSUME NEW g \in Guards, FinishIfNotCancelled(g) \/ Release(g)
        PROVE  Lease!LeaseNext
    <3>1. PICK answer \in {"completed", "canceled", "released"} :
            /\ Consume(g, answer)
            /\ answer = "completed" => g \notin cancelled
            /\ answer = "canceled" => g \in cancelled
      BY <2>1 DEF FinishIfNotCancelled, Release
    <3>2. Lease!Close(g, answer)
      BY <3>1, ConsumeLease, RegistryAssumption
    <3>3. Lease!WasCanceled(g) <=> g \in cancelled
      BY VerdictFacts, RegistryAssumption
    <3> QED
      BY <3>1, <3>2, <3>3 DEF Lease!LeaseNext, Lease!Complete, Lease!Refuse, Lease!GiveUp
  <2>2. CASE UNCHANGED regVars
    BY <2>2 DEF regVars, Lease!leaseVars
  <2> QED
    BY <2>1, <2>2, ReserveLease, BindLease, CancelLeaseStep, VanishLease, RegistryAssumption
       DEF RegNext
<1> QED
  BY <1>1, <1>2, RegistryInvariant, PTL DEF RegSpec, ImplementsLease, Lease!LeaseSpec
=============================================================================
