----------------------------- MODULE LocalProofs -----------------------------
(***************************************************************************)
(* What goes on beside the network: the users of the job table, and the    *)
(* repositories with their scans, refreshes, writes and diffs.             *)
(*                                                                         *)
(* The users of the job table (BackgroundJobs), for every set of jobs and  *)
(* kinds and every number of progress rounds.  A behaviour of the whole    *)
(* installation is one of the table alone (UsersObeyTheTable), so all that *)
(* SharedTablesProofs proves of it holds here; on top of it come the       *)
(* properties that relate the table to its users:  CancelHolds,            *)
(* NoJobLeftBehind and SweepIsComplete.  SweepInv says what the lock is    *)
(* held for while a start sweeps the table, WorkerInv what the row of an   *)
(* echo job can be at each step of its task.  WorkerInv needs SweepInv:    *)
(* only because the sweep lists transport jobs, and an echo job is none,   *)
(* does a worker never see its job failed.                                 *)
(*                                                                         *)
(* The repositories (Repositories), for every number of calls, workers and *)
(* directories, and all paths, contents and trees: StoredIsCurrent,        *)
(* DiffNamesTheSelection, HoldersAreAtWork and, where the walk has found   *)
(* or reported what it should, ScanIsComplete.  First what they rest on:   *)
(* the counters of a status are those of the tree (CountIsTally), and the  *)
(* parser of a patch names what git has named (DiffListing).  Then         *)
(* RepositoryInv, which no part carries alone.  That a snapshot is current *)
(* when its lock is free needs that it is at the end of the refresh        *)
(* (StoredInv), which needs that nobody else had the lock meanwhile        *)
(* (LockInv).  That a scan is complete needs that each repository is       *)
(* queued, with one worker, or recorded (Progress), and the only worker to *)
(* leave one without a record is dead.                                     *)
(***************************************************************************)
EXTENDS BackgroundJobs, Repositories, SharedTablesProofs, FiniteSetTheorems, SequenceTheorems

SweepInv ==
  /\ process = "down" => Unlocked
  /\ process = "starting" => writing = [op |-> "failRunning", ids |-> RunningTransport]
  /\ process = "up" => writing.op # "failRunning"

WorkerOK(id) ==
  /\ worker[id] # "none" => jobs[id] \in Job /\ jobs[id].kind = Echo
  /\ worker[id] = "starting" => HasStatus(id, {"queued", "canceled"})
  /\ worker[id] \in {"sleeping", "reporting", "succeeding"} /\ id \notin dropped
       => HasStatus(id, {"running", "canceled"})
  /\ worker[id] = "sealing" => writing = [op |-> "succeed", ids |-> {id}]
  /\ worker[id] = "done" /\ id \notin dropped =>
       /\ HasStatus(id, Terminal)
       /\ HasStatus(id, {"succeeded"}) => jobs[id].progress = FullProgress

WorkerInv == \A id \in JobIds : WorkerOK(id)

Inv == TypeOK /\ JobsInv /\ SweepInv /\ WorkerInv /\ CancelHolds

-----------------------------------------------------------------------------
\* Every step of the installation is a step of the table, or leaves it alone.
LEMMA StepOfTable ==
  ASSUME [Next]_vars, TypeOK, EchoAssumption, JobsAssumption
  PROVE  [JobsNext]_jobVars
<1>1. Echo \in Kinds /\ TransportKinds \subseteq Kinds
  BY DEF EchoAssumption, Kinds
<1>2. ASSUME NEW id \in JobIds,
             \/ StartEchoJob(id) \/ EchoTask(id) \/ CancelJob(id)
             \/ TransportCall(id) \/ TransportSeal(id)
      PROVE  [JobsNext]_jobVars
  <2>1. round[id] \in 0..FullProgress
    BY DEF TypeOK, Rounds, JobsAssumption
  <2>2. CASE StartEchoJob(id)
    BY <1>1, <2>2 DEF StartEchoJob, JobsNext, Operation
  <2>3. CASE WorkerStart(id) \/ CancelJob(id)
    BY <2>3 DEF WorkerStart, CancelJob, JobsNext, Operation
  <2>4. CASE CheckCanceled(id)
    BY <2>4 DEF CheckCanceled
  <2>5. CASE ReportProgress(id)
    BY <2>1, <2>5 DEF ReportProgress, JobsNext, Operation
  <2>6. CASE WorkerSucceed(id) \/ WorkerSeal(id) \/ TransportSeal(id)
    BY <2>6 DEF WorkerSucceed, WorkerSeal, TransportSeal, JobsNext, Operation
  <2>7. CASE TransportCall(id)
    BY <1>1, <2>7 DEF TransportCall, JobsNext, Operation
  <2> QED
    BY <1>2, <2>2, <2>3, <2>4, <2>5, <2>6, <2>7 DEF EchoTask
<1>3. CASE Crash
  BY <1>3 DEF Crash, Die, JobsNext
<1>4. CASE Startup
  BY <1>4 DEF Startup, Boot, Sweep, JobsNext, Operation
<1> QED
  BY <1>2, <1>3, <1>4 DEF Next, vars, appVars

\* Every step keeps the types, of the table (SharedTablesProofs) and of its users.
LEMMA TypeStep ==
  ASSUME Inv, [Next]_vars, JobsAssumption, EchoAssumption
  PROVE  TypeOK' /\ JobsInv'
<1>1. JobsInv'
  BY StepOfTable, JobsNextInv DEF Inv
<1>2. JobsTypeOK'
  BY <1>1 DEF JobsInv
<1>3. ASSUME NEW id \in JobIds, StartEchoJob(id) \/ EchoTask(id)
      PROVE  TypeOK'
  <2>1. ASSUME NEW place \in Working \cup {"none", "done", "lost"}, Goto(id, place)
        PROVE  worker' \in [JobIds -> Working \cup {"none", "done", "lost"}]
    BY <2>1 DEF Inv, TypeOK, Goto
  <2>2. worker' \in [JobIds -> Working \cup {"none", "done", "lost"}]
    <3>1. \E place \in Working \cup {"none", "done", "lost"} : Goto(id, place)
      <4>1. CASE StartEchoJob(id) \/ WorkerStart(id) \/ WorkerSucceed(id) \/ WorkerSeal(id)
        BY <4>1 DEF StartEchoJob, WorkerStart, WorkerSucceed, WorkerSeal, Working
      <4>2. CASE CheckCanceled(id)
        BY <4>2 DEF CheckCanceled, Working
      <4>3. CASE ReportProgress(id)
        BY <4>3 DEF ReportProgress, Working
      <4> QED
        BY <1>3, <4>1, <4>2, <4>3 DEF EchoTask
    <3> QED
      BY <2>1, <3>1
  <2>3. round' \in [JobIds -> Rounds]
    BY <1>3 DEF EchoTask, StartEchoJob, WorkerStart, CheckCanceled, ReportProgress, WorkerSucceed,
       WorkerSeal, Inv, TypeOK
  <2>4. process' = process /\ confirmed' = confirmed /\ dropped' \subseteq JobIds
    BY <1>3 DEF EchoTask, StartEchoJob, WorkerStart, CheckCanceled, ReportProgress, WorkerSucceed,
       WorkerSeal, Inv, TypeOK
  <2> QED
    BY <1>2, <2>2, <2>3, <2>4 DEF Inv, TypeOK, AppTypeOK
<1>4. ASSUME NEW id \in JobIds, CancelJob(id) \/ TransportCall(id) \/ TransportSeal(id)
      PROVE  TypeOK'
  BY <1>2, <1>4 DEF Inv, TypeOK, AppTypeOK, CancelJob, TransportCall, TransportSeal, clientVars
<1>5. CASE Crash
  BY <1>1, <1>2, <1>5 DEF Inv, TypeOK, AppTypeOK, Crash, Die
<1>6. CASE Startup
  BY <1>1, <1>2, <1>6 DEF Inv, TypeOK, AppTypeOK, Startup, Boot, Sweep, clientVars
<1>7. CASE UNCHANGED vars
  BY <1>1, <1>2, <1>7 DEF Inv, TypeOK, AppTypeOK, vars, appVars, clientVars
<1> QED
  BY <1>1, <1>3, <1>4, <1>5, <1>6, <1>7 DEF Next

\* A confirmed cancel: the step that confirms it makes the row canceled, and
\* from then on the row is terminal.
LEMMA CancelStep ==
  ASSUME Inv, [Next]_vars, JobsAssumption, EchoAssumption
  PROVE  CancelHolds'
<1> SUFFICES ASSUME NEW id \in confirmed'
             PROVE  jobs'[id].status \in {"canceled"}
  BY DEF CancelHolds, HasStatus
<1>1. id \in JobIds
  BY TypeStep DEF TypeOK
<1>2. CASE id \in confirmed
  <2>1. HasStatus(id, {"canceled"}) /\ HasStatus(id, Terminal)
    BY <1>2 DEF Inv, CancelHolds, HasStatus, Terminal
  <2> QED
    BY <1>1, <2>1, StepOfTable, TerminalStatusStays DEF Inv, HasStatus
<1>3. CASE id \notin confirmed
  <2>1. CancelJob(id)
    BY <1>3 DEF Next, vars, appVars, clientVars, StartEchoJob, EchoTask, WorkerStart, CheckCanceled,
       ReportProgress, WorkerSucceed, WorkerSeal, CancelJob, TransportCall, TransportSeal,
       Crash, Startup
  <2>2. Transition(id, "canceled")
    BY <2>1 DEF CancelJob, Cancel
  <2> QED
    BY <1>1, <2>2, TransitionType DEF Inv, JobsInv
<1> QED
  BY <1>2, <1>3

-----------------------------------------------------------------------------
\* While the process is down nobody has the lock; while a start sweeps, the
\* lock is the sweep's and its list is what is still running; after that no
\* sweep is left.
LEMMA SweepStep ==
  ASSUME Inv, [Next]_vars, JobsAssumption, EchoAssumption
  PROVE  SweepInv'
<1>1. CASE process = "up" /\ process' = "up"
  <2>1. writing' = writing \/ writing' = NoWrite \/ writing'.op = "succeed"
    <3>1. CASE UNCHANGED vars
      BY <3>1 DEF vars, appVars, jobVars
    <3>2. CASE Crash \/ Startup
      BY <1>1, <3>2 DEF Crash, Startup, Die, Boot, Sweep
    <3>3. ASSUME NEW id \in JobIds,
                 \/ StartEchoJob(id) \/ EchoTask(id) \/ CancelJob(id)
                 \/ TransportCall(id) \/ TransportSeal(id)
          PROVE  writing' = writing \/ writing' = NoWrite \/ writing'.op = "succeed"
      BY <3>3 DEF StartEchoJob, EchoTask, WorkerStart, CheckCanceled, ReportProgress,
         WorkerSucceed, WorkerSeal, CancelJob, TransportCall, TransportSeal, jobVars,
         CreateWithId, Start, Fail, Cancel, SucceedStatus, SucceedProgress, RequestCancel,
         SetProgress, LoseLock
    <3> QED
      BY <3>1, <3>2, <3>3 DEF Next
  <2> QED
    BY <1>1, <2>1 DEF Inv, SweepInv, NoWrite
<1>2. CASE process # "up" \/ process' # "up"
  <2>1. UNCHANGED vars \/ Crash \/ Startup
    BY <1>2 DEF Next, IsUp, At, StartEchoJob, EchoTask, WorkerStart, CheckCanceled,
       ReportProgress, WorkerSucceed, WorkerSeal, CancelJob, TransportCall, TransportSeal
  <2>2. CASE UNCHANGED vars
    BY <2>2 DEF vars, appVars, jobVars, Inv, SweepInv, Unlocked, RunningTransport, HasStatus
  <2>3. CASE Crash
    BY <2>3 DEF Crash, Die, LoseLock, SweepInv, Unlocked
  <2>4. CASE Boot
    BY <2>4 DEF Boot, FailRunningList, jobVars, Inv, SweepInv, Unlocked, NoWrite,
       RunningTransport, HasStatus
  <2>5. ASSUME NEW id \in JobIds, Sweep(id)
        PROVE  SweepInv'
    <3>1. /\ process = "starting" /\ FailRunningRow(id)
          /\ writing = [op |-> "failRunning", ids |-> RunningTransport]
      BY <2>5 DEF Sweep, Inv, SweepInv
    <3>2. /\ Transition(id, "failed") /\ id \in RunningTransport
          /\ writing' = IF RunningTransport = {id} THEN NoWrite
                        ELSE [op |-> "failRunning", ids |-> RunningTransport \ {id}]
      BY <3>1 DEF FailRunningRow
    <3>3. /\ jobs'[id].status = "failed"
          /\ \A other \in JobIds \ {id} : jobs'[other] = jobs[other]
      BY <3>2, TransitionType DEF Inv, JobsInv
    <3>4. RunningTransport' = RunningTransport \ {id}
      BY <3>3 DEF RunningTransport, HasStatus
    <3> QED
      BY <2>5, <3>2, <3>4 DEF Sweep, SweepInv, NoWrite
  <2> QED
    BY <2>1, <2>2, <2>3, <2>4, <2>5 DEF Startup
<1> QED
  BY <1>1, <1>2

-----------------------------------------------------------------------------
\* While a task is between the two writes of succeed nobody else acts on the
\* table or on the tasks.
LEMMA SealingIsAlone ==
  ASSUME Inv, [Next]_vars, NEW id \in JobIds, worker[id] = "sealing"
  PROVE  WorkerSeal(id) \/ Crash \/ UNCHANGED vars
<1>1. writing = [op |-> "succeed", ids |-> {id}]
  BY DEF Inv, WorkerInv, WorkerOK
<1>2. ~Unlocked /\ writing.op # "failRunning" /\ process # "down"
  BY <1>1 DEF Unlocked, NoWrite, Inv, SweepInv
<1>3. ASSUME NEW other \in JobIds,
             \/ StartEchoJob(other) \/ EchoTask(other) \/ CancelJob(other)
             \/ TransportCall(other) \/ TransportSeal(other)
      PROVE  WorkerSeal(id)
  <2>1. ~StartEchoJob(other) /\ ~CancelJob(other) /\ ~TransportCall(other)
    BY <1>2 DEF StartEchoJob, CancelJob, TransportCall, CreateWithId, Cancel, Start, Fail,
       SucceedStatus, RequestCancel, SetProgress
  <2>2. ~WorkerStart(other) /\ ~CheckCanceled(other) /\ ~ReportProgress(other) /\ ~WorkerSucceed(other)
    BY <1>2 DEF WorkerStart, CheckCanceled, ReportProgress, WorkerSucceed, At
  <2>3. ~TransportSeal(other)
    BY <1>1 DEF TransportSeal, SucceedProgress
  <2>4. WorkerSeal(other)
    BY <1>3, <2>1, <2>2, <2>3 DEF EchoTask
  <2>5. writing = [op |-> "succeed", ids |-> {other}]
    BY <2>4 DEF WorkerSeal, Inv, WorkerInv, WorkerOK
  <2> QED
    BY <1>1, <2>4, <2>5
<1>4. ~Startup
  BY <1>2 DEF Startup, Boot, Sweep, FailRunningRow
<1> QED
  BY <1>3, <1>4 DEF Next

\* A task that does not move keeps WorkerOK, if its row stays as it is.
LEMMA WorkerAtRest ==
  ASSUME NEW id \in JobIds, WorkerOK(id), worker'[id] = worker[id], jobs'[id] = jobs[id],
         id \in dropped' <=> id \in dropped, worker[id] # "sealing"
  PROVE  WorkerOK(id)'
BY DEF WorkerOK, HasStatus

\* The steps of a task itself.
LEMMA WorkerOwnStep ==
  ASSUME Inv, NEW id \in JobIds, StartEchoJob(id) \/ EchoTask(id), JobsInv',
         EchoAssumption, JobsAssumption
  PROVE  WorkerOK(id)'
<1>1. worker \in [JobIds -> Working \cup {"none", "done", "lost"}] /\ WorkerOK(id)
  BY DEF Inv, TypeOK, WorkerInv
<1>2. ASSUME NEW place, Goto(id, place)
      PROVE  worker'[id] = place
  BY <1>1, <1>2 DEF Goto
<1>3. ASSUME NEW target, Transition(id, target), worker[id] # "none"
      PROVE  jobs'[id] \in Job /\ jobs'[id].kind = Echo /\ jobs'[id].status = target
             /\ jobs'[id].progress = jobs[id].progress
  <2>1. jobs[id] \in Job /\ jobs[id].kind = Echo
    BY <1>1, <1>3 DEF WorkerOK
  <2>2. jobs'[id] = Moved(id, target) /\ jobs'[id].status = target
    BY <1>3, TransitionType DEF Inv, JobsInv
  <2>3. jobs'[id].status # "absent"
    BY <1>3, <2>2 DEF Transition, Permits, Edges
  <2>4. jobs'[id] \in Job
    BY <2>3, TransitionType, <1>3 DEF Inv, JobsInv, JobsTypeOK, Absent
  <2> QED
    BY <2>1, <2>2, <2>4 DEF Moved, Job
<1>4. CASE StartEchoJob(id)
  <2>1. jobs'[id].kind = Echo /\ jobs'[id].status = "queued" /\ jobs'[id] \in Job
    BY <1>4, EchoAssumption DEF StartEchoJob, CreateWithId, Inv, JobsInv, JobsTypeOK, Job, Kinds, Open,
       JobsAssumption
  <2>2. worker'[id] = "starting"
    BY <1>2, <1>4 DEF StartEchoJob
  <2> QED
    BY <2>1, <2>2 DEF WorkerOK, HasStatus
<1>5. CASE WorkerStart(id)
  <2>1. worker[id] = "starting" /\ worker'[id] = "sleeping" /\ HasStatus(id, {"queued", "canceled"})
    BY <1>1, <1>2, <1>5 DEF WorkerStart, At, WorkerOK
  <2>2. CASE Start(id)
    <3>1. jobs'[id] \in Job /\ jobs'[id].kind = Echo /\ jobs'[id].status = "running"
      BY <1>3, <2>1, <2>2 DEF Start
    <3> QED
      BY <2>1, <3>1 DEF WorkerOK, HasStatus
  <2>3. CASE ~Permits(id, "running") /\ UNCHANGED <<jobVars, dropped>>
    BY <1>1, <2>1, <2>3 DEF Permits, Edges, jobVars, WorkerOK, HasStatus
  <2>4. CASE dropped' = dropped \cup {id} /\ UNCHANGED jobVars
    BY <1>1, <2>1, <2>4 DEF jobVars, WorkerOK
  <2> QED
    BY <1>5, <2>2, <2>3, <2>4 DEF WorkerStart
<1>6. CASE CheckCanceled(id)
  <2>1. worker[id] = "sleeping" /\ jobs'[id] = jobs[id]
    BY <1>6 DEF CheckCanceled, At, jobVars
  <2>2. CASE Goto(id, IF HasStatus(id, {"canceled"}) THEN "done" ELSE "reporting") /\ UNCHANGED dropped
    <3>1. worker'[id] = IF HasStatus(id, {"canceled"}) THEN "done" ELSE "reporting"
      BY <1>2, <2>2
    <3> QED
      BY <1>1, <2>1, <2>2, <3>1 DEF WorkerOK, HasStatus, Terminal
  <2>3. CASE Goto(id, "done") /\ dropped' = dropped \cup {id}
    BY <1>1, <1>2, <2>1, <2>3 DEF WorkerOK
  <2> QED
    BY <1>6, <2>2, <2>3 DEF CheckCanceled
<1>7. CASE ReportProgress(id)
  <2>1. worker[id] = "reporting" /\ dropped' = dropped
    BY <1>7 DEF ReportProgress, At
  <2>2. worker'[id] \in {"sleeping", "succeeding"}
    BY <1>2, <1>7 DEF ReportProgress
  <2>3. jobs'[id] \in Job /\ jobs'[id].kind = Echo /\ jobs'[id].status = jobs[id].status
    <3>1. jobs[id] \in Job /\ jobs[id].kind = Echo
      BY <1>1, <2>1 DEF WorkerOK
    <3>2. CASE UNCHANGED jobVars
      BY <3>1, <3>2 DEF jobVars
    <3>3. CASE SetProgress(id, round[id])
      BY <3>1, <3>3 DEF SetProgress, Inv, JobsInv, JobsTypeOK, Job
    <3> QED
      BY <1>7, <3>2, <3>3 DEF ReportProgress
  <2> QED
    BY <1>1, <2>1, <2>2, <2>3 DEF WorkerOK, HasStatus
<1>8. CASE WorkerSucceed(id)
  <2>1. worker[id] = "succeeding"
    BY <1>8 DEF WorkerSucceed, At
  <2>2. CASE SucceedStatus(id) /\ Goto(id, "sealing")
    <3>1. jobs'[id] \in Job /\ jobs'[id].kind = Echo
      BY <1>3, <2>1, <2>2 DEF SucceedStatus
    <3> QED
      BY <1>2, <2>2, <3>1 DEF WorkerOK, SucceedStatus
  <2>3. CASE ~Permits(id, "succeeded") /\ UNCHANGED <<jobVars, dropped>> /\ Goto(id, "done")
    BY <1>1, <1>2, <2>1, <2>3 DEF WorkerOK, HasStatus, Permits, Edges, Terminal, jobVars
  <2>4. CASE dropped' = dropped \cup {id} /\ Goto(id, "done") /\ UNCHANGED jobVars
    BY <1>1, <1>2, <2>1, <2>4 DEF WorkerOK, jobVars
  <2> QED
    BY <1>8, <2>2, <2>3, <2>4 DEF WorkerSucceed
<1>9. CASE WorkerSeal(id)
  <2>1. worker[id] = "sealing" /\ worker'[id] = "done"
    BY <1>2, <1>9 DEF WorkerSeal
  <2>2. jobs[id] \in Job /\ jobs[id].kind = Echo
    BY <1>1, <2>1 DEF WorkerOK
  <2>3. CASE SucceedProgress(id)
    <3>1. jobs[id].status = "succeeded" /\ jobs'[id] = [jobs[id] EXCEPT !.progress = FullProgress]
      BY <2>3 DEF SucceedProgress, Inv, JobsInv, JobsTypeOK, PendingWritesApply
    <3>2. /\ jobs'[id] \in Job /\ jobs'[id].kind = Echo
          /\ jobs'[id].status = "succeeded" /\ jobs'[id].progress = FullProgress
      BY <2>2, <3>1 DEF Job, JobsAssumption
    <3> QED
      BY <2>1, <3>2 DEF WorkerOK, HasStatus, Terminal
  <2>4. CASE LoseLock /\ dropped' = dropped \cup {id}
    BY <2>1, <2>2, <2>4 DEF LoseLock, WorkerOK
  <2> QED
    BY <1>9, <2>3, <2>4 DEF WorkerSeal
<1> QED
  BY <1>4, <1>5, <1>6, <1>7, <1>8, <1>9 DEF EchoTask

\* A job without a task is of no concern to WorkerOK.
LEMMA NoWorker ==
  ASSUME NEW id \in JobIds, worker'[id] = "none"
  PROVE  WorkerOK(id)'
BY DEF WorkerOK

\* The steps of everybody else: the Task Center can only cancel the job, the
\* sweep passes it by, and the rest do not touch it.
LEMMA WorkerOthersStep ==
  ASSUME Inv, NEW id \in JobIds, worker[id] # "sealing", NEW other \in JobIds,
         \/ other # id /\ (StartEchoJob(other) \/ EchoTask(other))
         \/ CancelJob(other) \/ TransportCall(other) \/ TransportSeal(other)
         \/ Sweep(other) /\ UNCHANGED clientVars,
         EchoAssumption, JobsAssumption
  PROVE  WorkerOK(id)'
<1>1. worker \in [JobIds -> Working \cup {"none", "done", "lost"}] /\ WorkerOK(id)
  BY DEF Inv, TypeOK, WorkerInv
<1>2. Operation(other) \/ UNCHANGED jobs
  <2>1. CASE StartEchoJob(other) \/ CancelJob(other)
    BY <2>1, EchoAssumption DEF StartEchoJob, CancelJob, Operation, Kinds
  <2>2. CASE EchoTask(other)
    <3>1. round[other] \in 0..FullProgress
      BY DEF Inv, TypeOK, Rounds, JobsAssumption
    <3> QED
      BY <2>2, <3>1 DEF EchoTask, WorkerStart, CheckCanceled, ReportProgress, WorkerSucceed,
         WorkerSeal, Operation, LoseLock, jobVars
  <2>3. CASE TransportCall(other) \/ TransportSeal(other)
    BY <2>3 DEF TransportCall, TransportSeal, Operation, Kinds
  <2>4. CASE Sweep(other)
    BY <2>4 DEF Sweep, Operation
  <2> QED
    BY <2>1, <2>2, <2>3, <2>4
<1>3. other # id => jobs'[id] = jobs[id]
  BY <1>2, OneRowChanges DEF Inv
<1>4. CASE other # id /\ (StartEchoJob(other) \/ EchoTask(other))
  <2>1. \E place : Goto(other, place)
    BY <1>4 DEF EchoTask, StartEchoJob, WorkerStart, CheckCanceled, ReportProgress,
       WorkerSucceed, WorkerSeal
  <2>2. worker'[id] = worker[id]
    BY <1>1, <1>4, <2>1 DEF Goto
  <2>3. id \in dropped' <=> id \in dropped
    BY <1>4 DEF EchoTask, StartEchoJob, WorkerStart, CheckCanceled, ReportProgress,
       WorkerSucceed, WorkerSeal
  <2> QED
    BY <1>1, <1>3, <1>4, <2>2, <2>3, WorkerAtRest
<1>5. CASE \/ CancelJob(other) \/ TransportCall(other) \/ TransportSeal(other)
           \/ Sweep(other) /\ UNCHANGED clientVars
  <2>1. UNCHANGED <<worker, dropped>>
    BY <1>5 DEF CancelJob, TransportCall, TransportSeal, clientVars
  <2>2. CASE other # id
    BY <1>1, <1>3, <2>1, <2>2, WorkerAtRest
  <2>3. CASE worker[id] = "none"
    BY <2>1, <2>3, NoWorker
  <2>4. CASE other = id /\ worker[id] # "none"
    <3>1. jobs[id] \in Job /\ jobs[id].kind = Echo
      BY <1>1, <2>4 DEF WorkerOK
    <3>2. ~TransportCall(other) /\ ~TransportSeal(other)
      BY <2>4 DEF TransportCall, TransportSeal
    <3>3. ~Sweep(other)
      BY <2>4, <3>1, EchoAssumption DEF Sweep, FailRunningRow, Inv, SweepInv, RunningTransport,
         JobsAssumption
    <3>4. Transition(id, "canceled")
      BY <1>5, <2>4, <3>2, <3>3 DEF CancelJob, Cancel
    <3>5. jobs'[id] = Moved(id, "canceled") /\ jobs'[id].status = "canceled"
      BY <3>4, TransitionType DEF Inv, JobsInv
    <3>6. jobs'[id] \in Job /\ jobs'[id].kind = Echo
      BY <3>1, <3>5 DEF Moved, Job, Terminal
    <3>7. jobs[id].status \in {"queued", "running"}
      BY <3>4 DEF Transition, Permits, Edges
    <3> QED
      BY <1>1, <2>1, <3>5, <3>6, <3>7 DEF WorkerOK, HasStatus, Terminal
  <2> QED
    BY <2>2, <2>3, <2>4
<1> QED
  BY <1>4, <1>5

\* Every step keeps what is known of the job of every echo task.
LEMMA WorkerStep ==
  ASSUME Inv, [Next]_vars, EchoAssumption, JobsAssumption
  PROVE  WorkerInv'
<1> SUFFICES ASSUME NEW id \in JobIds
             PROVE  WorkerOK(id)'
  BY DEF WorkerInv
<1>1. worker \in [JobIds -> Working \cup {"none", "done", "lost"}] /\ WorkerOK(id) /\ JobsInv'
  BY TypeStep DEF Inv, TypeOK, WorkerInv
<1>2. CASE UNCHANGED vars
  BY <1>1, <1>2 DEF vars, appVars, jobVars, clientVars, WorkerOK, HasStatus
<1>3. CASE Crash
  <2>1. worker'[id] = IF worker[id] \in Working THEN "lost" ELSE worker[id]
    BY <1>1, <1>3 DEF Crash
  <2>2. jobs' = jobs /\ dropped' = dropped
    BY <1>3 DEF Crash, Die, LoseLock
  <2> QED
    BY <1>1, <2>1, <2>2 DEF WorkerOK, HasStatus, Working
<1>4. CASE worker[id] = "sealing" /\ WorkerSeal(id)
  BY <1>1, <1>4, WorkerOwnStep DEF EchoTask
<1>5. CASE worker[id] # "sealing" /\ Boot /\ UNCHANGED clientVars
  BY <1>1, <1>5, WorkerAtRest DEF Boot, FailRunningList, jobVars, clientVars
<1>6. ASSUME worker[id] # "sealing", NEW other \in JobIds,
             \/ StartEchoJob(other) \/ EchoTask(other) \/ CancelJob(other)
             \/ TransportCall(other) \/ TransportSeal(other)
             \/ Sweep(other) /\ UNCHANGED clientVars
      PROVE  WorkerOK(id)'
  <2>1. CASE other = id /\ (StartEchoJob(other) \/ EchoTask(other))
    BY <1>1, <2>1, WorkerOwnStep
  <2> QED
    BY <1>6, <2>1, WorkerOthersStep
<1>7. CASE worker[id] = "sealing"
  BY <1>2, <1>3, <1>4, <1>7, SealingIsAlone
<1>8. CASE worker[id] # "sealing"
  BY <1>2, <1>3, <1>5, <1>6, <1>8 DEF Next, Startup
<1> QED
  BY <1>7, <1>8

-----------------------------------------------------------------------------
\* A fresh installation satisfies the invariant: it has no job, and no task.
LEMMA InitInv ==
  ASSUME Init, JobsAssumption, EchoAssumption
  PROVE  Inv
<1>1. JobsInv
  BY JobsInitInv DEF Init, AppInit
<1>2. 1 \in Rounds
  BY DEF Rounds, JobsAssumption, EchoAssumption
<1>3. TypeOK
  BY <1>1, <1>2 DEF Init, AppInit, JobsInv, TypeOK, AppTypeOK
<1>4. SweepInv
  BY DEF Init, AppInit, JobsInit, SweepInv, NoWrite
<1>5. WorkerInv /\ CancelHolds
  BY DEF Init, WorkerInv, WorkerOK, CancelHolds
<1> QED
  BY <1>1, <1>3, <1>4, <1>5 DEF Inv

\* Inv holds at every step of the installation.
THEOREM InstallationInvariant == Spec => []Inv
<1>1. Init => Inv
  BY InitInv, JobsAssumption, EchoAssumption
<1>2. Inv /\ [Next]_vars => Inv'
  <2> SUFFICES ASSUME Inv, [Next]_vars PROVE Inv'
    OBVIOUS
  <2>1. TypeOK' /\ JobsInv'
    BY TypeStep, JobsAssumption, EchoAssumption
  <2>2. SweepInv'
    BY SweepStep, JobsAssumption, EchoAssumption
  <2>3. WorkerInv'
    BY WorkerStep, JobsAssumption, EchoAssumption
  <2>4. CancelHolds'
    BY CancelStep, JobsAssumption, EchoAssumption
  <2> QED
    BY <2>1, <2>2, <2>3, <2>4 DEF Inv
<1> QED
  BY <1>1, <1>2, PTL DEF Spec

\* The state of the installation is well-typed at every step.
THEOREM InstallationTypes == Spec => []TypeOK
<1>1. Inv => TypeOK
  BY DEF Inv
<1> QED
  BY <1>1, InstallationInvariant, PTL

\* A cancel that the Task Center saw succeed holds, against a worker that has
\* passed its is_canceled check and against the sweep of the next start.
THEOREM ConfirmedCancelsHold == Spec => []CancelHolds
<1>1. Inv => CancelHolds
  BY DEF Inv
<1> QED
  BY <1>1, InstallationInvariant, PTL

\* An echo task that has ended without an error of the store leaves its job
\* settled, and at 100 % if it succeeded.
THEOREM TasksLeaveNoJobBehind == Spec => []NoJobLeftBehind
<1>1. Inv => NoJobLeftBehind
  BY DEF Inv, WorkerInv, WorkerOK, NoJobLeftBehind
<1> QED
  BY <1>1, InstallationInvariant, PTL

\* No step that ends a start leaves a transport job shown as running: the
\* rows still listed are all there are, and the last step takes the last one.
LEMMA StartIsComplete ==
  ASSUME Inv, [Next]_vars, process # "up", process' = "up"
  PROVE  RunningTransport' = {}
<1>1. CASE Boot
  BY <1>1 DEF Boot, RunningTransport, jobVars, HasStatus, FailRunningList
<1>2. ASSUME NEW id \in JobIds, Sweep(id)
      PROVE  RunningTransport' = {}
  <2>1. writing.ids = RunningTransport /\ process = "starting"
    BY <1>2 DEF Sweep, Inv, SweepInv
  <2>2. writing.ids = {id} /\ jobs' = [jobs EXCEPT ![id] = Moved(id, "failed")]
    BY <1>2, <2>1 DEF Sweep, FailRunningRow, Transition, RunningTransport, Inv, SweepInv
  <2>3. jobs \in [JobIds -> Job \cup {Absent}] /\ jobs[id] \in Job
    BY <2>1, <2>2 DEF Inv, TypeOK, AppTypeOK, JobsTypeOK, RunningTransport, HasStatus, Absent
  <2>4. jobs'[id].status = "failed"
    BY <2>2, <2>3 DEF Moved, Job
  <2>5. \A other \in JobIds : other # id => jobs'[other] = jobs[other]
    BY <2>2, <2>3
  <2> QED
    BY <2>1, <2>2, <2>4, <2>5 DEF RunningTransport, HasStatus
<1> QED
  BY <1>1, <1>2 DEF Next, Startup, StartEchoJob, EchoTask, WorkerStart, CheckCanceled,
     ReportProgress, WorkerSucceed, WorkerSeal, CancelJob, TransportCall, TransportSeal,
     Crash, Die, IsUp, At, vars, appVars

\* After a start no transport job is still shown as running.
THEOREM StartsSweepTheTable == Spec => SweepIsComplete
<1>1. Inv /\ [Next]_vars =>
        [process # "up" /\ process' = "up" => RunningTransport' = {}]_appVars
  BY StartIsComplete
<1> QED
  BY <1>1, InstallationInvariant, PTL DEF Spec, SweepIsComplete

\* Seen from the job table, the installation is one of the table's users: it
\* makes legal calls only, and holds the lock where the table allows it.
THEOREM UsersObeyTheTable == Spec => JobsSpec
<1>1. Init => JobsInit
  BY DEF Init, AppInit
<1>2. Inv /\ [Next]_vars => [JobsNext]_jobVars
  BY StepOfTable, JobsAssumption, EchoAssumption DEF Inv
<1> QED
  BY <1>1, <1>2, InstallationInvariant, PTL DEF Spec, JobsSpec

\* In the whole installation terminal rows stay as they are, what a lock
\* holder still has to write always applies, and every job lives the one-way
\* life of JobLifecycle.
THEOREM InstallationKeepsTheTable ==
  Spec => TerminalRowsAreFrozen /\ []PendingWritesApply /\ ImplementsLifecycle
BY UsersObeyTheTable, TerminalRowsStayFrozen, PendingWritesAlwaysApply, TableImplementsLifecycle

-----------------------------------------------------------------------------
\* What git's output is read with, for every finite set of paths: the renamings
\* of a status, the codes and kinds of its records.

\* A set of natural numbers has a least one.
LEMMA LeastNatural ==
  ASSUME NEW S, S \subseteq Nat, S # {}
  PROVE  \E n \in S : \A m \in S : n <= m
<1> DEFINE Less == OpToRel(<, Nat)
<1>1. Less = {ss \in Nat \X Nat : ss[1] < ss[2]}
  BY DEF OpToRel
<1>2. IsWellFoundedOn(Less, Nat)
  BY NatLessThanWellFounded
<1> HIDE DEF Less
<1>3. PICK n \in S : \A m \in S : ~(<<m, n>> \in Less)
  BY <1>2, WFMin
<1>4. ASSUME NEW m \in S PROVE n <= m
  <2>1. m \in Nat /\ n \in Nat
    OBVIOUS
  <2>2. ~(m < n)
    <3>1. <<m, n>> \in Nat \X Nat /\ <<m, n>>[1] = m /\ <<m, n>>[2] = n
      BY <2>1
    <3> QED BY <1>1, <1>3, <3>1
  <2> QED BY <2>1, <2>2
<1> QED BY <1>4

\* Of finitely many paths there are finitely many candidates for a renaming.
LEMMA RenamableFinite ==
  ASSUME NEW t, NEW within, IsFiniteSet(within)
  PROVE  IsFiniteSet(Renamable(t, within)) /\ Renamable(t, within) \subseteq within \X within
<1>1. IsFiniteSet(within \X within)
  BY FS_Product
<1>2. Renamable(t, within) \in SUBSET (within \X within)
  BY DEF Renamable
<1> QED BY <1>1, <1>2, FS_Subset

\* The renamings git reports are candidates and match each path once.
LEMMA RenamesFacts ==
  ASSUME NEW t, NEW within, IsFiniteSet(within)
  PROVE  /\ Renames(t, within) \subseteq Renamable(t, within)
         /\ Matching(Renames(t, within))
<1> DEFINE S == Renamable(t, within)
           Left(m) == Cardinality(S) - Cardinality(m)
           N == {k \in Nat : \E m \in SUBSET S : Matching(m) /\ k = Left(m)}
<1>1. IsFiniteSet(S)
  BY RenamableFinite
<1>2. \A m \in SUBSET S : IsFiniteSet(m) /\ Cardinality(m) \in Nat /\ Left(m) \in Nat
  <2> TAKE m \in SUBSET S
  <2>1. IsFiniteSet(m) /\ Cardinality(m) <= Cardinality(S)
    BY <1>1, FS_Subset
  <2>2. Cardinality(m) \in Nat /\ Cardinality(S) \in Nat
    BY <1>1, <2>1, FS_CardinalityType
  <2> QED BY <2>1, <2>2
<1>3. N # {}
  <2>1. Matching({})
    BY DEF Matching
  <2>2. Left({}) \in N
    BY <1>2, <2>1
  <2> QED BY <2>2
<1>4. PICK k \in N : \A j \in N : k <= j
  BY <1>3, LeastNatural
<1>5. PICK m \in SUBSET S : Matching(m) /\ k = Left(m)
  BY <1>4
<1>6. ASSUME NEW r \in S, r \notin m, Matching(m \cup {r}) PROVE FALSE
  <2>1. m \cup {r} \in SUBSET S
    BY <1>6
  <2>2. Cardinality(m \cup {r}) = Cardinality(m) + 1
    BY <1>2, <1>6, FS_AddElement
  <2>3. Left(m \cup {r}) = k - 1
    <3>1. Cardinality(S) \in Nat /\ Cardinality(m) \in Nat
      BY <1>1, <1>2, FS_CardinalityType
    <3> QED BY <1>5, <2>2, <3>1
  <2>4. Left(m \cup {r}) \in N
    BY <1>2, <1>6, <2>1
  <2>5. k \in Nat /\ k <= Left(m \cup {r})
    BY <1>4, <2>4
  <2> HIDE DEF Left
  <2> QED BY <2>3, <2>5
<1>7. \E pairs \in SUBSET S : Matching(pairs) /\ \A r \in S \ pairs : ~Matching(pairs \cup {r})
  BY <1>5, <1>6
<1> QED BY <1>7 DEF Renames

Codes == {".", "A", "D", "M", "R", "U", "?"}
ChangeKinds == {"added", "deleted", "modified", "renamed", "conflicted", "untracked", "unknown"}
StatusRecords ==
  {r \in [mark: {"1", "2", "u", "?"}, index: Codes, work: Codes, path: Paths, orig: Paths \cup {NoPath}] :
     r.mark = "1" => "?" \notin {r.index, r.work}}
Changes == [path: Paths, orig: Paths \cup {NoPath}, kind: ChangeKinds, index: Codes, work: Codes,
            staged: BOOLEAN, unstaged: BOOLEAN, conflicted: BOOLEAN]

\* The letters of a status.
LEMMA CodeType ==
  ASSUME NEW from, NEW to
  PROVE  Code(from, to) \in {".", "A", "D", "M", "U"}
<1>1. CASE from = to
  BY <1>1 DEF Code
<1>2. CASE from # to /\ to = Unmerged
  BY <1>2 DEF Code
<1>3. CASE from # to /\ to # Unmerged /\ from = Missing
  BY <1>3 DEF Code
<1>4. CASE from # to /\ to # Unmerged /\ from # Missing /\ to = Missing
  BY <1>4 DEF Code
<1>5. CASE from # to /\ to # Unmerged /\ from # Missing /\ to # Missing
  BY <1>5 DEF Code
<1> QED BY <1>1, <1>2, <1>3, <1>4, <1>5

\* The letters git gives a file of the work tree.
LEMMA WorkCodeType ==
  ASSUME NEW f
  PROVE  WorkCode(f) \in {".", "A", "D", "M", "U"}
<1>1. CASE f.index = Unmerged
  BY <1>1 DEF WorkCode
<1>2. CASE f.index = Missing
  BY <1>2 DEF WorkCode, Unmerged, Missing
<1>3. CASE f.index \notin {Unmerged, Missing}
  BY <1>3, CodeType DEF WorkCode
<1> QED BY <1>1, <1>2, <1>3

\* A status is made of records of the format.
LEMMA StatusType ==
  ASSUME GitOutputAssumption, NEW t \in TreeStates
  PROVE  Status(t) \subseteq StatusRecords
<1> DEFINE renames == Renames(t, Paths)
<1>1. renames \subseteq Paths \X Paths
  BY RenamesFacts, RenamableFinite DEF GitOutputAssumption
<1> HIDE DEF renames
<1>2. \A r \in renames : Record("2", "R", WorkCode(t[r[2]]), r[2], r[1]) \in StatusRecords
  BY <1>1, WorkCodeType DEF Record, StatusRecords, Codes
<1>3. \A p \in Paths : Record("1", IndexCode(t[p]), WorkCode(t[p]), p, NoPath) \in StatusRecords
  BY WorkCodeType, CodeType DEF Record, StatusRecords, Codes, IndexCode
<1>4. \A p \in Paths : /\ Record("u", "U", "U", p, NoPath) \in StatusRecords
                       /\ Record("?", "?", "?", p, NoPath) \in StatusRecords
  BY DEF Record, StatusRecords, Codes
<1> QED BY <1>2, <1>3, <1>4 DEF Status, renames

\* Every other letter stands for a kind of change.
LEMMA KindOfType ==
  ASSUME NEW code \in Codes, code # "?"
  PROVE  KindOf(code) \in ChangeKinds \ {"untracked"}
<1> QED BY DEF KindOf, ChangeKinds, Codes

\* The parser gives every change a kind of its own.
LEMMA KindType ==
  ASSUME NEW r \in StatusRecords
  PROVE  Kind(r) \in ChangeKinds
<1> USE DEF Kind, ChangeKinds, StatusRecords
<1>1. CASE r.mark = "?"
  BY <1>1
<1>2. CASE r.mark = "u"
  BY <1>2
<1>3. CASE r.mark = "2"
  BY <1>3
<1>4. CASE r.mark = "1"
  <2>1. Kind(r) = KindOf(IF r.index # "." THEN r.index ELSE r.work)
    BY <1>4
  <2> QED BY <1>4, <2>1, KindOfType
<1> QED BY <1>1, <1>2, <1>3, <1>4

\* What the parser makes of a status are changes.
LEMMA ChangesType ==
  ASSUME GitOutputAssumption, NEW t \in TreeStates
  PROVE  Parse(Status(t)) \subseteq Changes
<1>1. \A r \in StatusRecords : ChangeEntry(r) \in Changes
  BY KindType DEF ChangeEntry, Changes, StatusRecords
<1> QED BY <1>1, StatusType DEF Parse

SomePath == Paths \cup {NoPath, Phantom}
DiffFiles == [path: SomePath, old: SomePath, new: SomePath]

\* A change that is listed without its patch keeps its path.
LEMMA SafeFileFacts ==
  ASSUME NEW e \in Changes, NEW staged
  PROVE  SafeFile(e, staged) \in DiffFiles /\ SafeFile(e, staged).path = e.path
<1> DEFINE kind == SideKind(e, staged)
<1>1. kind \in ChangeKinds
  <2> DEFINE code == IF staged THEN e.index ELSE e.work
  <2>1. e.kind \in ChangeKinds
    BY DEF Changes
  <2>2. CASE e.conflicted
    BY <2>2 DEF SideKind, ChangeKinds
  <2>3. CASE ~e.conflicted /\ code \in {"A", "M", "D", "R", "U"}
    <3>1. kind = KindOf(code)
      BY <2>3 DEF SideKind
    <3> QED BY <2>3, <3>1, KindOfType DEF Codes
  <2>4. CASE ~e.conflicted /\ code \notin {"A", "M", "D", "R", "U"}
    <3>1. kind = e.kind
      BY <2>4 DEF SideKind
    <3> QED BY <2>1, <3>1
  <2> QED BY <2>2, <2>3, <2>4
<1>2. e.path \in Paths /\ e.orig \in Paths \cup {NoPath}
  BY DEF Changes
<1>3. CASE kind \in {"added", "untracked"}
  BY <1>2, <1>3 DEF SafeFile, DiffFile, DiffFiles, SomePath
<1>4. CASE kind = "deleted"
  BY <1>2, <1>4 DEF SafeFile, DiffFile, DiffFiles, SomePath
<1>5. CASE kind = "renamed"
  BY <1>2, <1>5 DEF SafeFile, DiffFile, DiffFiles, SomePath
<1>6. CASE kind \in {"modified", "conflicted", "unknown"}
  BY <1>2, <1>6 DEF SafeFile, DiffFile, DiffFiles, SomePath
<1> QED BY <1>1, <1>3, <1>4, <1>5, <1>6 DEF ChangeKinds

-----------------------------------------------------------------------------
\* What FlattenSeq, SetToSeq and ParsePatch return.  They recur along their
\* arguments: Counting replaces the induction.

\* What holds at 0 and goes on from one number to the next holds up to n.
LEMMA Counting ==
  ASSUME NEW n \in Nat, NEW P, 0 \in P, \A i \in 1..n : i - 1 \in P => i \in P
  PROVE  \A i \in 0..n : i \in P
<1> DEFINE Bad == {i \in 0..n : i \notin P}
<1> SUFFICES ASSUME NEW bad \in 0..n, bad \notin P PROVE FALSE
  OBVIOUS
<1>1. Bad # {} /\ Bad \subseteq Nat
  <2>1. bad \in Bad
    OBVIOUS
  <2> QED BY <2>1
<1>2. PICK k \in Bad : \A j \in Bad : k <= j
  BY <1>1, LeastNatural
<1>3. k \in 1..n
  BY <1>2
<1>4. k - 1 \in 0..n /\ ~(k <= k - 1)
  BY <1>3
<1>5. k - 1 \in P
  BY <1>2, <1>4
<1> QED BY <1>2, <1>3, <1>5

Follows(g, F, a, n) == g[0] = a /\ \A i \in 1..n : g[i] = F[<<g[i - 1], i>>]

\* A function that is defined step by step exists.
LEMMA RecursionExists ==
  ASSUME NEW A, NEW a \in A, NEW n \in Nat, NEW F \in [A \X (1..n) -> A]
  PROVE  \E g \in [0..n -> A] : Follows(g, F, a, n)
<1> DEFINE P == {k \in 0..n : \E g \in [0..k -> A] : Follows(g, F, a, k)}
<1>1. 0 \in P
  <2> DEFINE g == [i \in 0..0 |-> a]
  <2>1. g \in [0..0 -> A] /\ Follows(g, F, a, 0)
    BY DEF Follows
  <2> QED BY <2>1
<1>2. ASSUME NEW k \in 1..n, k - 1 \in P PROVE k \in P
  <2>1. PICK g \in [0..(k - 1) -> A] : Follows(g, F, a, k - 1)
    BY <1>2
  <2>2. g[k - 1] \in A
    BY <2>1
  <2>3. F[<<g[k - 1], k>>] \in A
    BY <2>2
  <2> DEFINE h == [i \in 0..k |-> IF i = k THEN F[<<g[k - 1], k>>] ELSE g[i]]
  <2>4. h \in [0..k -> A]
    BY <2>1, <2>3
  <2>5. h[0] = a
    BY <2>1 DEF Follows
  <2>6. ASSUME NEW i \in 1..k PROVE h[i] = F[<<h[i - 1], i>>]
    <3>1. h[i - 1] = g[i - 1]
      OBVIOUS
    <3>2. CASE i = k
      <4>1. h[k] = F[<<g[k - 1], k>>]
        OBVIOUS
      <4>2. h[k - 1] = g[k - 1]
        BY <3>1, <3>2
      <4> HIDE DEF h
      <4> QED BY <3>2, <4>1, <4>2
    <3>3. CASE i # k
      <4>1. i \in 1..(k - 1)
        BY <3>3
      <4>2. g[i] = F[<<g[i - 1], i>>]
        BY <2>1, <4>1 DEF Follows
      <4>3. h[i] = g[i]
        BY <3>3
      <4> QED BY <3>1, <4>2, <4>3
    <3> QED BY <3>2, <3>3
  <2> HIDE DEF h
  <2>7. Follows(h, F, a, k)
    BY <2>5, <2>6 DEF Follows
  <2> QED BY <2>4, <2>7
<1> HIDE DEF P
<1>3. n \in P
  BY <1>1, <1>2, Counting
<1> QED BY <1>3 DEF P

\* What FlattenSeq and SetToSeq return.
LEMMA FlattenType ==
  ASSUME NEW S, NEW seqs \in Seq(Seq(S))
  PROVE  FlattenSeq(seqs) \in Seq(S)
<1>1. CASE Len(seqs) = 0
  <2>1. seqs = <<>>
    BY <1>1, EmptySeq
  <2> QED BY <1>1, <2>1, EmptySeq DEF FlattenSeq
<1>2. CASE Len(seqs) # 0
  <2>1. PICK n \in Nat \ {0} : n = Len(seqs)
    BY <1>2
  <2>2. PICK A : A = Seq(S)
    OBVIOUS
  <2>3. /\ \A i \in 1..n : seqs[i] \in A
        /\ \A s1, s2 \in A : s1 \o s2 \in A
        /\ <<>> \in A
    BY <2>1, <2>2
  <2> DEFINE Rec(f) == f = [i \in 1..n |-> IF i = 1 THEN seqs[i] ELSE f[i - 1] \o seqs[i]]
             flatten == CHOOSE f : Rec(f)
  <2>4. FlattenSeq(seqs) = flatten[n]
    BY <1>2, <2>1 DEF FlattenSeq
  <2>5. \E f : Rec(f)
    <3> DEFINE F == [x \in A \X (1..n) |-> IF x[2] = 1 THEN seqs[1] ELSE x[1] \o seqs[x[2]]]
    <3>1. F \in [A \X (1..n) -> A]
      <4>1. ASSUME NEW x \in A \X (1..n)
            PROVE  (IF x[2] = 1 THEN seqs[1] ELSE x[1] \o seqs[x[2]]) \in A
        <5>1. x[1] \in A /\ x[2] \in 1..n /\ 1 \in 1..n
          OBVIOUS
        <5> QED BY <2>3, <5>1
      <4> QED BY <4>1
    <3>2. PICK g \in [0..n -> A] : Follows(g, F, <<>>, n)
      <4> HIDE DEF F
      <4> QED BY <2>3, <3>1, RecursionExists
    <3>3. ASSUME NEW i \in 1..n PROVE g[i] = IF i = 1 THEN seqs[i] ELSE g[i - 1] \o seqs[i]
      <4>1. g[i] = F[<<g[i - 1], i>>]
        BY <3>2 DEF Follows
      <4>2. g[i - 1] \in A
        BY <3>2
      <4>3. F[<<g[i - 1], i>>] = IF i = 1 THEN seqs[1] ELSE g[i - 1] \o seqs[i]
        BY <4>2
      <4> HIDE DEF F
      <4> QED BY <4>1, <4>3
    <3> DEFINE f == [i \in 1..n |-> g[i]]
    <3>4. ASSUME NEW i \in 1..n PROVE f[i] = IF i = 1 THEN seqs[i] ELSE f[i - 1] \o seqs[i]
      <4>1. i # 1 => i - 1 \in 1..n
        OBVIOUS
      <4> QED BY <3>3, <4>1
    <3>5. Rec(f)
      <4> DEFINE e == [i \in 1..n |-> IF i = 1 THEN seqs[i] ELSE f[i - 1] \o seqs[i]]
      <4>1. \A i \in 1..n : f[i] = e[i]
        BY <3>4
      <4> QED BY <4>1
    <3> QED BY <3>5
  <2>6. Rec(flatten)
    <3> HIDE DEF Rec
    <3> QED BY <2>5
  <2> HIDE DEF flatten
  <2>7. flatten[1] = seqs[1]
    <3>1. 1 \in 1..n
      OBVIOUS
    <3> QED BY <2>6, <3>1
  <2>8. \A i \in 1..n : i # 1 => flatten[i] = flatten[i - 1] \o seqs[i]
    BY <2>6
  <2> HIDE DEF Rec
  <2> DEFINE P == {i \in 0..n : i = 0 \/ flatten[i] \in A}
  <2>9. 0 \in P
    OBVIOUS
  <2>10. ASSUME NEW i \in 1..n, i - 1 \in P PROVE i \in P
    <3>1. CASE i = 1
      BY <2>3, <2>7, <3>1
    <3>2. CASE i # 1
      <4>1. flatten[i - 1] \in A
        BY <2>10, <3>2
      <4>2. flatten[i - 1] \o seqs[i] \in A
        BY <2>3, <4>1
      <4>3. flatten[i] \in A
        BY <2>8, <3>2, <4>2
      <4> QED BY <4>3
    <3> QED BY <3>1, <3>2
  <2>11. n \in P
    <3>1. \A i \in 0..n : i \in P
      <4> HIDE DEF P
      <4> QED BY <2>9, <2>10, Counting
    <3> QED BY <3>1
  <2> QED BY <2>2, <2>4, <2>11
<1> QED BY <1>1, <1>2

\* The sequence of a finite set is of its elements.
LEMMA SetToSeqType ==
  ASSUME NEW S, IsFiniteSet(S)
  PROVE  SetToSeq(S) \in Seq(S)
<1>1. Cardinality(S) \in Nat /\ ExistsBijection(1..Cardinality(S), S)
  BY FS_CardinalityType
<1>2. \E f \in [1..Cardinality(S) -> S] : IsInjective(f)
  BY <1>1 DEF ExistsBijection, Bijection, Injection
<1>3. SetToSeq(S) \in [1..Cardinality(S) -> S]
  BY <1>2 DEF SetToSeq
<1> QED BY <1>1, <1>3

-----------------------------------------------------------------------------
\* A patch and what the parser finds in it.

FilesIn(P) == [path: P, old: SomePath, new: SomePath]
LineKinds == {"diff --git", "---", "+++", "rename from", "rename to"}
LinesIn(P) ==
  {l \in [kind: LineKinds, old: SomePath, new: SomePath] :
     /\ l.kind = "diff --git" => l.new \in P
     /\ l.kind \in {"+++", "rename to"} => l.new \in P \cup {NoPath}
     /\ l.kind = "---" => l.old \in P \cup {NoPath}}

\* A line of a header changes what is said of the file, never to a name it has not.
LEMMA RetitleType ==
  ASSUME NEW P \in SUBSET SomePath, NEW file \in FilesIn(P), NEW line \in LinesIn(P), line.kind # "diff --git"
  PROVE  Retitle(file, line) \in FilesIn(P)
<1> USE DEF FilesIn, LinesIn, LineKinds
<1>1. CASE line.kind \in {"---", "rename from"}
  BY <1>1 DEF Retitle
<1>2. CASE line.kind \in {"+++", "rename to"} /\ line.new = NoPath
  BY <1>2 DEF Retitle
<1>3. CASE line.kind \in {"+++", "rename to"} /\ line.new # NoPath
  BY <1>3 DEF Retitle
<1> QED BY <1>1, <1>2, <1>3

\* A line of a diff that is read leaves files of the paths it may name.
LEMMA ParseLineType ==
  ASSUME NEW P \in SUBSET SomePath, NEW files \in Seq(FilesIn(P)), NEW line \in LinesIn(P)
  PROVE  ParseLine(files, line) \in Seq(FilesIn(P))
<1>1. CASE line.kind = "diff --git"
  <2>1. DiffFile(line.new, line.old, line.new) \in FilesIn(P)
    BY <1>1 DEF DiffFile, FilesIn, LinesIn
  <2>2. ParseLine(files, line) = Append(files, DiffFile(line.new, line.old, line.new))
    BY <1>1 DEF ParseLine
  <2> QED BY <2>1, <2>2, AppendProperties
<1>2. CASE line.kind # "diff --git" /\ files # <<>>
  <2>1. Len(files) \in 1..Len(files) /\ files[Len(files)] \in FilesIn(P)
    <3>1. Len(files) \in Nat \ {0}
      BY <1>2, EmptySeq
    <3>2. Len(files) \in 1..Len(files)
      BY <3>1
    <3> QED BY <3>2, ElementOfSeq
  <2>2. Retitle(files[Len(files)], line) \in FilesIn(P)
    BY <1>2, <2>1, RetitleType
  <2>3. ParseLine(files, line) = [files EXCEPT ![Len(files)] = Retitle(files[Len(files)], line)]
    BY <1>2 DEF ParseLine
  <2> QED BY <2>1, <2>2, <2>3, ExceptSeq
<1>3. CASE line.kind = "---" /\ line.old # NoPath /\ files = <<>>
  <2>1. DiffFile(line.old, NoPath, line.old) \in FilesIn(P)
    BY <1>3 DEF DiffFile, FilesIn, LinesIn, SomePath
  <2>2. ParseLine(files, line) = <<DiffFile(line.old, NoPath, line.old)>>
    BY <1>3 DEF ParseLine
  <2> QED BY <2>1, <2>2
<1>4. CASE line.kind # "diff --git" /\ files = <<>> /\ ~(line.kind = "---" /\ line.old # NoPath)
  BY <1>4 DEF ParseLine
<1> QED BY <1>1, <1>2, <1>3, <1>4

\* Whatever the lines: the parser names nothing that is not in one of them.
LEMMA ParsePatchType ==
  ASSUME NEW P \in SUBSET SomePath, NEW lines \in Seq(LinesIn(P))
  PROVE  ParsePatch(lines) \in Seq(FilesIn(P))
<1>1. PICK n \in Nat : n = Len(lines)
  OBVIOUS
<1>2. PICK A : A = Seq(FilesIn(P))
  OBVIOUS
<1>3. \A i \in 1..n : lines[i] \in LinesIn(P)
  BY <1>1
<1>4. <<>> \in A
  BY <1>2
<1>5. \A files \in A, i \in 1..n : ParseLine(files, lines[i]) \in A
  BY <1>2, <1>3, ParseLineType
<1> DEFINE Rec(f) == f = [i \in 0..n |-> IF i = 0 THEN <<>> ELSE ParseLine(f[i - 1], lines[i])]
           after == CHOOSE f : Rec(f)
<1>6. ParsePatch(lines) = after[n]
  BY <1>1 DEF ParsePatch
<1>7. \E f : Rec(f)
  <2> DEFINE F == [x \in A \X (1..n) |-> ParseLine(x[1], lines[x[2]])]
  <2>1. F \in [A \X (1..n) -> A]
    <3>1. ASSUME NEW x \in A \X (1..n) PROVE ParseLine(x[1], lines[x[2]]) \in A
      <4>1. x[1] \in A /\ x[2] \in 1..n
        OBVIOUS
      <4> QED BY <1>5, <4>1
    <3> QED BY <3>1
  <2>2. PICK g \in [0..n -> A] : Follows(g, F, <<>>, n)
    <3> HIDE DEF F
    <3> QED BY <1>4, <2>1, RecursionExists
  <2>3. ASSUME NEW i \in 1..n PROVE g[i] = ParseLine(g[i - 1], lines[i])
    <3>1. g[i] = F[<<g[i - 1], i>>]
      BY <2>2 DEF Follows
    <3>2. g[i - 1] \in A
      BY <2>2
    <3>3. F[<<g[i - 1], i>>] = ParseLine(g[i - 1], lines[i])
      BY <3>2
    <3> HIDE DEF F
    <3> QED BY <3>1, <3>3
  <2>4. Rec(g)
    <3> DEFINE e == [i \in 0..n |-> IF i = 0 THEN <<>> ELSE ParseLine(g[i - 1], lines[i])]
    <3>1. \A i \in 0..n : g[i] = e[i]
      BY <2>2, <2>3 DEF Follows
    <3> QED BY <2>2, <3>1
  <2> QED BY <2>4
<1>8. Rec(after)
  <2> HIDE DEF Rec
  <2> QED BY <1>7
<1> HIDE DEF after
<1>9. after[0] = <<>> /\ \A i \in 1..n : after[i] = ParseLine(after[i - 1], lines[i])
  BY <1>8
<1> HIDE DEF Rec
<1> DEFINE Good == {i \in 0..n : after[i] \in A}
<1>10. 0 \in Good
  BY <1>4, <1>9
<1>11. ASSUME NEW i \in 1..n, i - 1 \in Good PROVE i \in Good
  <2>1. ParseLine(after[i - 1], lines[i]) \in A
    BY <1>5, <1>11
  <2> QED BY <1>9, <2>1
<1>12. \A i \in 0..n : i \in Good
  <2> HIDE DEF Good
  <2> QED BY <1>10, <1>11, Counting
<1> QED BY <1>2, <1>6, <1>12

\* Short sequences are sequences.
LEMMA ShortSequences ==
  ASSUME NEW S
  PROVE  /\ <<>> \in Seq(S)
         /\ \A a \in S : <<a>> \in Seq(S)
         /\ \A a, b \in S : <<a, b>> \in Seq(S)
         /\ \A a, b, c \in S : <<a, b, c>> \in Seq(S)
<1>1. <<>> \in Seq(S)
  OBVIOUS
<1>2. \A a \in S : <<a>> \in Seq(S)
  OBVIOUS
<1>3. \A a, b \in S : <<a, b>> \in Seq(S)
  OBVIOUS
<1>4. \A a, b, c \in S : <<a, b, c>> \in Seq(S)
  OBVIOUS
<1> QED BY <1>1, <1>2, <1>3, <1>4

\* The part of a patch about one file names it, or what looks like a header.
LEMMA SectionType ==
  ASSUME NEW t, NEW p \in Paths, NEW staged, NEW P \in SUBSET SomePath, p \in P, Phantom \in P
  PROVE  Section(t, p, staged) \in Seq(LinesIn(P))
<1> DEFINE L == LinesIn(P)
           name(c) == IF c = Missing THEN NoPath ELSE p
           side == Side(t, p, staged)
<1>1. /\ Line("diff --git", p, p) \in L
      /\ \A c : Line("---", name(c), NoPath) \in L /\ Line("+++", NoPath, name(c)) \in L
      /\ Line("---", Phantom, NoPath) \in L /\ Line("+++", NoPath, Phantom) \in L
  BY DEF Line, LinesIn, LineKinds, SomePath
<1> HIDE DEF L
<1>2. (IF side[1] = Unmerged THEN <<>> ELSE <<Line("diff --git", p, p)>>) \in Seq(L)
  BY <1>1, ShortSequences
<1>3. <<Line("---", name(side[1]), NoPath), Line("+++", NoPath, name(side[2]))>> \in Seq(L)
  <2> DEFINE a == Line("---", name(side[1]), NoPath)
             b == Line("+++", NoPath, name(side[2]))
  <2>1. a \in L
    BY <1>1
  <2>2. b \in L
    BY <1>1
  <2> HIDE DEF a, b
  <2>3. <<a, b>> \in Seq(L)
    BY <2>1, <2>2, ShortSequences
  <2> QED BY <2>3 DEF a, b
<1>4. Hunk(side[1], side[2]) \in Seq(L)
  <2>1. (IF side[1] \in Dashed THEN <<Line("---", Phantom, NoPath)>> ELSE <<>>) \in Seq(L)
    BY <1>1, ShortSequences
  <2>2. (IF side[2] \in Dashed THEN <<Line("+++", NoPath, Phantom)>> ELSE <<>>) \in Seq(L)
    BY <1>1, ShortSequences
  <2> QED BY <2>1, <2>2, ConcatProperties DEF Hunk
<1> QED BY <1>2, <1>3, <1>4, ConcatProperties DEF Section, L

\* So does that of a renaming, with its two paths.
LEMMA RenameSectionType ==
  ASSUME NEW P \in SUBSET SomePath, NEW old \in P, NEW new \in P
  PROVE  RenameSection(old, new) \in Seq(LinesIn(P))
<1>1. /\ Line("diff --git", old, new) \in LinesIn(P)
      /\ Line("rename from", old, NoPath) \in LinesIn(P)
      /\ Line("rename to", NoPath, new) \in LinesIn(P)
  BY DEF Line, LinesIn, LineKinds, SomePath
<1> QED BY <1>1, ShortSequences DEF RenameSection

\* The files of `within` that a patch is about.
Changed(t, requested, staged) ==
  LET within == IF requested = {} THEN Paths ELSE requested
  IN {p \in within : /\ Side(t, p, staged)[1] # Side(t, p, staged)[2]
                     /\ Side(t, p, staged)[2] # Unmerged
                     /\ staged \/ Tracked(t, p)}

\* A patch names the files that differ.
LEMMA PatchType ==
  ASSUME GitOutputAssumption, NEW t \in TreeStates, NEW requested \in SUBSET Paths, NEW staged \in BOOLEAN
  PROVE  Patch(t, requested, staged) \in Seq(LinesIn(Changed(t, requested, staged) \cup {Phantom}))
<1> DEFINE within  == IF requested = {} THEN Paths ELSE requested
           renames == IF staged THEN Renames(t, within) ELSE {}
           paired  == UNION {{r[1], r[2]} : r \in renames}
           changed == {p \in within \ paired : /\ Side(t, p, staged)[1] # Side(t, p, staged)[2]
                                               /\ Side(t, p, staged)[2] # Unmerged
                                               /\ staged \/ Tracked(t, p)}
           sections == {Section(t, p, staged) : p \in changed}
                         \cup {RenameSection(r[1], r[2]) : r \in renames}
<1>16. Patch(t, requested, staged) = FlattenSeq(SetToSeq(sections))
  BY DEF Patch
<1>1. within \subseteq Paths
  OBVIOUS
<1>3. \A r \in renames : staged /\ r \in Renames(t, within)
  OBVIOUS
<1>4. renames = {} \/ renames = Renames(t, within)
  OBVIOUS
<1>5. \A p \in changed : /\ p \in within
                         /\ Side(t, p, staged)[1] # Side(t, p, staged)[2]
                         /\ Side(t, p, staged)[2] # Unmerged
                         /\ staged \/ Tracked(t, p)
  <2> HIDE DEF within, paired
  <2> QED OBVIOUS
<1>11. sections = {Section(t, p, staged) : p \in changed} \cup {RenameSection(r[1], r[2]) : r \in renames}
  OBVIOUS
<1>17. \A p \in within : /\ Side(t, p, staged)[1] # Side(t, p, staged)[2]
                         /\ Side(t, p, staged)[2] # Unmerged
                         /\ staged \/ Tracked(t, p)
                         => p \in Changed(t, requested, staged)
  BY DEF Changed
<1>18. Changed(t, requested, staged) \subseteq Paths
  BY <1>1 DEF Changed
<1> HIDE DEF within, renames, paired, changed, sections
<1>2. IsFiniteSet(within)
  BY <1>1, FS_Subset DEF GitOutputAssumption
<1>6. PICK P : P = Changed(t, requested, staged) \cup {Phantom}
  OBVIOUS
<1>7. P \subseteq SomePath /\ Phantom \in P
  BY <1>6, <1>18 DEF SomePath
<1>8. changed \subseteq P /\ changed \subseteq within
  BY <1>5, <1>6, <1>17
<1>9. \A r \in renames : r[1] \in P /\ r[2] \in P
  <2> TAKE r \in renames
  <2>1. staged /\ r \in Renamable(t, within)
    BY <1>2, <1>3, RenamesFacts
  <2>2. /\ r[1] \in within /\ r[2] \in within
        /\ t[r[1]].head # Missing /\ t[r[1]].index = Missing
        /\ t[r[2]].head = Missing /\ t[r[2]].index = t[r[1]].head
    BY <2>1 DEF Renamable
  <2>3. t[r[1]].head \in FileContents /\ Missing # Unmerged /\ Unmerged \notin FileContents
    BY <1>1, <2>2 DEF TreeStates, FileContents, Missing, Unmerged, GitOutputAssumption
  <2>4. \A p \in within : Side(t, p, staged)[1] = t[p].head /\ Side(t, p, staged)[2] = t[p].index
    BY <2>1 DEF Side
  <2> QED BY <1>6, <1>17, <2>1, <2>2, <2>3, <2>4
<1>10. IsFiniteSet(renames)
  <2>1. Renames(t, within) \in SUBSET Renamable(t, within) /\ IsFiniteSet(Renamable(t, within))
    BY <1>2, RenamesFacts, RenamableFinite
  <2> QED BY <1>4, <2>1, FS_Subset, FS_EmptySet
<1>12. IsFiniteSet(sections)
  <2> DEFINE A == {Section(t, p, staged) : p \in changed}
             B == {RenameSection(r[1], r[2]) : r \in renames}
             f == [p \in changed |-> Section(t, p, staged)]
             g == [r \in renames |-> RenameSection(r[1], r[2])]
  <2>1. f \in Surjection(changed, A)
    BY DEF Surjection
  <2>2. g \in Surjection(renames, B)
    BY DEF Surjection
  <2>3. IsFiniteSet(changed)
    BY <1>2, <1>8, FS_Subset
  <2> HIDE DEF A, B, f, g
  <2>4. IsFiniteSet(A) /\ IsFiniteSet(B)
    BY <1>10, <2>1, <2>2, <2>3, FS_Surjection
  <2> QED BY <1>11, <2>4, FS_Union DEF A, B
<1>13. sections \subseteq Seq(LinesIn(P))
  <2>1. \A p \in changed : Section(t, p, staged) \in Seq(LinesIn(P))
    BY <1>1, <1>7, <1>8, SectionType
  <2>2. \A r \in renames : RenameSection(r[1], r[2]) \in Seq(LinesIn(P))
    BY <1>7, <1>9, RenameSectionType
  <2> QED BY <1>11, <2>1, <2>2
<1>14. SetToSeq(sections) \in Seq(Seq(LinesIn(P)))
  BY <1>12, <1>13, SetToSeqType, SeqMonotonic
<1>15. FlattenSeq(SetToSeq(sections)) \in Seq(LinesIn(P))
  BY <1>14, FlattenType
<1> QED BY <1>6, <1>15, <1>16

\* What differs has a letter of its own.
LEMMA CodeOfChange ==
  ASSUME NEW from, NEW to, from # to
  PROVE  Code(from, to) \in {"A", "D", "M", "U"}
<1>2. CASE to = Unmerged
  BY <1>2 DEF Code
<1>3. CASE to # Unmerged /\ from = Missing
  BY <1>3 DEF Code
<1>4. CASE to # Unmerged /\ from # Missing /\ to = Missing
  BY <1>4 DEF Code
<1>5. CASE to # Unmerged /\ from # Missing /\ to # Missing
  BY <1>5 DEF Code
<1> QED BY <1>2, <1>3, <1>4, <1>5

\* A file that differs is in the status.
LEMMA StatusRecord ==
  ASSUME GitOutputAssumption, NEW t \in TreeStates, NEW p \in Paths
  PROVE  /\ t[p].head # t[p].index /\ t[p].index # Unmerged =>
              \E x \in Status(t) : p \in {x.path, x.orig} /\ x.index \notin {".", "?"}
         /\ t[p].index # Missing /\ t[p].index # t[p].work =>
              \E x \in Status(t) : p \in {x.path, x.orig} /\ x.work # "."
<1> DEFINE renames == Renames(t, Paths)
           paired  == UNION {{r[1], r[2]} : r \in renames}
           moved(r) == Record("2", "R", WorkCode(t[r[2]]), r[2], r[1])
           plain   == Record("1", IndexCode(t[p]), WorkCode(t[p]), p, NoPath)
           torn    == Record("u", "U", "U", p, NoPath)
<1>1. \A r \in renames : r \in Paths \X Paths /\ t[r[1]].index = Missing
  BY RenamesFacts, RenamableFinite DEF GitOutputAssumption, Renamable
<1>2. \A r \in renames : moved(r) \in Status(t)
  BY DEF Status
<1>3. p \notin paired /\ t[p].index # Unmerged /\ (IndexCode(t[p]) # "." \/ WorkCode(t[p]) # ".")
        => plain \in Status(t)
  <2> SUFFICES ASSUME p \notin paired, t[p].index # Unmerged, IndexCode(t[p]) # "." \/ WorkCode(t[p]) # "."
               PROVE  plain \in Status(t)
    OBVIOUS
  <2>1. p \in {q \in Paths \ paired : /\ t[q].index # Unmerged
                                      /\ <<IndexCode(t[q]), WorkCode(t[q])>> # <<".", ".">>}
    <3>1. p \in Paths \ paired
      OBVIOUS
    <3>2. <<IndexCode(t[p]), WorkCode(t[p])>> # <<".", ".">>
      OBVIOUS
    <3> HIDE DEF paired
    <3> QED BY <3>1, <3>2
  <2> QED BY <2>1 DEF Status
<1>4. t[p].index = Unmerged => torn \in Status(t)
  BY DEF Status
<1>5. p \in paired => \E r \in renames : p = r[1] \/ p = r[2]
  OBVIOUS
<1>6. /\ plain.path = p /\ plain.index = IndexCode(t[p]) /\ plain.work = WorkCode(t[p])
      /\ torn.path = p /\ torn.work = "U"
      /\ \A r : moved(r).path = r[2] /\ moved(r).orig = r[1] /\ moved(r).index = "R" /\ moved(r).work = WorkCode(t[r[2]])
  BY DEF Record
<1> HIDE DEF renames, paired, moved, plain, torn
<1>7. ASSUME t[p].head # t[p].index, t[p].index # Unmerged
      PROVE  \E x \in Status(t) : p \in {x.path, x.orig} /\ x.index \notin {".", "?"}
  <2>1. IndexCode(t[p]) \in {"A", "D", "M", "U"}
    BY <1>7, CodeOfChange DEF IndexCode
  <2>2. CASE p \in paired
    <3>1. PICK r \in renames : p = r[1] \/ p = r[2]
      BY <1>5, <2>2
    <3>2. moved(r) \in Status(t) /\ p \in {moved(r).path, moved(r).orig} /\ moved(r).index = "R"
      BY <1>2, <1>6, <3>1
    <3> QED BY <3>2
  <2>3. CASE p \notin paired
    <3>1. plain \in Status(t)
      BY <1>3, <1>7, <2>1, <2>3
    <3> QED BY <1>6, <2>1, <3>1
  <2> QED BY <2>2, <2>3
<1>8. ASSUME t[p].index # Missing, t[p].index # t[p].work
      PROVE  \E x \in Status(t) : p \in {x.path, x.orig} /\ x.work # "."
  <2>1. CASE t[p].index = Unmerged
    BY <1>4, <1>6, <2>1
  <2>2. CASE t[p].index # Unmerged
    <3>1. WorkCode(t[p]) \in {"A", "D", "M", "U"}
      BY <1>8, <2>2, CodeOfChange DEF WorkCode
    <3>2. CASE p \in paired
      <4>1. PICK r \in renames : p = r[1] \/ p = r[2]
        BY <1>5, <3>2
      <4>2. p = r[2]
        BY <1>1, <1>8, <4>1
      <4>3. moved(r) \in Status(t) /\ moved(r).path = p /\ moved(r).work # "."
        BY <1>2, <1>6, <3>1, <4>2
      <4> QED BY <4>3
    <3>3. CASE p \notin paired
      <4>1. plain \in Status(t)
        BY <1>3, <2>2, <3>1, <3>3
      <4> QED BY <1>6, <3>1, <4>1
    <3> QED BY <3>2, <3>3
  <2> QED BY <2>1, <2>2
<1> QED BY <1>7, <1>8

\* A file that differs is one of those the status has let the user choose.
LEMMA ChangedIsChosen ==
  ASSUME GitOutputAssumption, NEW t \in TreeStates, NEW requested \in SUBSET Paths, NEW staged \in BOOLEAN
  PROVE  Changed(t, requested, staged) \subseteq Allowed(Selected(Parse(Status(t)), requested, staged))
<1> SUFFICES ASSUME NEW p \in Changed(t, requested, staged)
             PROVE  p \in Allowed(Selected(Parse(Status(t)), requested, staged))
  OBVIOUS
<1>1. p \in Paths /\ p # NoPath /\ (requested = {} \/ p \in requested)
  BY DEF Changed, GitOutputAssumption
<1>2. PICK x \in Status(t) : /\ p \in {x.path, x.orig}
                             /\ IF staged THEN x.index \notin {".", "?"} ELSE x.work # "."
  <2>1. CASE staged
    <3>1. t[p].head # t[p].index /\ t[p].index # Unmerged
      BY <2>1 DEF Changed, Side
    <3> QED BY <1>1, <2>1, <3>1, StatusRecord
  <2>2. CASE ~staged
    <3>1. t[p].index # Missing /\ t[p].index # t[p].work
      BY <2>2 DEF Changed, Side, Tracked
    <3> QED BY <1>1, <2>2, <3>1, StatusRecord
  <2> QED BY <2>1, <2>2
<1>3. PICK e : e = ChangeEntry(x)
  OBVIOUS
<1>4. e \in Parse(Status(t))
  BY <1>2, <1>3 DEF Parse
<1>5. /\ e.path = x.path /\ e.orig = x.orig
      /\ IF staged THEN e.staged ELSE e.unstaged
  BY <1>2, <1>3 DEF ChangeEntry
<1>6. e \in Selected(Parse(Status(t)), requested, staged)
  <2>1. requested = {} \/ {e.path, e.orig} \cap requested # {}
    BY <1>1, <1>2, <1>5
  <2> QED BY <1>4, <1>5, <2>1 DEF Selected
<1> QED BY <1>1, <1>2, <1>5, <1>6 DEF Allowed

Names(files) == {f.path : f \in files}

\* What a diff lists, of the tree of its status and of any other.
LEMMA DiffListing ==
  ASSUME GitOutputAssumption, NEW t \in TreeStates, NEW now \in TreeStates,
         NEW requested \in SUBSET Paths, NEW staged \in BOOLEAN,
         NEW chosen, chosen = Selected(Parse(Status(t)), requested, staged),
         NEW safe, safe = SafeSummary(Parse(Status(t)), requested, staged),
         NEW listed, listed \in {safe, Merge(ParsePatch(Patch(now, requested, staged)), safe)}
  PROVE  /\ listed \subseteq DiffFiles
         /\ {e.path : e \in chosen} \subseteq Names(listed)
         /\ now = t => Names(listed) \ {Phantom} \subseteq Allowed(chosen)
<1>1. chosen \subseteq Changes
  BY ChangesType DEF Selected
<1>2. safe = {SafeFile(e, staged) : e \in chosen}
  BY DEF SafeSummary
<1>3. safe \subseteq DiffFiles
  BY <1>1, <1>2, SafeFileFacts
<1>4. Names(safe) = {e.path : e \in chosen}
  BY <1>1, <1>2, SafeFileFacts DEF Names
<1> DEFINE P == Changed(now, requested, staged) \cup {Phantom}
           parsed == ParsePatch(Patch(now, requested, staged))
<1>5. P \subseteq SomePath
  BY DEF Changed, SomePath
<1>6. parsed \in Seq(FilesIn(P))
  BY <1>5, PatchType, ParsePatchType
<1>7. ToSet(parsed) \subseteq FilesIn(P)
  <2> HIDE DEF P, parsed
  <2> QED BY <1>6 DEF ToSet
<1>8. listed = safe \/ listed = ToSet(parsed) \cup safe
  BY DEF Merge
<1> HIDE DEF parsed
<1>9. ToSet(parsed) \subseteq DiffFiles /\ Names(ToSet(parsed)) \subseteq P
  <2> HIDE DEF P
  <2> QED BY <1>5, <1>7 DEF FilesIn, DiffFiles, Names
<1>10. listed \subseteq DiffFiles
  BY <1>3, <1>8, <1>9
<1>11. Names(safe) \subseteq Names(listed) /\ Names(listed) \subseteq P \cup Names(safe)
  <2> HIDE DEF P
  <2> QED BY <1>8, <1>9 DEF Names
<1>12. Names(safe) \subseteq Allowed(chosen)
  <2> SUFFICES ASSUME NEW e \in chosen PROVE e.path \in Allowed(chosen)
    BY <1>4
  <2>1. e.path \in Paths /\ e.path # NoPath
    BY <1>1 DEF Changes, GitOutputAssumption
  <2> QED BY <2>1 DEF Allowed
<1>13. now = t => P \subseteq Allowed(chosen) \cup {Phantom}
  BY ChangedIsChosen
<1> HIDE DEF P
<1> QED BY <1>4, <1>10, <1>11, <1>12, <1>13

-----------------------------------------------------------------------------
\* The counters of a snapshot are those of the tree.

\* Counting by path: one of E for every path of Q, and no other.
LEMMA SameCount ==
  ASSUME NEW E, NEW Q, IsFiniteSet(Q),
         \A e \in E : e.path \in Q,
         \A p \in Q : \E e \in E : e.path = p,
         \A e, f \in E : e.path = f.path => e = f
  PROVE  IsFiniteSet(E) /\ Cardinality(E) = Cardinality(Q)
<1> DEFINE g == [e \in E |-> e.path]
<1>1. g \in Injection(E, Q)
  BY DEF Injection, IsInjective
<1>2. g \in Surjection(E, Q)
  BY DEF Surjection
<1> HIDE DEF g
<1> QED BY <1>1, <1>2, FS_Injection

\* There are as many renamings as paths that are gone by them.
LEMMA PairsCount ==
  ASSUME NEW R, IsFiniteSet(R), Matching(R)
  PROVE  LET olds == {r[1] : r \in R} IN IsFiniteSet(olds) /\ Cardinality(olds) = Cardinality(R)
<1> DEFINE olds == {r[1] : r \in R}
           g == [r \in R |-> r[1]]
<1>1. g \in Surjection(R, olds)
  BY DEF Surjection
<1>2. g \in Injection(R, olds)
  BY DEF Injection, IsInjective, Matching
<1> HIDE DEF g, olds
<1>3. IsFiniteSet(olds) /\ Cardinality(olds) = Cardinality(R)
  BY <1>1, <1>2, FS_Surjection
<1> QED BY <1>3 DEF olds

\* The letters of a file in a status, by what has changed.
LEMMA KindNames ==
  ASSUME NEW f
  PROVE  /\ IndexCode(f) \in {".", "A", "D", "M", "U"}
         /\ WorkCode(f) \in {".", "A", "D", "M", "U"}
         /\ f.head = f.index => IndexCode(f) = "."
         /\ f.head # f.index => IndexCode(f) # "."
         /\ f.index = Missing => WorkCode(f) = "."
         /\ f.index \notin {Missing, Unmerged} /\ f.index = f.work => WorkCode(f) = "."
         /\ f.index \notin {Missing, Unmerged} /\ f.index # f.work => WorkCode(f) # "."
<1>1. IndexCode(f) \in {".", "A", "D", "M", "U"}
  BY CodeType DEF IndexCode
<1>2. WorkCode(f) \in {".", "A", "D", "M", "U"}
  BY WorkCodeType
<1>3. f.head = f.index => IndexCode(f) = "."
  BY DEF IndexCode, Code
<1>4. f.head # f.index => IndexCode(f) # "."
  BY CodeOfChange DEF IndexCode
<1>5. f.index = Missing => WorkCode(f) = "."
  BY DEF WorkCode, Missing, Unmerged
<1>6. f.index \notin {Missing, Unmerged} => WorkCode(f) = Code(f.index, f.work)
  BY DEF WorkCode
<1>7. f.index = f.work => Code(f.index, f.work) = "."
  BY DEF Code
<1>8. f.index # f.work => Code(f.index, f.work) # "."
  BY CodeOfChange
<1> QED BY <1>1, <1>2, <1>3, <1>4, <1>5, <1>6, <1>7, <1>8

\* The changes of a status, by what they come from.
Renamed(t, r)    == ChangeEntry(Record("2", "R", WorkCode(t[r[2]]), r[2], r[1]))
Plain(t, p)    == ChangeEntry(Record("1", IndexCode(t[p]), WorkCode(t[p]), p, NoPath))
Torn(p)        == ChangeEntry(Record("u", "U", "U", p, NoPath))
Stray(p)       == ChangeEntry(Record("?", "?", "?", p, NoPath))
Paired(t)      == UNION {{r[1], r[2]} : r \in Renames(t, Paths)}
PlainPaths(t)  == {p \in Paths : /\ p \notin Paired(t) /\ t[p].index # Unmerged
                                 /\ IndexCode(t[p]) # "." \/ WorkCode(t[p]) # "."}

\* Every change of a status is of one of the four forms, and all that have a form are there.
LEMMA ParsedStatus ==
  ASSUME NEW t
  PROVE  /\ \A e \in Parse(Status(t)) :
              \/ \E r \in Renames(t, Paths) : e = Renamed(t, r)
              \/ \E p \in PlainPaths(t) : e = Plain(t, p)
              \/ \E p \in Paths : t[p].index = Unmerged /\ e = Torn(p)
              \/ \E p \in Paths : Untracked(t, p) /\ e = Stray(p)
         /\ \A r \in Renames(t, Paths) : Renamed(t, r) \in Parse(Status(t))
         /\ \A p \in PlainPaths(t) : Plain(t, p) \in Parse(Status(t))
         /\ \A p \in Paths : t[p].index = Unmerged => Torn(p) \in Parse(Status(t))
         /\ \A p \in Paths : Untracked(t, p) => Stray(p) \in Parse(Status(t))
<1> DEFINE plains == {q \in Paths \ Paired(t) : /\ t[q].index # Unmerged
                                                /\ <<IndexCode(t[q]), WorkCode(t[q])>> # <<".", ".">>}
           moved(r) == Record("2", "R", WorkCode(t[r[2]]), r[2], r[1])
           plain(p) == Record("1", IndexCode(t[p]), WorkCode(t[p]), p, NoPath)
           torn(p)  == Record("u", "U", "U", p, NoPath)
           stray(p) == Record("?", "?", "?", p, NoPath)
           tears    == {q \in Paths : t[q].index = Unmerged}
           strays   == {q \in Paths : Untracked(t, q)}
<1>1. plains = PlainPaths(t)
  <2>1. \A q : q \in Paths \ Paired(t) <=> q \in Paths /\ q \notin Paired(t)
    OBVIOUS
  <2> QED BY <2>1 DEF PlainPaths
<1>2. Status(t) = {moved(r) : r \in Renames(t, Paths)} \cup {plain(p) : p \in plains}
                    \cup {torn(p) : p \in tears} \cup {stray(p) : p \in strays}
  BY DEF Status, Paired
<1> HIDE DEF plains
<1>3. \A x \in Status(t) :
        \/ \E r \in Renames(t, Paths) : x = moved(r)
        \/ \E p \in plains : x = plain(p)
        \/ \E p \in Paths : t[p].index = Unmerged /\ x = torn(p)
        \/ \E p \in Paths : Untracked(t, p) /\ x = stray(p)
  <2> HIDE DEF moved, plain, torn, stray
  <2> QED BY <1>2
<1>4. /\ \A r \in Renames(t, Paths) : moved(r) \in Status(t)
      /\ \A p \in plains : plain(p) \in Status(t)
      /\ \A p \in Paths : t[p].index = Unmerged => torn(p) \in Status(t)
      /\ \A p \in Paths : Untracked(t, p) => stray(p) \in Status(t)
  <2> HIDE DEF moved, plain, torn, stray
  <2> QED BY <1>2
<1>5. \A x \in Status(t) : ChangeEntry(x) \in Parse(Status(t))
  BY DEF Parse
<1>6. \A e \in Parse(Status(t)) : \E x \in Status(t) : e = ChangeEntry(x)
  BY DEF Parse
<1>7. /\ \A r : Renamed(t, r) = ChangeEntry(moved(r))
      /\ \A p : Plain(t, p) = ChangeEntry(plain(p)) /\ Torn(p) = ChangeEntry(torn(p)) /\ Stray(p) = ChangeEntry(stray(p))
  BY DEF Renamed, Plain, Torn, Stray
<1> HIDE DEF moved, plain, torn, stray
<1> QED BY <1>1, <1>3, <1>4, <1>5, <1>6, <1>7

\* What is counted of each form.
LEMMA RenamedFields ==
  ASSUME NEW t, NEW r
  PROVE  /\ Renamed(t, r).path = r[2] /\ Renamed(t, r).kind # "untracked"
         /\ Renamed(t, r).staged /\ (Renamed(t, r).unstaged <=> WorkCode(t[r[2]]) # ".") /\ ~Renamed(t, r).conflicted
<1> QED BY DEF Renamed, ChangeEntry, Record, Kind

\* What the parser makes of a file that changed,
LEMMA PlainFields ==
  ASSUME NEW t, NEW p
  PROVE  /\ Plain(t, p).path = p /\ Plain(t, p).kind # "untracked"
         /\ Plain(t, p).staged <=> IndexCode(t[p]) # "."
         /\ Plain(t, p).unstaged <=> WorkCode(t[p]) # "."
         /\ ~Plain(t, p).conflicted
<1> DEFINE code == IF IndexCode(t[p]) # "." THEN IndexCode(t[p]) ELSE WorkCode(t[p])
<1>1. Plain(t, p).kind = KindOf(code)
  BY DEF Plain, ChangeEntry, Record, Kind
<1>2. code \in {".", "A", "D", "M", "U"}
  BY KindNames
<1>3. KindOf(code) # "untracked"
  <2> HIDE DEF code
  <2> QED BY <1>2 DEF KindOf
<1>4. Plain(t, p).staged <=> IndexCode(t[p]) \notin {".", "?"}
  BY DEF Plain, ChangeEntry, Record
<1>5. IndexCode(t[p]) # "?"
  BY KindNames
<1>6. /\ Plain(t, p).path = p
      /\ Plain(t, p).unstaged <=> WorkCode(t[p]) # "."
      /\ ~Plain(t, p).conflicted
  BY DEF Plain, ChangeEntry, Record
<1> QED BY <1>1, <1>3, <1>4, <1>5, <1>6

\* of one a merge left in conflict,
LEMMA TornFields ==
  ASSUME NEW p
  PROVE  /\ Torn(p).path = p /\ Torn(p).kind # "untracked"
         /\ Torn(p).staged /\ Torn(p).unstaged /\ Torn(p).conflicted
<1> QED BY DEF Torn, ChangeEntry, Record, Kind

\* and of one git does not know.
LEMMA StrayFields ==
  ASSUME NEW p
  PROVE  /\ Stray(p).path = p /\ Stray(p).kind = "untracked"
         /\ ~Stray(p).staged /\ Stray(p).unstaged /\ ~Stray(p).conflicted
<1> QED BY DEF Stray, ChangeEntry, Record, Kind

\* A change of a status, and what the parser counts of it.
LEMMA FormsOf ==
  ASSUME NEW t, NEW e \in Parse(Status(t))
  PROVE  /\ e.staged =>
              \/ \E r \in Renames(t, Paths) : e = Renamed(t, r)
              \/ \E p \in PlainPaths(t) : IndexCode(t[p]) # "." /\ e = Plain(t, p)
              \/ \E p \in Paths : t[p].index = Unmerged /\ e = Torn(p)
         /\ e.unstaged /\ e.kind # "untracked" =>
              \/ \E r \in Renames(t, Paths) : WorkCode(t[r[2]]) # "." /\ e = Renamed(t, r)
              \/ \E p \in PlainPaths(t) : WorkCode(t[p]) # "." /\ e = Plain(t, p)
              \/ \E p \in Paths : t[p].index = Unmerged /\ e = Torn(p)
         /\ e.kind = "untracked" => \E p \in Paths : Untracked(t, p) /\ e = Stray(p)
         /\ e.conflicted => \E p \in Paths : t[p].index = Unmerged /\ e = Torn(p)
<1>1. CASE \E r \in Renames(t, Paths) : e = Renamed(t, r)
  <2>1. PICK r \in Renames(t, Paths) : e = Renamed(t, r)
    BY <1>1
  <2>2. e.kind # "untracked" /\ (e.unstaged <=> WorkCode(t[r[2]]) # ".") /\ ~e.conflicted
    BY <2>1, RenamedFields
  <2> QED BY <2>1, <2>2
<1>2. CASE \E p \in PlainPaths(t) : e = Plain(t, p)
  <2>1. PICK p \in PlainPaths(t) : e = Plain(t, p)
    BY <1>2
  <2>2. /\ e.kind # "untracked" /\ ~e.conflicted
        /\ e.staged <=> IndexCode(t[p]) # "."
        /\ e.unstaged <=> WorkCode(t[p]) # "."
    BY <2>1, PlainFields
  <2> QED BY <2>1, <2>2
<1>3. CASE \E p \in Paths : t[p].index = Unmerged /\ e = Torn(p)
  <2>1. PICK p \in Paths : t[p].index = Unmerged /\ e = Torn(p)
    BY <1>3
  <2>2. e.kind # "untracked"
    BY <2>1, TornFields
  <2> QED BY <2>1, <2>2
<1>4. CASE \E p \in Paths : Untracked(t, p) /\ e = Stray(p)
  <2>1. PICK p \in Paths : Untracked(t, p) /\ e = Stray(p)
    BY <1>4
  <2>2. e.kind = "untracked" /\ ~e.staged /\ ~e.conflicted
    BY <2>1, StrayFields
  <2> QED BY <2>1, <2>2
<1> QED BY <1>1, <1>2, <1>3, <1>4, ParsedStatus

\* What of a tree is in a renaming.
LEMMA PairedPaths ==
  ASSUME GitOutputAssumption, NEW t \in TreeStates
  PROVE  /\ \A r \in Renames(t, Paths) :
              /\ r[1] \in Paths /\ r[2] \in Paths
              /\ t[r[1]].index = Missing /\ t[r[1]].head # Missing
              /\ t[r[2]].head = Missing /\ t[r[2]].index \notin {Missing, Unmerged}
              /\ r[1] \in Paired(t) /\ r[2] \in Paired(t)
         /\ \A p \in Paired(t) : \E r \in Renames(t, Paths) : p = r[1] \/ p = r[2]
         /\ \A r, s \in Renames(t, Paths) : r[1] = s[1] \/ r[2] = s[2] => r = s
         /\ IsFiniteSet(Renames(t, Paths))
<1>1. /\ Renames(t, Paths) \subseteq Renamable(t, Paths) /\ Matching(Renames(t, Paths))
      /\ IsFiniteSet(Renamable(t, Paths))
  BY RenamesFacts, RenamableFinite DEF GitOutputAssumption
<1>2. \A r \in Renames(t, Paths) :
        /\ r[1] \in Paths /\ r[2] \in Paths
        /\ t[r[1]].head # Missing /\ t[r[1]].index = Missing
        /\ t[r[2]].head = Missing /\ t[r[2]].index = t[r[1]].head
  BY <1>1 DEF Renamable
<1>3. \A p \in Paths : t[p].head # Unmerged
  BY DEF TreeStates, FileContents, GitOutputAssumption, Missing, Unmerged
<1>4. IsFiniteSet(Renames(t, Paths))
  BY <1>1, FS_Subset
<1>5. /\ \A r \in Renames(t, Paths) : r[1] \in Paired(t) /\ r[2] \in Paired(t)
      /\ \A p \in Paired(t) : \E r \in Renames(t, Paths) : p = r[1] \/ p = r[2]
  BY DEF Paired
<1>6. \A r, s \in Renames(t, Paths) : r[1] = s[1] \/ r[2] = s[2] => r = s
  BY <1>1 DEF Matching
<1> QED BY <1>2, <1>3, <1>4, <1>5, <1>6

\* The staged changes: every path that differs from HEAD, and a renaming once.
LEMMA StagedCount ==
  ASSUME GitOutputAssumption, NEW t \in TreeStates
  PROVE  Cardinality({e \in Parse(Status(t)) : e.staged}) = Tally(t).staged
<1> DEFINE E == {e \in Parse(Status(t)) : e.staged}
           R == Renames(t, Paths)
           moved == {p \in Paths : t[p].head # t[p].index}
           olds  == {r[1] : r \in R}
           Q     == moved \ olds
<1>1. \A p : p \in Q <=> p \in Paths /\ t[p].head # t[p].index /\ \A r \in R : p # r[1]
  OBVIOUS
<1>2. IsFiniteSet(moved) /\ moved \in SUBSET Paths
  BY FS_Subset DEF GitOutputAssumption
<1>3. olds \subseteq moved
  BY PairedPaths
<1>4. Cardinality(Q) = Cardinality(moved) - Cardinality(R) /\ IsFiniteSet(Q)
  <2>1. Cardinality(olds) = Cardinality(R)
    BY PairsCount, PairedPaths DEF Matching
  <2>2. moved \cap olds = olds
    BY <1>3
  <2>3. /\ IsFiniteSet(moved \ olds)
        /\ Cardinality(moved \ olds) = Cardinality(moved) - Cardinality(moved \cap olds)
    <3> HIDE DEF moved, olds
    <3> QED BY <1>2, FS_Difference
  <2> QED BY <2>1, <2>2, <2>3
<1>5. \A e \in E :
        \/ \E r \in R : e = Renamed(t, r)
        \/ \E p \in PlainPaths(t) : IndexCode(t[p]) # "." /\ e = Plain(t, p)
        \/ \E p \in Paths : t[p].index = Unmerged /\ e = Torn(p)
  BY FormsOf
<1>6. /\ \A r \in R : Renamed(t, r) \in E
      /\ \A p \in PlainPaths(t) : IndexCode(t[p]) # "." => Plain(t, p) \in E
      /\ \A p \in Paths : t[p].index = Unmerged => Torn(p) \in E
  <2>1. \A r \in R : Renamed(t, r) \in E
    BY ParsedStatus, RenamedFields
  <2>2. \A p \in PlainPaths(t) : IndexCode(t[p]) # "." => Plain(t, p) \in E
    BY ParsedStatus, PlainFields
  <2>3. \A p \in Paths : t[p].index = Unmerged => Torn(p) \in E
    BY ParsedStatus, TornFields
  <2> HIDE DEF E, R
  <2> QED BY <2>1, <2>2, <2>3
<1> HIDE DEF E, Q
<1>7. \A p \in Paths : t[p].head # Unmerged
  BY DEF TreeStates, FileContents, GitOutputAssumption, Missing, Unmerged
<1>8. \A e \in E : e.path \in Q
  <2> TAKE e \in E
  <2>1. CASE \E r \in R : e = Renamed(t, r)
    <3>1. PICK r \in R : e = Renamed(t, r)
      BY <2>1
    <3>2. e.path = r[2]
      BY <3>1, RenamedFields
    <3>3. \A s \in R : r[2] # s[1]
      BY <3>1, PairedPaths
    <3> QED BY <1>1, <3>1, <3>2, <3>3, PairedPaths
  <2>2. CASE \E p \in PlainPaths(t) : IndexCode(t[p]) # "." /\ e = Plain(t, p)
    <3>1. PICK p \in PlainPaths(t) : IndexCode(t[p]) # "." /\ e = Plain(t, p)
      BY <2>2
    <3>2. e.path = p /\ p \in Paths /\ p \notin Paired(t)
      BY <3>1, PlainFields DEF PlainPaths
    <3>3. t[p].head # t[p].index
      BY <3>1, KindNames
    <3>4. \A s \in R : p # s[1]
      BY <3>2, PairedPaths
    <3> QED BY <1>1, <3>2, <3>3, <3>4
  <2>3. CASE \E p \in Paths : t[p].index = Unmerged /\ e = Torn(p)
    <3>1. PICK p \in Paths : t[p].index = Unmerged /\ e = Torn(p)
      BY <2>3
    <3>2. e.path = p
      BY <3>1, TornFields
    <3>3. \A s \in R : p # s[1]
      BY <3>1, PairedPaths DEF Missing, Unmerged
    <3> QED BY <1>1, <1>7, <3>1, <3>2, <3>3
  <2> QED BY <1>5, <2>1, <2>2, <2>3
<1>9. \A p \in Q : \E e \in E : e.path = p
  <2> TAKE p \in Q
  <2>1. p \in Paths /\ t[p].head # t[p].index /\ \A r \in R : p # r[1]
    BY <1>1
  <2>2. CASE p \in Paired(t)
    <3>1. PICK r \in R : p = r[2]
      BY <2>1, <2>2, PairedPaths
    <3> QED BY <1>6, <3>1, RenamedFields
  <2>3. CASE t[p].index = Unmerged
    BY <1>6, <2>1, <2>3, TornFields
  <2>4. CASE p \notin Paired(t) /\ t[p].index # Unmerged
    <3>1. IndexCode(t[p]) # "."
      BY <2>1, KindNames
    <3>2. p \in PlainPaths(t)
      BY <2>1, <2>4, <3>1 DEF PlainPaths
    <3> QED BY <1>6, <3>1, <3>2, PlainFields
  <2> QED BY <2>2, <2>3, <2>4
<1>10. \A e, f \in E : e.path = f.path => e = f
  <2>1. \A r \in R : Renamed(t, r).path = r[2] /\ r[2] \in Paired(t) /\ t[r[2]].index # Unmerged
    <3> TAKE r \in R
    <3> QED BY RenamedFields, PairedPaths
  <2>2. \A p \in PlainPaths(t) : Plain(t, p).path = p /\ p \notin Paired(t) /\ t[p].index # Unmerged
    BY PlainFields DEF PlainPaths
  <2>3. \A p : Torn(p).path = p
    BY TornFields
  <2>4. \A r, s \in R : r[2] = s[2] => r = s
    BY PairedPaths
  <2> HIDE DEF R
  <2> QED BY <1>5, <2>1, <2>2, <2>3, <2>4
<1>11. Cardinality(E) = Cardinality(Q)
  BY <1>4, <1>8, <1>9, <1>10, SameCount
<1>12. Tally(t).staged = Cardinality(moved) - Cardinality(R)
  BY DEF Tally
<1> QED BY <1>4, <1>11, <1>12 DEF E

\* The unstaged ones: every path that differs from the index, or is in conflict.
LEMMA UnstagedCount ==
  ASSUME GitOutputAssumption, NEW t \in TreeStates
  PROVE  Cardinality({e \in Parse(Status(t)) : e.unstaged /\ e.kind # "untracked"}) = Tally(t).unstaged
<1> DEFINE E == {e \in Parse(Status(t)) : e.unstaged /\ e.kind # "untracked"}
           R == Renames(t, Paths)
           Q == {p \in Paths : Tracked(t, p) /\ t[p].index # t[p].work}
                  \cup {p \in Paths : t[p].index = Unmerged}
<1>1. \A p : p \in Q <=> p \in Paths /\ t[p].index # Missing /\ (t[p].index # t[p].work \/ t[p].index = Unmerged)
  BY DEF Tracked, Missing, Unmerged
<1>2. IsFiniteSet(Q)
  <2>1. Q \in SUBSET Paths
    OBVIOUS
  <2> HIDE DEF Q
  <2> QED BY <2>1, FS_Subset DEF GitOutputAssumption
<1>3. \A e \in E :
        \/ \E r \in R : WorkCode(t[r[2]]) # "." /\ e = Renamed(t, r)
        \/ \E p \in PlainPaths(t) : WorkCode(t[p]) # "." /\ e = Plain(t, p)
        \/ \E p \in Paths : t[p].index = Unmerged /\ e = Torn(p)
  BY FormsOf
<1>4. /\ \A r \in R : WorkCode(t[r[2]]) # "." => Renamed(t, r) \in E
      /\ \A p \in PlainPaths(t) : WorkCode(t[p]) # "." => Plain(t, p) \in E
      /\ \A p \in Paths : t[p].index = Unmerged => Torn(p) \in E
  <2>1. \A r \in R : WorkCode(t[r[2]]) # "." => Renamed(t, r) \in E
    BY ParsedStatus, RenamedFields
  <2>2. \A p \in PlainPaths(t) : WorkCode(t[p]) # "." => Plain(t, p) \in E
    BY ParsedStatus, PlainFields
  <2>3. \A p \in Paths : t[p].index = Unmerged => Torn(p) \in E
    BY ParsedStatus, TornFields
  <2> HIDE DEF E, R
  <2> QED BY <2>1, <2>2, <2>3
<1>12. Tally(t).unstaged = Cardinality(Q)
  BY DEF Tally
<1> HIDE DEF E, Q
<1>5. \A p \in Paths : t[p].index # Unmerged /\ WorkCode(t[p]) # "." => t[p].index # Missing /\ t[p].index # t[p].work
  BY KindNames
<1>6. \A p \in Paths : t[p].index \notin {Missing, Unmerged} /\ t[p].index # t[p].work => WorkCode(t[p]) # "."
  BY KindNames
<1>7. /\ \A r \in R : Renamed(t, r).path = r[2] /\ r[2] \in Paths /\ r[2] \in Paired(t) /\ t[r[2]].index # Unmerged
      /\ \A r \in R : t[r[1]].index = Missing
      /\ \A p \in PlainPaths(t) : Plain(t, p).path = p /\ p \in Paths /\ p \notin Paired(t) /\ t[p].index # Unmerged
      /\ \A p : Torn(p).path = p
      /\ Missing # Unmerged
  <2>1. \A r \in R : Renamed(t, r).path = r[2] /\ r[2] \in Paths /\ r[2] \in Paired(t) /\ t[r[2]].index # Unmerged
    <3> TAKE r \in R
    <3> QED BY RenamedFields, PairedPaths
  <2>2. \A r \in R : t[r[1]].index = Missing
    BY PairedPaths
  <2>3. \A p \in PlainPaths(t) : Plain(t, p).path = p /\ p \in Paths /\ p \notin Paired(t) /\ t[p].index # Unmerged
    BY PlainFields DEF PlainPaths
  <2>4. (\A p : Torn(p).path = p) /\ Missing # Unmerged
    BY TornFields DEF Missing, Unmerged
  <2> HIDE DEF R
  <2> QED BY <2>1, <2>2, <2>3, <2>4
<1>8. \A e \in E : e.path \in Q
  <2> HIDE DEF R
  <2> QED BY <1>1, <1>3, <1>5, <1>7
<1>9. \A p \in Q : \E e \in E : e.path = p
  <2> TAKE p \in Q
  <2>1. p \in Paths /\ t[p].index # Missing /\ (t[p].index # t[p].work \/ t[p].index = Unmerged)
    BY <1>1
  <2>2. CASE t[p].index = Unmerged
    BY <1>4, <1>7, <2>1, <2>2
  <2>3. CASE p \in Paired(t) /\ t[p].index # Unmerged
    <3>1. PICK r \in R : p = r[1] \/ p = r[2]
      BY <2>3, PairedPaths
    <3>2. p = r[2]
      BY <1>7, <2>1, <3>1
    <3>3. WorkCode(t[p]) # "."
      BY <1>6, <2>1, <2>3
    <3> QED BY <1>4, <1>7, <3>1, <3>2, <3>3
  <2>4. CASE p \notin Paired(t) /\ t[p].index # Unmerged
    <3>1. WorkCode(t[p]) # "."
      BY <1>6, <2>1, <2>4
    <3>2. p \in PlainPaths(t)
      BY <2>1, <2>4, <3>1 DEF PlainPaths
    <3> QED BY <1>4, <1>7, <3>1, <3>2
  <2> QED BY <2>2, <2>3, <2>4
<1>10. \A e, f \in E : e.path = f.path => e = f
  <2>1. \A r, s \in R : r[2] = s[2] => r = s
    BY PairedPaths
  <2> HIDE DEF R
  <2> QED BY <1>3, <1>7, <2>1
<1>11. Cardinality(E) = Cardinality(Q)
  BY <1>2, <1>8, <1>9, <1>10, SameCount
<1> QED BY <1>11, <1>12 DEF E

\* The untracked and the conflicted paths.
LEMMA OtherCounts ==
  ASSUME GitOutputAssumption, NEW t \in TreeStates
  PROVE  /\ Cardinality({e \in Parse(Status(t)) : e.kind = "untracked"}) = Tally(t).untracked
         /\ Cardinality({e \in Parse(Status(t)) : e.conflicted}) = Tally(t).conflicted
<1> DEFINE E == {e \in Parse(Status(t)) : e.kind = "untracked"}
           F == {e \in Parse(Status(t)) : e.conflicted}
           P == {p \in Paths : Untracked(t, p)}
           Q == {p \in Paths : t[p].index = Unmerged}
<1>1. /\ \A e \in E : \E p \in P : e = Stray(p)
      /\ \A p \in P : Stray(p) \in E
  <2>1. \A e \in E : \E p \in P : e = Stray(p)
    BY FormsOf
  <2>2. \A p \in P : Stray(p) \in E
    BY ParsedStatus, StrayFields
  <2> HIDE DEF E, P
  <2> QED BY <2>1, <2>2
<1>2. /\ \A e \in F : \E p \in Q : e = Torn(p)
      /\ \A p \in Q : Torn(p) \in F
  <2>1. \A e \in F : \E p \in Q : e = Torn(p)
    BY FormsOf
  <2>2. \A p \in Q : Torn(p) \in F
    BY ParsedStatus, TornFields
  <2> HIDE DEF F, Q
  <2> QED BY <2>1, <2>2
<1>3. IsFiniteSet(P) /\ IsFiniteSet(Q)
  <2>1. P \in SUBSET Paths /\ Q \in SUBSET Paths
    OBVIOUS
  <2> HIDE DEF P, Q
  <2> QED BY <2>1, FS_Subset DEF GitOutputAssumption
<1>4. Tally(t).untracked = Cardinality(P) /\ Tally(t).conflicted = Cardinality(Q)
  BY DEF Tally
<1> HIDE DEF E, F, P, Q
<1>5. Cardinality(E) = Cardinality(P)
  <2>1. \A x \in E : x.path \in P
    BY <1>1, StrayFields
  <2>2. \A p \in P : \E x \in E : x.path = p
    BY <1>1, StrayFields
  <2>3. \A x, y \in E : x.path = y.path => x = y
    BY <1>1, StrayFields
  <2> QED BY <1>3, <2>1, <2>2, <2>3, SameCount
<1>6. Cardinality(F) = Cardinality(Q)
  <2>1. \A x \in F : x.path \in Q
    BY <1>2, TornFields
  <2>2. \A p \in Q : \E x \in F : x.path = p
    BY <1>2, TornFields
  <2>3. \A x, y \in F : x.path = y.path => x = y
    BY <1>2, TornFields
  <2> QED BY <1>3, <2>1, <2>2, <2>3, SameCount
<1> QED BY <1>4, <1>5, <1>6 DEF E, F

Counters == [staged: Int, unstaged: Int, untracked: Int, conflicted: Int]

\* For all paths and trees: what the parser counts in the status of git is what
\* the tree itself has, renamings, conflicts and all (parse_status_v2).
THEOREM CountIsTally ==
  ASSUME GitOutputAssumption, NEW t \in TreeStates
  PROVE  Count(Parse(Status(t))) = Tally(t) /\ Tally(t) \in Counters
<1> DEFINE changes == Parse(Status(t))
           moved == {p \in Paths : t[p].head # t[p].index}
           edited == {p \in Paths : Tracked(t, p) /\ t[p].index # t[p].work}
           conflict == {p \in Paths : t[p].index = Unmerged}
           strays == {p \in Paths : Untracked(t, p)}
<1>1. Count(changes) =
        [staged     |-> Cardinality({e \in changes : e.staged}),
         unstaged   |-> Cardinality({e \in changes : e.unstaged /\ e.kind # "untracked"}),
         untracked  |-> Cardinality({e \in changes : e.kind = "untracked"}),
         conflicted |-> Cardinality({e \in changes : e.conflicted})]
  BY DEF Count
<1>2. Tally(t) = [staged |-> Cardinality(moved) - Cardinality(Renames(t, Paths)),
                  unstaged |-> Cardinality(edited \cup conflict),
                  untracked |-> Cardinality(strays), conflicted |-> Cardinality(conflict)]
  BY DEF Tally
<1>3. Tally(t) = [staged |-> Tally(t).staged, unstaged |-> Tally(t).unstaged,
                  untracked |-> Tally(t).untracked, conflicted |-> Tally(t).conflicted]
  <2> HIDE DEF moved, edited, conflict, strays
  <2> QED BY <1>2
<1>4. Count(changes) = Tally(t)
  <2> HIDE DEF changes
  <2> QED BY <1>1, <1>3, StagedCount, UnstagedCount, OtherCounts DEF changes
<1>5. /\ moved \in SUBSET Paths /\ edited \cup conflict \in SUBSET Paths
      /\ strays \in SUBSET Paths /\ conflict \in SUBSET Paths
  OBVIOUS
<1>6. Tally(t) \in Counters
  <2> HIDE DEF moved, edited, conflict, strays
  <2>1. \A S \in SUBSET Paths : Cardinality(S) \in Nat
    BY FS_Subset, FS_CardinalityType DEF GitOutputAssumption
  <2>2. Cardinality(Renames(t, Paths)) \in Nat
    BY PairedPaths, FS_CardinalityType
  <2> QED BY <1>2, <1>5, <2>1, <2>2 DEF Counters
<1> QED BY <1>4, <1>6

-----------------------------------------------------------------------------
\* The invariant of Repositories.

Known    == UNION {disk[root].found \cup disk[root].wanted : root \in Roots}
Reported == Known \cup UNION {disk[root].failures : root \in Roots}
Holding  == {"gate", "status", "publish", "record", "refreshed", "git"}
Places   == {"idle", "lock", "summary", "diffgate", "diff", "listed"} \cup Holding
Snapshots == [time: Nat, counts: Counters, error: BOOLEAN]
ThreadStates ==
  [at: Places, op: Ops \cup {"none"}, dir: Known \cup {Gone}, want: SUBSET Paths, staged: BOOLEAN,
   all: BOOLEAN, read: TreeStates, wrote: BOOLEAN, ok: BOOLEAN, same: BOOLEAN, listed: SUBSET DiffFiles]
ScanStates ==
  [at: {"idle", "walked", "refresh", "done", "poisoned"}, root: Roots \cup {Gone},
   ready: SUBSET Known, queue: SUBSET Known, records: SUBSET [dir: Known, ok: BOOLEAN],
   failures: SUBSET Reported, dead: SUBSET Workers]

RepositoryTypes ==
  /\ DOMAIN disk = Roots
  /\ project \in Roots \cup {Gone} /\ relations \subseteq Known /\ trusted \subseteq Known
  /\ tree \in [Known -> TreeStates]
  /\ rows \in [Known -> Seq(Snapshots)]
  /\ lock \in [Known -> Threads \cup {Free, Poisoned}]
  /\ reading \subseteq Threads
  /\ thread \in [Threads -> ThreadStates]
  /\ scan \in ScanStates
  /\ calls \in Nat /\ scans \in Nat /\ edits \in Nat
  /\ touched \subseteq Known

\* What the state of a thread is like, and what it says of the lock.
ThreadOK(t, x) ==
  /\ x.at # "idle" => x.dir \in Known
  /\ x.at = "git" => x.op \in Writes
  /\ t \in Workers => x.op = "none" /\ x.at \in {"idle", "lock"} \cup Holding

LockInv ==
  /\ \A t \in Threads : ThreadOK(t, thread[t])
  /\ \A t \in Threads : thread[t].at \in Holding => lock[thread[t].dir] = t
  /\ HoldersAreAtWork

Busy     == {w \in Workers : thread[w].at # "idle"}
Recorded == {x.dir : x \in scan.records}

Progress ==
  /\ disk[project].failures \subseteq scan.failures
  /\ disk[project].found \subseteq scan.ready \cup scan.failures
  /\ scan.ready \subseteq disk[project].found
  /\ scan.queue \subseteq scan.ready /\ Recorded \subseteq scan.ready
  /\ \A r \in scan.queue : r \notin Recorded
  /\ \A x, y \in scan.records : x.dir = y.dir => x = y
  /\ \A x \in scan.records : x.ok \/ x.dir \in scan.failures
  /\ \A w \in Busy : thread[w].dir \in scan.ready /\ thread[w].dir \notin scan.queue /\ thread[w].dir \notin Recorded
  /\ \A v, w \in Busy : thread[v].dir = thread[w].dir => v = w
  /\ scan.dead = {} => \A r \in scan.ready : r \in scan.queue \/ r \in Recorded \/ \E w \in Busy : thread[w].dir = r

ScanInv ==
  /\ relations \subseteq IF project = Gone THEN {} ELSE disk[project].found
  /\ scan.at # "idle" => project # Gone /\ scan.root = project
  /\ scan.at = "walked" => disk[project].failures \subseteq scan.failures /\ scan.records = {} /\ scan.dead = {}
  /\ scan.at # "refresh" => Busy = {}
  /\ scan.at = "done" => scan.dead = {} /\ scan.queue = {}
  /\ \A w \in scan.dead : thread[w].at = "idle"
  /\ scan.at \in {"refresh", "done"} => Progress

\* The rows that are kept of a repository are in the order of their times.
Ordered(s) == \A i, j \in 1..Len(s) : i <= j => s[i].time <= s[j].time

StoredInv ==
  /\ \A r \in Known : Ordered(rows[r])
  /\ \A t \in Threads :
       thread[t].at = "publish" /\ thread[t].dir \notin touched => thread[t].read = tree[thread[t].dir]
  /\ \A t \in Threads :
       thread[t].at = "refreshed" /\ thread[t].dir \notin touched =>
         rows[thread[t].dir] # <<>> /\ Last(rows[thread[t].dir]).counts = Tally(tree[thread[t].dir])
  /\ \A r \in Known :
       lock[r] = Free /\ r \notin touched /\ rows[r] # <<>> =>
         Last(rows[r]).error \/ Last(rows[r]).counts = Tally(tree[r])

DiffInv ==
  \A t \in Threads :
    thread[t].at = "listed" =>
      /\ {e.path : e \in Chosen(t)} \subseteq Names(thread[t].listed)
      /\ thread[t].same => Names(thread[t].listed) \ {Phantom} \subseteq Allowed(Chosen(t))

RepositoryInv == RepositoryTypes /\ LockInv /\ ScanInv /\ StoredInv /\ DiffInv

\* What a thread at rest has read is the tree of some repository.
LEMMA SomeTree ==
  ASSUME RepositoriesAssumption
  PROVE  (CHOOSE t \in Trees : TRUE) \in TreeStates
<1> QED BY DEF RepositoriesAssumption

\* A thread at rest is one of the states of a thread.
LEMMA IdleType ==
  ASSUME RepositoriesAssumption
  PROVE  Idle \in ThreadStates /\ Idle.at = "idle" /\ Idle.op = "none"
<1> QED BY SomeTree DEF Idle, Call, ThreadStates, Places

\* A thread goes on alone.
Alone(t) ==
  /\ thread' \in [Threads -> ThreadStates]
  /\ \A u \in Threads : u # t => thread'[u] = thread[u]

Same(x, y) ==
  /\ x.op = y.op /\ x.dir = y.dir /\ x.want = y.want /\ x.staged = y.staged /\ x.all = y.all
  /\ x.read = y.read

\* A thread that gets a new state is the only one to change.
LEMMA PutThread ==
  ASSUME RepositoryTypes, NEW t \in Threads, NEW x \in ThreadStates,
         thread' = [thread EXCEPT ![t] = x]
  PROVE  Alone(t) /\ thread'[t] = x
<1> QED BY DEF RepositoryTypes, Alone

\* It may go on with nothing but its place changed,
LEMMA PutFields ==
  ASSUME NEW y \in ThreadStates, NEW at \in Places
  PROVE  LET x == [y EXCEPT !.at = at]
         IN x \in ThreadStates /\ x.at = at /\ Same(x, y) /\ x.listed = y.listed /\ x.same = y.same
<1> QED BY DEF ThreadStates, Same

\* as Continue has it,
LEMMA ContinueEffect ==
  ASSUME RepositoryTypes, NEW t \in Threads, NEW at \in Places, Continue(t, at)
  PROVE  /\ Alone(t) /\ thread'[t].at = at /\ Same(thread'[t], thread[t])
<1>1. thread' = [thread EXCEPT ![t] = [thread[t] EXCEPT !.at = at]]
  BY DEF Continue
<1>2. thread[t] \in ThreadStates
  BY DEF RepositoryTypes
<1>3. PICK x : x = [thread[t] EXCEPT !.at = at]
  OBVIOUS
<1>4. x \in ThreadStates /\ x.at = at /\ Same(x, thread[t])
  BY <1>2, <1>3, PutFields
<1>5. Alone(t) /\ thread'[t] = x
  BY <1>1, <1>3, <1>4, PutThread
<1> QED BY <1>4, <1>5

\* or be over.
LEMMA DoneEffect ==
  ASSUME RepositoriesAssumption, RepositoryTypes, NEW t \in Threads, Done(t)
  PROVE  Alone(t) /\ thread'[t] = Idle /\ thread'[t].at = "idle"
<1>1. Alone(t) /\ thread'[t] = Idle
  BY IdleType, PutThread DEF Done
<1> QED BY <1>1, IdleType

-----------------------------------------------------------------------------
\* What a step of a thread does to locks, gate and scan (Effect), and that this
\* is all they need of it.

\* What a step of a thread does to its repository's lock, to the gate and to
\* the scan.
LockKept(t) ==
  /\ lock' = lock
  /\ thread'[t].at \in Holding <=> thread[t].at \in Holding
  /\ thread'[t].at \in Holding => thread'[t].dir = thread[t].dir

LockTaken(t) ==
  /\ thread[t].at = "lock" /\ thread'[t].at = "gate" /\ thread'[t].dir = thread[t].dir
  /\ lock[thread[t].dir] = Free /\ lock' = [lock EXCEPT ![thread[t].dir] = t]

LockFreed(t) ==
  /\ thread[t].at \in Holding /\ thread'[t].at \notin Holding
  /\ lock' = [lock EXCEPT ![thread[t].dir] = Free]

LockPoisoned(t) ==
  /\ thread'[t].at = "idle"
  /\ lock' = [r \in DOMAIN lock |-> IF lock[r] = t THEN Poisoned ELSE lock[r]]

KeepsGate(t) ==
  /\ reading' \subseteq Threads
  /\ \A u \in reading' : u # t => u \in reading
  /\ t \in reading' => thread'[t].at \in {"status", "diff"}

ScanSame(t) ==
  /\ scan' = scan
  /\ t \in Workers => /\ thread[t].at # "idle" /\ thread'[t].at # "idle"
                      /\ thread'[t].dir = thread[t].dir

ScanTold(t, ok) ==
  /\ t \in Workers /\ thread[t].at # "idle" /\ thread'[t].at = "idle"
  /\ scan' = [scan EXCEPT !.records = @ \cup {[dir |-> thread[t].dir, ok |-> ok]},
                          !.failures = IF ok THEN @ ELSE @ \cup {thread[t].dir}]

ScanDied(t) ==
  /\ t \in Workers /\ thread[t].at # "idle" /\ thread'[t].at = "idle"
  /\ scan' = [scan EXCEPT !.dead = @ \cup {t}]

Effect(t) ==
  /\ Alone(t) /\ ThreadOK(t, thread'[t])
  /\ LockKept(t) \/ LockTaken(t) \/ LockFreed(t) \/ LockPoisoned(t)
  /\ KeepsGate(t)
  /\ ScanSame(t) \/ ScanDied(t) \/ (\E ok \in BOOLEAN : ScanTold(t, ok))
  /\ disk' = disk /\ project' = project /\ relations' = relations

\* A thread whose git does not run has no permit, and a gate that stays as it is is kept.
LEMMA GateKept ==
  ASSUME RepositoryTypes, LockInv, NEW t \in Threads, thread[t].at \notin {"status", "diff"}
  PROVE  /\ t \notin reading
         /\ reading' = reading => KeepsGate(t)
<1>1. t \notin reading
  BY DEF LockInv, HoldersAreAtWork
<1> QED BY <1>1 DEF KeepsGate, RepositoryTypes

\* What the invariant says of one thread.
LEMMA ThreadFacts ==
  ASSUME RepositoryTypes, LockInv, NEW t \in Threads
  PROVE  /\ thread[t] \in ThreadStates /\ ThreadOK(t, thread[t])
         /\ thread[t].at \in Holding => lock[thread[t].dir] = t
<1> QED BY DEF RepositoryTypes, LockInv

\* A call is no worker.
LEMMA CallsAreNoWorkers ==
  ASSUME RepositoriesAssumption, NEW t \in Calls
  PROVE  t \in Threads /\ t \notin Workers
<1> QED BY DEF RepositoriesAssumption, Threads

\* A panic poisons what the thread holds, and a worker is dead.
LEMMA PanicEffect ==
  ASSUME RepositoriesAssumption, RepositoryTypes, LockInv, NEW t \in Threads,
         thread[t].at # "idle", Panic(t), disk' = disk, project' = project, relations' = relations
  PROVE  Effect(t) /\ LockPoisoned(t)
<1>1. Alone(t) /\ thread'[t] = Idle /\ thread'[t].at = "idle"
  BY DoneEffect DEF Panic
<1>2. ThreadOK(t, thread'[t])
  BY <1>1, IdleType DEF ThreadOK
<1>3. LockPoisoned(t)
  BY <1>1 DEF Panic, LockPoisoned
<1>4. KeepsGate(t)
  BY DEF Panic, KeepsGate, RepositoryTypes
<1>5. ScanSame(t) \/ ScanDied(t)
  <2>1. CASE t \in Workers
    BY <1>1, <2>1 DEF Panic, ScanDied
  <2>2. CASE t \notin Workers
    BY <2>2 DEF Panic, ScanSame
  <2> QED BY <2>1, <2>2
<1> QED BY <1>1, <1>2, <1>3, <1>4, <1>5 DEF Effect

\* The end of a call or a record: the lock is free.
LEMMA EndEffect ==
  ASSUME RepositoriesAssumption, RepositoryTypes, LockInv, NEW t \in Threads, NEW ok \in BOOLEAN,
         thread[t].at \in Holding, thread[t].at # "status", End(t, ok), reading' = reading,
         disk' = disk, project' = project, relations' = relations
  PROVE  Effect(t) /\ LockFreed(t) /\ thread'[t].at = "idle"
<1>1. Alone(t) /\ thread'[t] = Idle /\ thread'[t].at = "idle"
  BY DoneEffect DEF End
<1>2. ThreadOK(t, thread'[t])
  BY <1>1, IdleType DEF ThreadOK
<1>3. LockFreed(t)
  BY <1>1 DEF End, Unlock, LockFreed, Holding
<1>4. KeepsGate(t)
  BY GateKept DEF Holding
<1>5. thread[t].at # "idle"
  BY DEF Holding
<1>6. ScanSame(t) \/ ScanTold(t, ok)
  <2>1. CASE t \in Workers
    BY <1>1, <1>5, <2>1 DEF End, Report, ScanTold
  <2>2. CASE t \notin Workers
    BY <2>2 DEF End, Report, ScanSame
  <2> QED BY <2>1, <2>2
<1> QED BY <1>1, <1>2, <1>3, <1>4, <1>6 DEF Effect

\* A thread that goes on in the same repository.
LEMMA GoesOn ==
  ASSUME RepositoryTypes, LockInv, NEW t \in Threads, NEW at \in Places, Alone(t),
         thread'[t].at = at, thread'[t].op = thread[t].op, thread'[t].dir = thread[t].dir,
         thread[t].at # "idle", at # "idle", at = "git" => thread[t].op \in Writes,
         t \in Workers => at \in {"idle", "lock"} \cup Holding,
         scan' = scan, disk' = disk, project' = project, relations' = relations,
         KeepsGate(t)
  PROVE  /\ ThreadOK(t, thread'[t]) /\ ScanSame(t)
         /\ lock' = lock /\ (at \in Holding <=> thread[t].at \in Holding) => LockKept(t) /\ Effect(t)
         /\ LockTaken(t) \/ LockFreed(t) => Effect(t)
<1>1. ThreadOK(t, thread'[t])
  BY ThreadFacts DEF ThreadOK
<1>2. ScanSame(t)
  BY DEF ScanSame
<1>3. lock' = lock /\ (at \in Holding <=> thread[t].at \in Holding) => LockKept(t)
  BY DEF LockKept
<1> QED BY <1>1, <1>2, <1>3 DEF Effect

\* Whose lock a repository's is, and what its holder is at.
KeyOK(r) ==
  lock[r] \in Threads => thread[lock[r]].dir = r /\ thread[lock[r]].at \in Holding

\* LockInv, repository by repository.
LEMMA LockInvParts ==
  /\ LockInv <=> /\ \A t \in Threads : ThreadOK(t, thread[t])
                 /\ \A t \in Threads : thread[t].at \in Holding => lock[thread[t].dir] = t
                 /\ \A t \in reading : thread[t].at \in {"status", "diff"}
                 /\ \A r \in DOMAIN lock : KeyOK(r)
<1> QED BY DEF LockInv, HoldersAreAtWork, KeyOK, Holding

\* Every step of a thread leaves the locks with who is at work.
LEMMA EffectKeepsLocks ==
  ASSUME RepositoriesAssumption, RepositoryTypes, LockInv, NEW t \in Threads, Effect(t)
  PROVE  LockInv' /\ lock' \in [Known -> Threads \cup {Free, Poisoned}]
<1>1. /\ thread \in [Threads -> ThreadStates] /\ thread' \in [Threads -> ThreadStates]
      /\ \A u \in Threads : u # t => thread'[u] = thread[u]
      /\ ThreadOK(t, thread'[t])
  BY DEF RepositoryTypes, Effect, Alone
<1>2. Known' = Known
  BY DEF Effect, Known
<1>3. lock \in [Known -> Threads \cup {Free, Poisoned}] /\ Free \notin Threads /\ Poisoned \notin Threads
  BY DEF RepositoryTypes, RepositoriesAssumption
<1>4. /\ \A u \in Threads : ThreadOK(u, thread[u])
      /\ \A u \in Threads : thread[u].at \in Holding => lock[thread[u].dir] = u
      /\ \A u \in reading : thread[u].at \in {"status", "diff"}
      /\ \A r \in Known : KeyOK(r)
  BY <1>3, LockInvParts
<1>5. (\A u \in Threads : ThreadOK(u, thread[u]))'
  <2>1. \A u \in Threads : ThreadOK(u, thread'[u])
    BY <1>1, <1>4
  <2> QED BY <1>2, <2>1 DEF ThreadOK
<1>6. (\A u \in reading : thread[u].at \in {"status", "diff"})'
  <2>1. reading \subseteq Threads
    BY DEF RepositoryTypes
  <2> QED BY <1>1, <1>4, <2>1 DEF Effect, KeepsGate
<1>7. \A u \in Threads : thread[u].at \in Holding => thread[u].dir \in Known
  BY <1>4 DEF ThreadOK, Holding
<1>8. /\ lock' \in [Known -> Threads \cup {Free, Poisoned}]
      /\ (\A u \in Threads : thread[u].at \in Holding => lock[thread[u].dir] = u)'
      /\ (\A r \in Known : KeyOK(r))'
  <2>1. CASE LockKept(t)
    <3>1. lock' = lock /\ (thread'[t].at \in Holding <=> thread[t].at \in Holding)
          /\ (thread'[t].at \in Holding => thread'[t].dir = thread[t].dir)
      BY <2>1 DEF LockKept
    <3> QED BY <1>1, <1>2, <1>3, <1>4, <3>1 DEF KeyOK
  <2> DEFINE d == thread[t].dir
  <2>2. CASE LockTaken(t)
    <3>1. /\ thread[t].at = "lock" /\ thread'[t].at = "gate" /\ thread'[t].dir = d
          /\ lock[d] = Free /\ lock' = [lock EXCEPT ![d] = t]
      BY <2>2 DEF LockTaken
    <3>2. d \in Known
      BY <1>4, <3>1 DEF ThreadOK
    <3>3. /\ lock' \in [Known -> Threads \cup {Free, Poisoned}] /\ lock'[d] = t
          /\ \A r \in Known : r # d => lock'[r] = lock[r]
      BY <1>3, <3>1, <3>2
    <3>4. "lock" \notin Holding /\ "gate" \in Holding
      BY DEF Holding
    <3> HIDE DEF d
    <3>5. \A u \in Threads : thread'[u].at \in Holding => lock'[thread'[u].dir] = u
      BY <1>1, <1>3, <1>4, <1>7, <3>1, <3>3
    <3>6. \A r \in Known : lock'[r] \in Threads => thread'[lock'[r]].dir = r /\ thread'[lock'[r]].at \in Holding
      BY <1>1, <1>4, <3>1, <3>3, <3>4 DEF KeyOK
    <3> QED BY <1>2, <3>3, <3>5, <3>6 DEF KeyOK
  <2>3. CASE LockFreed(t)
    <3>1. thread[t].at \in Holding /\ thread'[t].at \notin Holding /\ lock' = [lock EXCEPT ![d] = Free]
      BY <2>3 DEF LockFreed
    <3>2. d \in Known /\ lock[d] = t
      BY <1>4, <1>7, <3>1
    <3>3. /\ lock' \in [Known -> Threads \cup {Free, Poisoned}] /\ lock'[d] = Free
          /\ \A r \in Known : r # d => lock'[r] = lock[r]
      BY <1>3, <3>1, <3>2
    <3> HIDE DEF d
    <3>5. \A u \in Threads : thread'[u].at \in Holding => lock'[thread'[u].dir] = u
      BY <1>1, <1>4, <1>7, <3>1, <3>2, <3>3
    <3>6. \A r \in Known : lock'[r] \in Threads => thread'[lock'[r]].dir = r /\ thread'[lock'[r]].at \in Holding
      <4> TAKE r \in Known
      <4> HAVE lock'[r] \in Threads
      <4>1. r # d /\ lock'[r] = lock[r]
        BY <1>3, <3>3
      <4>2. thread[lock[r]].dir = r
        BY <1>4, <4>1 DEF KeyOK
      <4>3. lock[r] # t
        BY <4>1, <4>2 DEF d
      <4> QED BY <1>1, <1>4, <4>1, <4>3 DEF KeyOK
    <3> QED BY <1>2, <3>3, <3>5, <3>6 DEF KeyOK
  <2>4. CASE LockPoisoned(t)
    <3>1. /\ thread'[t].at = "idle" /\ "idle" \notin Holding
          /\ lock' = [r \in DOMAIN lock |-> IF lock[r] = t THEN Poisoned ELSE lock[r]]
      BY <2>4 DEF LockPoisoned, Holding
    <3>2. \A r \in Known : lock'[r] = IF lock[r] = t THEN Poisoned ELSE lock[r]
      BY <1>3, <3>1
    <3>3. lock' \in [Known -> Threads \cup {Free, Poisoned}]
      BY <1>3, <3>1
    <3>5. \A u \in Threads : thread'[u].at \in Holding => lock'[thread'[u].dir] = u
      BY <1>1, <1>4, <1>7, <3>1, <3>2
    <3>6. \A r \in Known : lock'[r] \in Threads => thread'[lock'[r]].dir = r /\ thread'[lock'[r]].at \in Holding
      BY <1>1, <1>3, <1>4, <3>2 DEF KeyOK
    <3> QED BY <1>2, <3>3, <3>5, <3>6 DEF KeyOK
  <2> QED BY <2>1, <2>2, <2>3, <2>4 DEF Effect
<1>9. (DOMAIN lock = Known)'
  BY <1>2, <1>8
<1>10. LockInv'
  <2>1. (\A r \in DOMAIN lock : KeyOK(r))'
    BY <1>8, <1>9
  <2>2. (\A u \in Threads : thread[u].at \in Holding => lock[thread[u].dir] = u)'
    BY <1>8
  <2> QED BY <1>5, <1>6, <2>1, <2>2 DEF LockInv, HoldersAreAtWork, KeyOK, Holding
<1> QED BY <1>8, <1>10

Told(s, d, ok) ==
  [s EXCEPT !.records = @ \cup {[dir |-> d, ok |-> ok]}, !.failures = IF ok THEN @ ELSE @ \cup {d}]

\* What a worker tells the scan, field by field.
LEMMA ToldFields ==
  ASSUME NEW s \in ScanStates, NEW d \in Known, NEW ok \in BOOLEAN, NEW after, after = Told(s, d, ok)
  PROVE  /\ after \in ScanStates /\ after.records = s.records \cup {[dir |-> d, ok |-> ok]}
         /\ s.failures \subseteq after.failures /\ (~ok => d \in after.failures)
         /\ after.at = s.at /\ after.root = s.root /\ after.ready = s.ready /\ after.queue = s.queue
         /\ after.dead = s.dead
<1>1. Known \subseteq Reported
  BY DEF Reported
<1>2. PICK records : records = s.records \cup {[dir |-> d, ok |-> ok]}
  OBVIOUS
<1>3. PICK failures : failures = IF ok THEN s.failures ELSE s.failures \cup {d}
  OBVIOUS
<1>4. records \in SUBSET [dir: Known, ok: BOOLEAN] /\ failures \in SUBSET Reported
  BY <1>1, <1>2, <1>3 DEF ScanStates
<1>5. after = [s EXCEPT !.records = records, !.failures = failures]
  BY <1>2, <1>3 DEF Told
<1>6. /\ after \in ScanStates /\ after.records = records /\ after.failures = failures
      /\ after.at = s.at /\ after.root = s.root /\ after.ready = s.ready /\ after.queue = s.queue
      /\ after.dead = s.dead
  BY <1>4, <1>5 DEF ScanStates
<1> QED BY <1>2, <1>3, <1>6

\* So for a worker that is dead.
LEMMA DeadFields ==
  ASSUME NEW s \in ScanStates, NEW t \in Workers, NEW after, after = [s EXCEPT !.dead = @ \cup {t}]
  PROVE  /\ after \in ScanStates /\ after.dead = s.dead \cup {t}
         /\ after.at = s.at /\ after.root = s.root /\ after.ready = s.ready /\ after.queue = s.queue
         /\ after.records = s.records /\ after.failures = s.failures
<1> QED BY DEF ScanStates

\* Every step of a thread leaves the scan with the repositories it has to account for.
LEMMA EffectKeepsScan ==
  ASSUME RepositoriesAssumption, RepositoryTypes, LockInv, ScanInv, NEW t \in Threads, Effect(t)
  PROVE  ScanInv' /\ scan' \in ScanStates
<1>1. /\ \A u \in Threads : u # t => thread'[u] = thread[u]
      /\ disk' = disk /\ project' = project /\ relations' = relations
      /\ Workers \subseteq Threads
  BY DEF Effect, Alone, Threads
<1>2. scan \in ScanStates /\ scan.dead \subseteq Workers
  BY DEF RepositoryTypes, ScanStates
<1>3. CASE ScanSame(t)
  <2>1. scan' = scan /\ (t \in Workers =>
         thread[t].at # "idle" /\ thread'[t].at # "idle" /\ thread'[t].dir = thread[t].dir)
    BY <1>3 DEF ScanSame
  <2>2. \A w \in Workers :
          (thread'[w].at = "idle" <=> thread[w].at = "idle") /\ (thread[w].at # "idle" => thread'[w].dir = thread[w].dir)
    BY <1>1, <2>1
  <2>3. Busy' = Busy /\ \A w \in Busy : thread'[w].dir = thread[w].dir
    BY <2>2 DEF Busy
  <2>4. Recorded' = Recorded
    BY <2>1 DEF Recorded
  <2>5. Progress => Progress'
    BY <1>1, <2>1, <2>3, <2>4 DEF Progress
  <2>6. \A w \in scan.dead : thread[w].at = "idle"
    BY DEF ScanInv
  <2>7. \A w \in scan.dead : thread'[w].at = "idle"
    BY <1>2, <2>2, <2>6
  <2> QED BY <1>1, <1>2, <2>1, <2>3, <2>5, <2>7 DEF ScanInv
<1>4. ASSUME t \in Workers, thread[t].at # "idle", thread'[t].at = "idle"
      PROVE  /\ t \in Busy /\ scan.at = "refresh" /\ Progress /\ thread[t].dir \in Known
             /\ \A w : w \in Busy' <=> w \in Busy /\ w # t
             /\ \A w \in Busy' : thread'[w] = thread[w]
             /\ \A w \in scan.dead : thread'[w].at = "idle"
  <2>1. t \in Busy
    BY <1>4 DEF Busy
  <2>2. scan.at = "refresh" /\ Progress
    BY <2>1 DEF ScanInv
  <2>3. thread[t].dir \in Known
    BY <1>4, ThreadFacts DEF ThreadOK
  <2>4. \A w : w \in Busy' <=> w \in Busy /\ w # t
    BY <1>1, <1>4 DEF Busy
  <2>5. \A w \in Busy' : thread'[w] = thread[w]
    BY <1>1, <2>4 DEF Busy
  <2>6. \A w \in scan.dead : thread[w].at = "idle"
    BY DEF ScanInv
  <2>7. \A w \in scan.dead : thread'[w].at = "idle"
    BY <1>1, <1>2, <1>4, <2>6
  <2> QED BY <2>1, <2>2, <2>3, <2>4, <2>5, <2>7
<1>5. CASE ScanDied(t)
  <2>1. t \in Workers /\ thread[t].at # "idle" /\ thread'[t].at = "idle" /\ scan' = [scan EXCEPT !.dead = @ \cup {t}]
    BY <1>5 DEF ScanDied
  <2>2. /\ t \in Busy /\ scan.at = "refresh" /\ Progress
        /\ \A w : w \in Busy' <=> w \in Busy /\ w # t
        /\ \A w \in Busy' : thread'[w] = thread[w]
        /\ \A w \in scan.dead : thread'[w].at = "idle"
    BY <1>4, <2>1
  <2>3. /\ scan' \in ScanStates /\ scan'.dead = scan.dead \cup {t}
        /\ scan'.at = scan.at /\ scan'.root = scan.root /\ scan'.ready = scan.ready /\ scan'.queue = scan.queue
        /\ scan'.records = scan.records /\ scan'.failures = scan.failures
    BY <1>2, <2>1, DeadFields
  <2>4. Recorded' = Recorded
    BY <2>3 DEF Recorded
  <2>5. Progress'
    BY <1>1, <2>2, <2>3, <2>4 DEF Progress
  <2>6. relations' \subseteq IF project' = Gone THEN {} ELSE disk'[project'].found
    BY <1>1 DEF ScanInv
  <2>7. project' # Gone /\ scan'.root = project'
    BY <1>1, <2>2, <2>3 DEF ScanInv
  <2>8. \A w \in scan'.dead : thread'[w].at = "idle"
    BY <2>1, <2>2, <2>3
  <2> QED BY <2>2, <2>3, <2>5, <2>6, <2>7, <2>8 DEF ScanInv
<1>6. CASE \E ok \in BOOLEAN : ScanTold(t, ok)
  <2>0. PICK ok \in BOOLEAN : ScanTold(t, ok)
    BY <1>6
  <2> DEFINE d == thread[t].dir
             new == [dir |-> d, ok |-> ok]
  <2>1. /\ t \in Workers /\ thread[t].at # "idle" /\ thread'[t].at = "idle"
        /\ scan' = [scan EXCEPT !.records = @ \cup {new}, !.failures = IF ok THEN @ ELSE @ \cup {d}]
    BY <2>0 DEF ScanTold
  <2>2. /\ t \in Busy /\ scan.at = "refresh" /\ Progress /\ d \in Known
        /\ \A w : w \in Busy' <=> w \in Busy /\ w # t
        /\ \A w \in Busy' : thread'[w] = thread[w]
        /\ \A w \in scan.dead : thread'[w].at = "idle"
    BY <1>4, <2>1
  <2>3. /\ scan' \in ScanStates /\ scan'.records = scan.records \cup {new}
        /\ scan.failures \subseteq scan'.failures /\ (~ok => d \in scan'.failures)
        /\ scan'.at = scan.at /\ scan'.root = scan.root /\ scan'.ready = scan.ready /\ scan'.queue = scan.queue
        /\ scan'.dead = scan.dead
    <3>1. PICK after : after = scan'
      OBVIOUS
    <3>2. after = Told(scan, d, ok)
      BY <2>1, <3>1 DEF Told
    <3> HIDE DEF d
    <3>3. /\ after \in ScanStates /\ after.records = scan.records \cup {[dir |-> d, ok |-> ok]}
          /\ scan.failures \subseteq after.failures /\ (~ok => d \in after.failures)
          /\ after.at = scan.at /\ after.root = scan.root /\ after.ready = scan.ready /\ after.queue = scan.queue
          /\ after.dead = scan.dead
      BY <1>2, <2>2, <3>2, ToldFields
    <3> QED BY <3>1, <3>3
  <2>4. new.dir = d /\ new.ok = ok
    OBVIOUS
  <2>5. \A r : r \in Recorded' <=> r \in Recorded \/ r = d
    <3> HIDE DEF new, d
    <3> QED BY <2>3, <2>4 DEF Recorded
  <2>6. d \in scan.ready /\ d \notin scan.queue /\ d \notin Recorded
    BY <2>2 DEF Progress
  <2>7. Progress'
    <3> HIDE DEF new
    <3>1. /\ disk'[project'].failures \subseteq scan'.failures
          /\ disk'[project'].found \subseteq scan'.ready \cup scan'.failures
          /\ scan'.ready \subseteq disk'[project'].found
          /\ scan'.queue \subseteq scan'.ready /\ Recorded' \subseteq scan'.ready
          /\ \A r \in scan'.queue : r \notin Recorded'
      <4> HIDE DEF d
      <4> QED BY <1>1, <2>2, <2>3, <2>5, <2>6 DEF Progress
    <3>2. \A x \in scan.records : x.dir # d
      BY <2>6 DEF Recorded
    <3>3. \A x, y \in scan'.records : x.dir = y.dir => x = y
      <4> HIDE DEF d
      <4> QED BY <2>2, <2>3, <2>4, <3>2 DEF Progress
    <3>4. \A x \in scan'.records : x.ok \/ x.dir \in scan'.failures
      <4> HIDE DEF d
      <4> QED BY <2>2, <2>3, <2>4 DEF Progress
    <3>5. /\ \A w \in Busy' :
               thread'[w].dir \in scan'.ready /\ thread'[w].dir \notin scan'.queue /\ thread'[w].dir \notin Recorded'
          /\ \A v, w \in Busy' : thread'[v].dir = thread'[w].dir => v = w
      BY <2>2, <2>3, <2>5 DEF Progress
    <3>6. scan'.dead = {} => \A r \in scan'.ready :
            r \in scan'.queue \/ r \in Recorded' \/ \E w \in Busy' : thread'[w].dir = r
      BY <2>2, <2>3, <2>5 DEF Progress
    <3> QED BY <3>1, <3>3, <3>4, <3>5, <3>6 DEF Progress
  <2>8. relations' \subseteq IF project' = Gone THEN {} ELSE disk'[project'].found
    BY <1>1 DEF ScanInv
  <2>9. project' # Gone /\ scan'.root = project'
    BY <1>1, <2>2, <2>3 DEF ScanInv
  <2>10. \A w \in scan'.dead : thread'[w].at = "idle"
    BY <2>2, <2>3
  <2> QED BY <2>2, <2>3, <2>7, <2>8, <2>9, <2>10 DEF ScanInv
<1> QED BY <1>3, <1>5, <1>6 DEF Effect

-----------------------------------------------------------------------------
\* The steps of a thread.

\* A call begins.
LEMMA BeginEffect ==
  ASSUME RepositoriesAssumption, RepositoryTypes, LockInv, NEW t \in Calls, Begin(t)
  PROVE  Effect(t) /\ lock' = lock /\ thread[t].at = "idle" /\ thread'[t].at = "lock"
<1>1. PICK op \in Ops, r \in relations \cap Opened, want \in Requests, staged \in BOOLEAN, all \in BOOLEAN :
        thread' = [thread EXCEPT ![t] = Call("lock", op, r, want, staged, all)]
  BY DEF Begin
<1>2. thread[t].at = "idle" /\ UNCHANGED <<disk, project, relations, lock, reading, scan>>
  BY DEF Begin, disks
<1>3. r \in Known /\ want \in SUBSET Paths
  BY DEF RepositoryTypes, RepositoriesAssumption
<1>4. PICK x : x = Call("lock", op, r, want, staged, all)
  OBVIOUS
<1>5. x \in ThreadStates /\ x.at = "lock" /\ x.dir = r
  <2>1. "lock" \in Places /\ op \in Ops \cup {"none"} /\ r \in Known \cup {Gone}
    BY <1>3 DEF Places
  <2> QED BY <1>3, <1>4, <2>1, SomeTree DEF Call, ThreadStates
<1>6. t \in Threads /\ t \notin Workers
  BY CallsAreNoWorkers
<1>7. Alone(t) /\ thread'[t] = x
  BY <1>1, <1>4, <1>5, <1>6, PutThread
<1>8. ThreadOK(t, thread'[t]) /\ LockKept(t) /\ KeepsGate(t) /\ ScanSame(t)
  <2>1. ThreadOK(t, thread'[t])
    BY <1>3, <1>5, <1>6, <1>7 DEF ThreadOK
  <2>2. LockKept(t)
    BY <1>2, <1>5, <1>7 DEF LockKept, Holding
  <2>3. KeepsGate(t)
    BY <1>2, <1>6, GateKept
  <2>4. ScanSame(t)
    BY <1>2, <1>6 DEF ScanSame
  <2> QED BY <2>1, <2>2, <2>3, <2>4
<1> QED BY <1>2, <1>5, <1>7, <1>8 DEF Effect

\* A thread takes the lock, or panics at a poisoned one.
LEMMA LockEffect ==
  ASSUME RepositoriesAssumption, RepositoryTypes, LockInv, NEW t \in Threads, Lock(t)
  PROVE  /\ Effect(t)
         /\ thread'[t].at \in {"gate", "idle"}
<1>1. thread[t].at = "lock" /\ UNCHANGED <<disk, project, relations>>
  BY DEF Lock, disks
<1>2. CASE lock[thread[t].dir] = Poisoned /\ Panic(t)
  BY <1>1, <1>2, PanicEffect DEF LockPoisoned
<1>3. CASE lock[thread[t].dir] = Free /\ lock' = [lock EXCEPT ![thread[t].dir] = t]
           /\ Continue(t, "gate") /\ UNCHANGED <<reading, scan>>
  <2>1. Alone(t) /\ thread'[t].at = "gate" /\ Same(thread'[t], thread[t])
    BY <1>3, ContinueEffect DEF Places, Holding
  <2>2. LockTaken(t)
    BY <1>1, <1>3, <2>1 DEF LockTaken, Same
  <2>3. KeepsGate(t)
    BY <1>1, <1>3, GateKept
  <2>4. "gate" \in Places /\ "gate" \in Holding
    BY DEF Places, Holding
  <2>5. Effect(t)
    BY <1>1, <1>3, <2>1, <2>2, <2>3, <2>4, GoesOn DEF Same
  <2> QED BY <2>1, <2>2, <2>5
<1> QED BY <1>2, <1>3 DEF Lock

\* It takes a permit.
LEMMA AcquireEffect ==
  ASSUME RepositoriesAssumption, RepositoryTypes, LockInv, NEW t \in Threads, NEW from, NEW to, Acquire(t, from, to),
         <<from, to>> \in {<<"gate", "status">>, <<"diffgate", "diff">>}
  PROVE  Effect(t) /\ LockKept(t) /\ thread'[t].at = to
<1>1. /\ thread[t].at = from /\ UNCHANGED <<disk, project, relations, lock, scan>>
      /\ reading' = reading \cup {t} /\ Continue(t, to)
  BY DEF Acquire, disks
<1>2. to \in {"status", "diff"} /\ to \in Places /\ (to \in Holding <=> from \in Holding) /\ from \notin {"idle", "lock"}
      /\ (from \notin Holding => from = "diffgate")
  BY DEF Places, Holding
<1>3. Alone(t) /\ thread'[t].at = to /\ Same(thread'[t], thread[t])
  BY <1>1, <1>2, ContinueEffect
<1>4. KeepsGate(t)
  BY <1>1, <1>2, <1>3 DEF KeepsGate, RepositoryTypes
<1>5. to # "idle" /\ to # "git"
  BY <1>2
<1>6. t \in Workers => to \in {"idle", "lock"} \cup Holding
  <2>1. t \in Workers => from \in {"idle", "lock"} \cup Holding
    BY <1>1, ThreadFacts DEF ThreadOK
  <2> QED BY <1>2, <2>1
<1> QED BY <1>1, <1>2, <1>3, <1>4, <1>5, <1>6, GoesOn DEF Same

\* A step within what the lock is held for.
LEMMA HeldEffect ==
  ASSUME RepositoriesAssumption, RepositoryTypes, LockInv, NEW t \in Threads, NEW at \in Holding,
         thread[t].at \in Holding, Alone(t), thread'[t].at = at,
         thread'[t].op = thread[t].op, thread'[t].dir = thread[t].dir,
         at = "git" => thread[t].op \in Writes,
         UNCHANGED <<disk, project, relations, lock, scan>>, KeepsGate(t)
  PROVE  Effect(t) /\ LockKept(t)
<1>1. at \in Places /\ at # "idle" /\ thread[t].at # "idle"
  BY DEF Places, Holding
<1> QED BY <1>1, GoesOn

\* The state of a thread that has read the status,
LEMMA ReadThread ==
  ASSUME RepositoryTypes, NEW t \in Threads, NEW v \in TreeStates,
         thread' = [thread EXCEPT ![t].at = "publish", ![t].read = v]
  PROVE  /\ Alone(t) /\ thread'[t].at = "publish" /\ thread'[t].read = v
         /\ thread'[t].dir = thread[t].dir /\ thread'[t].op = thread[t].op
<1>1. thread[t] \in ThreadStates /\ "publish" \in Places
  BY DEF RepositoryTypes, Places, Holding
<1>2. PICK x : x = [thread[t] EXCEPT !.at = "publish", !.read = v]
  OBVIOUS
<1>3. x \in ThreadStates /\ x.at = "publish" /\ x.read = v /\ x.dir = thread[t].dir /\ x.op = thread[t].op
  BY <1>1, <1>2 DEF ThreadStates
<1>4. thread' = [thread EXCEPT ![t] = x]
  BY <1>2 DEF RepositoryTypes
<1> QED BY <1>3, <1>4, PutThread

\* that has written,
LEMMA WroteThread ==
  ASSUME RepositoryTypes, NEW t \in Threads, NEW ok \in BOOLEAN,
         thread' = [thread EXCEPT ![t].at = "gate", ![t].wrote = TRUE, ![t].ok = ok]
  PROVE  /\ Alone(t) /\ thread'[t].at = "gate"
         /\ thread'[t].dir = thread[t].dir /\ thread'[t].op = thread[t].op
<1>1. thread[t] \in ThreadStates /\ "gate" \in Places
  BY DEF RepositoryTypes, Places, Holding
<1>2. PICK x : x = [thread[t] EXCEPT !.at = "gate", !.wrote = TRUE, !.ok = ok]
  OBVIOUS
<1>3. x \in ThreadStates /\ x.at = "gate" /\ x.dir = thread[t].dir /\ x.op = thread[t].op
  BY <1>1, <1>2 DEF ThreadStates
<1>4. thread' = [thread EXCEPT ![t] = x]
  BY <1>2 DEF RepositoryTypes
<1> QED BY <1>3, <1>4, PutThread

\* and that has a diff.
LEMMA ListedThread ==
  ASSUME RepositoryTypes, NEW t \in Threads, NEW listed \in SUBSET DiffFiles, NEW same \in BOOLEAN,
         thread' = [thread EXCEPT ![t].at = "listed", ![t].listed = listed, ![t].same = same]
  PROVE  /\ Alone(t) /\ thread'[t].at = "listed" /\ thread'[t].listed = listed /\ thread'[t].same = same
         /\ Same(thread'[t], thread[t])
<1>1. thread[t] \in ThreadStates /\ "listed" \in Places
  BY DEF RepositoryTypes, Places, Holding
<1>2. PICK x : x = [thread[t] EXCEPT !.at = "listed", !.listed = listed, !.same = same]
  OBVIOUS
<1>3. x \in ThreadStates /\ x.at = "listed" /\ x.listed = listed /\ x.same = same /\ Same(x, thread[t])
  BY <1>1, <1>2 DEF ThreadStates, Same
<1>4. thread' = [thread EXCEPT ![t] = x]
  BY <1>2 DEF RepositoryTypes
<1> QED BY <1>3, <1>4, PutThread

\* A step that leaves what is stored, and reports nothing of it.
Quiet(t) ==
  /\ UNCHANGED <<tree, rows, touched>>
  /\ thread'[t].at \notin {"publish", "refreshed", "listed"}
  /\ LockFreed(t) => thread[t].at = "refreshed"

\* A panic says nothing of the snapshots.
LEMMA PanicQuiet ==
  ASSUME RepositoryTypes, NEW t \in Threads, Panic(t), UNCHANGED <<tree, rows, touched>>,
         LockPoisoned(t), thread[t].at \in Holding => lock[thread[t].dir] = t /\ thread[t].dir \in Known
  PROVE  Quiet(t)
<1>1. thread'[t].at = "idle"
  BY DEF LockPoisoned
<1>2. ASSUME LockFreed(t), thread[t].at # "refreshed" PROVE FALSE
  <2>1. thread[t].at \in Holding /\ lock' = [lock EXCEPT ![thread[t].dir] = Free]
    BY <1>2 DEF LockFreed
  <2>2. lock[thread[t].dir] = t /\ thread[t].dir \in Known
    BY <1>2, <2>1
  <2>3. lock'[thread[t].dir] = Free /\ lock'[thread[t].dir] = Poisoned
    BY <2>1, <2>2 DEF Panic, RepositoryTypes
  <2> QED BY <2>3 DEF Free, Poisoned
<1> QED BY <1>1, <1>2 DEF Quiet

\* A thread at work on a repository holds its lock.
LEMMA HeldFacts ==
  ASSUME RepositoryTypes, LockInv, NEW t \in Threads, thread[t].at \in Holding
  PROVE  lock[thread[t].dir] = t /\ thread[t].dir \in Known /\ thread[t].at # "idle"
<1>1. thread[t].at # "idle"
  BY DEF Holding
<1> QED BY <1>1, ThreadFacts DEF ThreadOK

\* A thread that holds no lock frees none.
LEMMA NotHeld ==
  ASSUME NEW t, thread[t].at \notin Holding
  PROVE  ~LockFreed(t)
<1> QED BY DEF LockFreed

\* A lock that stays with its thread is not freed.
LEMMA KeptIsNotFreed ==
  ASSUME RepositoriesAssumption, RepositoryTypes, LockInv, NEW t \in Threads, lock' = lock
  PROVE  ~LockFreed(t)
<1> SUFFICES ASSUME LockFreed(t) PROVE FALSE
  OBVIOUS
<1>1. thread[t].at \in Holding /\ lock' = [lock EXCEPT ![thread[t].dir] = Free]
  BY DEF LockFreed
<1>2. lock[thread[t].dir] = t /\ thread[t].dir \in Known
  BY <1>1, HeldFacts
<1>3. lock'[thread[t].dir] = Free
  BY <1>1, <1>2 DEF RepositoryTypes
<1> QED BY <1>2, <1>3 DEF RepositoriesAssumption

\* A panic, as a step.
LEMMA PanicStep ==
  ASSUME RepositoriesAssumption, RepositoryTypes, LockInv, NEW t \in Threads,
         thread[t].at # "idle", Panic(t),
         UNCHANGED <<disk, project, relations, tree, rows, touched>>
  PROVE  Effect(t) /\ Quiet(t)
<1>1. Effect(t) /\ LockPoisoned(t)
  BY PanicEffect
<1> QED BY <1>1, PanicQuiet, HeldFacts

\* Continue within what the lock is held for.
LEMMA ContinueHeld ==
  ASSUME RepositoriesAssumption, RepositoryTypes, LockInv, NEW t \in Threads, NEW at \in Holding,
         thread[t].at \in Holding, Continue(t, at), at = "git" => thread[t].op \in Writes,
         UNCHANGED <<disk, project, relations, lock, scan>>, KeepsGate(t)
  PROVE  /\ Effect(t) /\ lock' = lock /\ thread'[t].at = at /\ Same(thread'[t], thread[t])
         /\ at \notin {"publish", "refreshed"} /\ UNCHANGED <<tree, rows, touched>> => Quiet(t)
<1>1. at \in Places
  BY DEF Places
<1>2. Alone(t) /\ thread'[t].at = at /\ Same(thread'[t], thread[t])
  BY <1>1, ContinueEffect
<1>3. Effect(t)
  BY <1>2, HeldEffect DEF Same
<1>4. at # "listed"
  BY DEF Holding
<1> QED BY <1>2, <1>3, <1>4, KeptIsNotFreed DEF Quiet

\* read_status, publish, the failure of a refresh, what follows one and the git of a write, one by one.
LEMMA ReadStatusStep ==
  ASSUME RepositoriesAssumption, RepositoryTypes, LockInv, NEW t \in Threads, ReadStatus(t)
  PROVE  /\ Effect(t) /\ UNCHANGED <<tree, rows>>
         /\ \/ Quiet(t)
            \/ /\ lock' = lock /\ thread'[t].at = "publish" /\ thread'[t].dir = thread[t].dir
               /\ thread'[t].read = tree[thread[t].dir] /\ touched' = touched \ {thread[t].dir}
         /\ touched' \subseteq touched /\ thread[t].at = "status"
<1>1. thread[t].at = "status" /\ UNCHANGED <<disk, project, relations, tree, rows>>
  BY DEF ReadStatus, disks
<1>2. thread[t].at \in Holding /\ "record" \in Holding /\ "publish" \in Holding
  BY <1>1 DEF Holding
<1>3. thread[t].dir \in Known /\ tree[thread[t].dir] \in TreeStates
  BY <1>2, HeldFacts DEF RepositoryTypes
<1>4. ASSUME thread' = [thread EXCEPT ![t].at = "publish", ![t].read = tree[thread[t].dir]],
             touched' = touched \ {thread[t].dir}, reading' = reading \ {t}, UNCHANGED <<lock, scan>>
      PROVE  /\ Effect(t) /\ lock' = lock /\ thread'[t].at = "publish" /\ thread'[t].dir = thread[t].dir
             /\ thread'[t].read = tree[thread[t].dir] /\ touched' \subseteq touched
  <2>1. /\ Alone(t) /\ thread'[t].at = "publish" /\ thread'[t].read = tree[thread[t].dir]
        /\ thread'[t].dir = thread[t].dir /\ thread'[t].op = thread[t].op
    BY <1>3, <1>4, ReadThread
  <2>2. KeepsGate(t)
    BY <1>4 DEF KeepsGate, RepositoryTypes
  <2>3. Effect(t)
    BY <1>1, <1>2, <1>4, <2>1, <2>2, HeldEffect
  <2> QED BY <1>4, <2>1, <2>3
<1>5. ASSUME Continue(t, "record"), reading' = reading \ {t}, UNCHANGED <<lock, scan, touched>>
      PROVE  Effect(t) /\ Quiet(t)
  <2>1. KeepsGate(t)
    BY <1>5 DEF KeepsGate, RepositoryTypes
  <2> QED BY <1>1, <1>2, <1>5, <2>1, ContinueHeld
<1>6. ASSUME Panic(t), UNCHANGED touched
      PROVE  Effect(t) /\ Quiet(t)
  BY <1>1, <1>6, PanicStep
<1> QED BY <1>1, <1>4, <1>5, <1>6 DEF ReadStatus

\* The row of a refresh, and that of a failure.
StoresRow(t, now) ==
  LET r == thread[t].dir
  IN /\ rows' = [rows EXCEPT ![r] = Keep(Append(rows[r], Row(thread[t].read, now)))]
     /\ touched' = IF Ahead(rows[r], now) THEN touched \cup {r} ELSE touched
StoresFailure(t, now) ==
  LET r == thread[t].dir
  IN rows' = [rows EXCEPT ![r] = Keep(Append(rows[r], Failure(rows[r], now)))]

\* A snapshot that is stored leaves the invariant alone,
LEMMA PublishStep ==
  ASSUME RepositoriesAssumption, RepositoryTypes, LockInv, NEW t \in Threads, Publish(t)
  PROVE  /\ Effect(t) /\ thread[t].at = "publish" /\ tree' = tree
         /\ \/ Quiet(t)
            \/ /\ lock' = lock /\ thread'[t].at = "refreshed" /\ thread'[t].dir = thread[t].dir
               /\ \E now \in Now : StoresRow(t, now)
<1> DEFINE r == thread[t].dir
<1>1. thread[t].at = "publish" /\ UNCHANGED <<disk, project, relations, tree>>
  BY DEF Publish, disks
<1>2. thread[t].at \in Holding /\ "record" \in Holding /\ "refreshed" \in Holding
  BY <1>1 DEF Holding
<1>3. reading' = reading => KeepsGate(t)
  BY <1>1, GateKept
<1>4. ASSUME NEW now \in Now, StoresRow(t, now), Continue(t, "refreshed"), UNCHANGED <<lock, scan, reading>>
      PROVE  /\ Effect(t) /\ lock' = lock /\ thread'[t].at = "refreshed" /\ thread'[t].dir = r
             /\ StoresRow(t, now)
  <2>1. Effect(t) /\ thread'[t].at = "refreshed" /\ Same(thread'[t], thread[t])
    BY <1>1, <1>2, <1>3, <1>4, ContinueHeld
  <2> QED BY <1>4, <2>1 DEF Same
<1>5. ASSUME Continue(t, "record"), UNCHANGED <<rows, touched, lock, scan, reading>>
      PROVE  Effect(t) /\ Quiet(t)
  BY <1>1, <1>2, <1>3, <1>5, ContinueHeld
<1>6. ASSUME Panic(t), UNCHANGED <<rows, touched>>
      PROVE  Effect(t) /\ Quiet(t)
  BY <1>1, <1>6, PanicStep
<1>7. \/ /\ \E now \in Now : StoresRow(t, now)
         /\ Continue(t, "refreshed") /\ UNCHANGED <<lock, scan, reading>>
      \/ Continue(t, "record") /\ UNCHANGED <<rows, touched, lock, scan, reading>>
      \/ Panic(t) /\ UNCHANGED <<rows, touched>>
  BY DEF Publish, stored, StoresRow
<1> HIDE DEF r
<1>8. CASE Effect(t) /\ Quiet(t)
  BY <1>1, <1>8
<1> QED BY <1>1, <1>4, <1>5, <1>6, <1>7, <1>8 DEF r

\* and so does a failure that is recorded,
LEMMA RecordFailureStep ==
  ASSUME RepositoriesAssumption, RepositoryTypes, LockInv, NEW t \in Threads, RecordFailure(t)
  PROVE  /\ Effect(t) /\ LockFreed(t) /\ thread[t].at = "record" /\ thread'[t].at = "idle" /\ tree' = tree
         /\ \/ touched' = touched /\ \E now \in Now : StoresFailure(t, now)
            \/ touched' = touched \cup {thread[t].dir} /\ UNCHANGED rows
<1> DEFINE r == thread[t].dir
<1>1. thread[t].at = "record" /\ UNCHANGED <<disk, project, relations, tree, reading>> /\ End(t, FALSE)
  BY DEF RecordFailure, disks
<1>2. thread[t].at \in Holding /\ thread[t].at # "status"
  BY <1>1 DEF Holding
<1>3. Effect(t) /\ LockFreed(t) /\ thread'[t].at = "idle"
  BY <1>1, <1>2, EndEffect
<1>4. \/ touched' = touched /\ \E now \in Now : StoresFailure(t, now)
      \/ touched' = touched \cup {r} /\ UNCHANGED rows
  BY DEF RecordFailure, StoresFailure
<1> HIDE DEF r
<1> QED BY <1>1, <1>3, <1>4 DEF r

\* and the end of a refresh.
LEMMA RefreshedStep ==
  ASSUME RepositoriesAssumption, RepositoryTypes, LockInv, NEW t \in Threads, Refreshed(t)
  PROVE  Effect(t) /\ Quiet(t)
<1>1. thread[t].at = "refreshed" /\ UNCHANGED <<disk, project, relations, tree, rows, touched>>
  BY DEF Refreshed, disks, stored
<1>2. thread[t].at \in Holding /\ thread[t].at # "status" /\ thread[t].at # "idle" /\ "git" \in Holding
  BY <1>1 DEF Holding
<1>3. reading' = reading => KeepsGate(t)
  BY <1>1, GateKept
<1>4. ASSUME End(t, thread[t].ok), UNCHANGED reading PROVE Effect(t) /\ Quiet(t)
  <2>1. thread[t].ok \in BOOLEAN
    BY ThreadFacts DEF ThreadStates
  <2>2. Effect(t) /\ thread'[t].at = "idle"
    BY <1>1, <1>2, <1>4, <2>1, EndEffect
  <2> QED BY <1>1, <2>2 DEF Quiet
<1>5. ASSUME Panic(t) PROVE Effect(t) /\ Quiet(t)
  BY <1>1, <1>2, <1>5, PanicStep
<1>6. ASSUME thread[t].op \in Writes, Continue(t, "git"), UNCHANGED <<lock, reading, scan>>
      PROVE  Effect(t) /\ Quiet(t)
  BY <1>1, <1>2, <1>3, <1>6, ContinueHeld
<1>7. ASSUME thread[t].op = "diff", Unlock(thread[t].dir), Continue(t, "summary"), UNCHANGED <<reading, scan>>
      PROVE  Effect(t) /\ Quiet(t)
  <2>1. "summary" \in Places /\ "summary" \notin Holding
    BY DEF Places, Holding
  <2>2. Alone(t) /\ thread'[t].at = "summary" /\ Same(thread'[t], thread[t])
    BY <1>7, <2>1, ContinueEffect
  <2>3. LockFreed(t)
    BY <1>2, <1>7, <2>1, <2>2 DEF LockFreed, Unlock
  <2>4. t \notin Workers
    BY <1>7, ThreadFacts DEF ThreadOK
  <2>5. Effect(t)
    BY <1>1, <1>2, <1>3, <1>7, <2>1, <2>2, <2>3, <2>4, GoesOn DEF Same
  <2> QED BY <1>1, <2>2, <2>5 DEF Quiet
<1> QED BY <1>4, <1>5, <1>6, <1>7 DEF Refreshed

\* Git changes the tree of a repository whose lock is held, or none.
LEMMA RunGitStep ==
  ASSUME RepositoriesAssumption, RepositoryTypes, LockInv, NEW t \in Threads, RunGit(t)
  PROVE  /\ Effect(t) /\ lock' = lock /\ thread[t].at = "git" /\ thread'[t].at = "gate"
         /\ UNCHANGED <<rows, touched>>
         /\ tree' = tree \/ (Writable(t) /\ tree' = [tree EXCEPT ![thread[t].dir] = Written(t)])
<1>1. thread[t].at = "git" /\ UNCHANGED <<disk, project, relations, rows, touched, lock, reading, scan>>
  BY DEF RunGit, stored
<1>2. PICK did \in BOOLEAN, ok \in BOOLEAN :
        /\ did => Writable(t)
        /\ tree' = IF did THEN [tree EXCEPT ![thread[t].dir] = Written(t)] ELSE tree
        /\ thread' = [thread EXCEPT ![t].at = "gate", ![t].wrote = TRUE, ![t].ok = ok]
  BY DEF RunGit
<1>3. thread[t].at \in Holding /\ "gate" \in Holding
  BY <1>1 DEF Holding
<1>4. Alone(t) /\ thread'[t].at = "gate" /\ thread'[t].dir = thread[t].dir /\ thread'[t].op = thread[t].op
  BY <1>2, WroteThread
<1>5. KeepsGate(t)
  BY <1>1, GateKept
<1>6. Effect(t)
  BY <1>1, <1>3, <1>4, <1>5, HeldEffect
<1> QED BY <1>1, <1>2, <1>4, <1>6

\* What a listing promises of the status it has been made from.
Lists(x, listed, same) ==
  LET chosen == Selected(Parse(Status(x.read)), x.want, x.staged)
  IN /\ {e.path : e \in chosen} \subseteq Names(listed)
     /\ same => Names(listed) \ {Phantom} \subseteq Allowed(chosen)

\* The files of the patch with those of the status, or those of the status alone.
LEMMA ListsMerged ==
  ASSUME GitOutputAssumption, NEW x \in ThreadStates, NEW now \in TreeStates, NEW safe,
         safe = SafeSummary(Parse(Status(x.read)), x.want, x.staged), NEW listed,
         listed \in {Merge(ParsePatch(Patch(now, x.want, x.staged)), safe), safe}
  PROVE  listed \in SUBSET DiffFiles /\ Lists(x, listed, now = x.read)
<1> DEFINE chosen == Selected(Parse(Status(x.read)), x.want, x.staged)
<1>1. x.read \in TreeStates /\ x.want \in SUBSET Paths /\ x.staged \in BOOLEAN
  BY DEF ThreadStates
<1>2. /\ listed \subseteq DiffFiles /\ {e.path : e \in chosen} \subseteq Names(listed)
      /\ now = x.read => Names(listed) \ {Phantom} \subseteq Allowed(chosen)
  BY <1>1, DiffListing
<1> QED BY <1>2 DEF Lists

\* Without a patch it is the status that is listed.
LEMMA ListsSafe ==
  ASSUME GitOutputAssumption, NEW x \in ThreadStates, NEW safe,
         safe = SafeSummary(Parse(Status(x.read)), x.want, x.staged)
  PROVE  safe \in SUBSET DiffFiles /\ \A same : Lists(x, safe, same)
<1>1. PICK now \in TreeStates : now = x.read
  BY DEF ThreadStates
<1>2. PICK listed : listed = safe
  OBVIOUS
<1>3. listed \in {Merge(ParsePatch(Patch(now, x.want, x.staged)), safe), safe}
  BY <1>2
<1>4. listed \in SUBSET DiffFiles /\ Lists(x, listed, now = x.read)
  BY <1>3, ListsMerged
<1> QED BY <1>1, <1>2, <1>4 DEF Lists

\* A step of a thread that holds no lock.
LEMMA LooseStep ==
  ASSUME RepositoriesAssumption, RepositoryTypes, LockInv, NEW t \in Threads, NEW at \in {"diffgate", "diff", "listed"},
         thread[t].at \in {"summary", "diffgate", "diff"}, Alone(t), thread'[t].at = at,
         thread'[t].op = thread[t].op, thread'[t].dir = thread[t].dir,
         UNCHANGED <<disk, project, relations, lock, scan>>, KeepsGate(t)
  PROVE  Effect(t) /\ ~LockFreed(t)
<1>1. at \in Places /\ at # "idle" /\ at # "git" /\ at \notin Holding
  BY DEF Places, Holding
<1>2. thread[t].at \notin Holding /\ thread[t].at # "idle" /\ thread[t].at # "lock"
  BY DEF Holding
<1>3. t \notin Workers
  BY <1>2, ThreadFacts DEF ThreadOK
<1> QED BY <1>1, <1>2, <1>3, GoesOn, NotHeld

\* The steps of a diff.
LEMMA SummariseStep ==
  ASSUME GitOutputAssumption, RepositoriesAssumption, RepositoryTypes, LockInv, NEW t \in Threads, Summarise(t)
  PROVE  /\ Effect(t) /\ ~LockFreed(t) /\ UNCHANGED <<tree, rows, touched>>
         /\ Same(thread'[t], thread[t])
         /\ thread'[t].at \in {"diffgate", "listed"}
         /\ thread'[t].at = "listed" => Lists(thread[t], thread'[t].listed, thread'[t].same)
<1>1. /\ thread[t].at = "summary"
      /\ UNCHANGED <<disk, project, relations, tree, rows, touched, lock, reading, scan>>
  BY DEF Summarise, disks, stored
<1>2. KeepsGate(t)
  BY <1>1, GateKept
<1>3. thread[t] \in ThreadStates /\ thread \in [Threads -> ThreadStates]
  BY DEF RepositoryTypes
<1>4. CASE thread' = [thread EXCEPT ![t] = [thread[t] EXCEPT !.at = "diffgate"]]
  <2>1. Continue(t, "diffgate") /\ "diffgate" \in Places
    BY <1>4 DEF Continue, Places
  <2>2. Alone(t) /\ thread'[t].at = "diffgate" /\ Same(thread'[t], thread[t])
    BY <2>1, ContinueEffect
  <2> QED BY <1>1, <1>2, <2>2, LooseStep DEF Same
<1>5. CASE thread' = [thread EXCEPT ![t] = [thread[t] EXCEPT !.at = "listed", !.listed = Safe(t)]]
  <2>1. PICK safe : safe = Safe(t)
    OBVIOUS
  <2>2. safe \in SUBSET DiffFiles /\ \A same : Lists(thread[t], safe, same)
    BY <1>3, <2>1, ListsSafe DEF Safe
  <2>3. PICK x : x = [thread[t] EXCEPT !.at = "listed", !.listed = safe]
    OBVIOUS
  <2>4. x \in ThreadStates /\ x.at = "listed" /\ x.listed = safe /\ Same(x, thread[t])
    BY <1>3, <2>2, <2>3 DEF ThreadStates, Places, Same
  <2>5. Alone(t) /\ thread'[t] = x
    BY <1>5, <2>1, <2>3, <2>4, PutThread
  <2>6. Effect(t) /\ ~LockFreed(t)
    BY <1>1, <1>2, <2>4, <2>5, LooseStep DEF Same
  <2> QED BY <1>1, <2>2, <2>4, <2>5, <2>6
<1>6. \/ thread' = [thread EXCEPT ![t] = [thread[t] EXCEPT !.at = "diffgate"]]
      \/ thread' = [thread EXCEPT ![t] = [thread[t] EXCEPT !.at = "listed", !.listed = Safe(t)]]
  BY DEF Summarise
<1> QED BY <1>4, <1>5, <1>6

\* Git is asked for a diff, and answers for the files it then sees.
LEMMA RunDiffStep ==
  ASSUME GitOutputAssumption, RepositoriesAssumption, RepositoryTypes, LockInv, NEW t \in Threads, RunDiff(t)
  PROVE  /\ Effect(t) /\ ~LockFreed(t) /\ UNCHANGED <<tree, rows, touched>>
         /\ thread'[t].at \in {"idle", "listed"}
         /\ thread'[t].at = "listed" =>
              Same(thread'[t], thread[t]) /\ Lists(thread[t], thread'[t].listed, thread'[t].same)
<1>1. thread[t].at = "diff" /\ UNCHANGED <<disk, project, relations, tree, rows, touched>>
  BY DEF RunDiff, disks, stored
<1>2. thread[t] \in ThreadStates /\ thread[t].dir \in Known /\ thread[t].at \notin Holding /\ t \notin Workers
  BY <1>1, ThreadFacts DEF ThreadOK, Holding
<1>3. PICK now \in TreeStates : now = tree[thread[t].dir]
  BY <1>2 DEF RepositoryTypes
<1>4. ASSUME NEW listed \in {Merge(ParsePatch(Patch(now, thread[t].want, thread[t].staged)), Safe(t)), Safe(t)},
             thread' = [thread EXCEPT ![t].at = "listed", ![t].listed = listed, ![t].same = (now = thread[t].read)],
             reading' = reading \ {t}, UNCHANGED <<lock, scan>>
      PROVE  /\ Effect(t) /\ ~LockFreed(t) /\ thread'[t].at = "listed" /\ Same(thread'[t], thread[t])
             /\ Lists(thread[t], thread'[t].listed, thread'[t].same)
  <2>1. listed \in SUBSET DiffFiles /\ Lists(thread[t], listed, now = thread[t].read)
    <3>1. PICK x \in ThreadStates : x = thread[t]
      BY <1>2
    <3>2. PICK safe : safe = SafeSummary(Parse(Status(x.read)), x.want, x.staged)
      OBVIOUS
    <3>3. Safe(t) = safe
      BY <3>1, <3>2 DEF Safe
    <3>4. listed \in {Merge(ParsePatch(Patch(now, x.want, x.staged)), safe), safe}
      BY <1>4, <3>1, <3>3
    <3>5. listed \in SUBSET DiffFiles /\ Lists(x, listed, now = x.read)
      BY <3>2, <3>4, ListsMerged
    <3> QED BY <3>1, <3>5
  <2>2. PICK same \in BOOLEAN : same = (now = thread[t].read)
    OBVIOUS
  <2>3. Lists(thread[t], listed, same)
    BY <2>1, <2>2 DEF Lists
  <2>4. /\ Alone(t) /\ thread'[t].at = "listed" /\ thread'[t].listed = listed /\ thread'[t].same = same
        /\ Same(thread'[t], thread[t])
    BY <1>4, <2>1, <2>2, ListedThread
  <2>5. KeepsGate(t)
    BY <1>4 DEF KeepsGate, RepositoryTypes
  <2>6. Effect(t) /\ ~LockFreed(t)
    BY <1>1, <1>4, <2>4, <2>5, LooseStep DEF Same
  <2> QED BY <2>3, <2>4, <2>6
<1>5. ASSUME Done(t), reading' = reading \ {t}, UNCHANGED <<lock, scan>>
      PROVE  Effect(t) /\ ~LockFreed(t) /\ thread'[t].at = "idle"
  <2>1. Alone(t) /\ thread'[t] = Idle /\ thread'[t].at = "idle"
    BY <1>5, DoneEffect
  <2>2. ThreadOK(t, thread'[t])
    BY <2>1, IdleType DEF ThreadOK
  <2>3. LockKept(t) /\ ~LockFreed(t)
    BY <1>2, <1>5, <2>1, NotHeld DEF LockKept, Holding
  <2>4. KeepsGate(t)
    BY <1>5 DEF KeepsGate, RepositoryTypes
  <2>5. ScanSame(t)
    BY <1>2, <1>5 DEF ScanSame
  <2> QED BY <1>1, <2>1, <2>2, <2>3, <2>4, <2>5 DEF Effect
<1>6. ASSUME Panic(t)
      PROVE  Effect(t) /\ ~LockFreed(t) /\ thread'[t].at = "idle"
  BY <1>1, <1>2, <1>6, PanicEffect, NotHeld DEF LockPoisoned
<1>7. \/ \E listed \in {Merge(ParsePatch(Patch(now, thread[t].want, thread[t].staged)), Safe(t)), Safe(t)} :
           /\ thread' = [thread EXCEPT ![t].at = "listed", ![t].listed = listed, ![t].same = (now = thread[t].read)]
           /\ reading' = reading \ {t} /\ UNCHANGED <<lock, scan>>
      \/ Done(t) /\ reading' = reading \ {t} /\ UNCHANGED <<lock, scan>>
      \/ Panic(t)
  BY <1>3 DEF RunDiff
<1>8. CASE Panic(t)
  BY <1>1, <1>6, <1>8
<1>9. CASE Done(t) /\ reading' = reading \ {t} /\ UNCHANGED <<lock, scan>>
  BY <1>1, <1>5, <1>9
<1>10. CASE \E listed \in {Merge(ParsePatch(Patch(now, thread[t].want, thread[t].staged)), Safe(t)), Safe(t)} :
             /\ thread' = [thread EXCEPT ![t].at = "listed", ![t].listed = listed, ![t].same = (now = thread[t].read)]
             /\ reading' = reading \ {t} /\ UNCHANGED <<lock, scan>>
  <2>1. /\ Effect(t) /\ ~LockFreed(t) /\ thread'[t].at = "listed" /\ Same(thread'[t], thread[t])
        /\ Lists(thread[t], thread'[t].listed, thread'[t].same)
    BY <1>4, <1>10
  <2> QED BY <1>1, <2>1
<1> QED BY <1>7, <1>8, <1>9, <1>10

\* A diff is put together and given back.
LEMMA EndDiffStep ==
  ASSUME RepositoriesAssumption, RepositoryTypes, LockInv, NEW t \in Threads, EndDiff(t)
  PROVE  Effect(t) /\ Quiet(t)
<1>1. /\ thread[t].at = "listed" /\ Done(t)
      /\ UNCHANGED <<disk, project, relations, tree, rows, touched, lock, reading, scan>>
  BY DEF EndDiff, disks, stored
<1>2. thread[t].at \notin Holding /\ t \notin Workers
  BY <1>1, ThreadFacts DEF ThreadOK, Holding
<1>3. Alone(t) /\ thread'[t] = Idle /\ thread'[t].at = "idle"
  BY <1>1, DoneEffect
<1>4. ThreadOK(t, thread'[t])
  BY <1>3, IdleType DEF ThreadOK
<1>5. LockKept(t) /\ ~LockFreed(t)
  BY <1>1, <1>2, <1>3, NotHeld DEF LockKept, Holding
<1>6. KeepsGate(t)
  BY <1>1, GateKept
<1>7. ScanSame(t)
  BY <1>1, <1>2 DEF ScanSame
<1> QED BY <1>1, <1>3, <1>4, <1>5, <1>6, <1>7 DEF Effect, Quiet

-----------------------------------------------------------------------------
\* The snapshots of a repository, in the order they were stored.

\* A set of places has a last one.
LEMMA GreatestIndex ==
  ASSUME NEW n \in Nat, NEW I \in SUBSET (1..n), I # {}
  PROVE  \E m \in I : \A j \in I : j <= m
<1> DEFINE J == {k \in 0..n : n - k \in I}
<1>1. PICK i \in I : TRUE
  OBVIOUS
<1>2. i \in 1..n
  OBVIOUS
<1>3. n - i \in J
  <2>1. n - i \in 0..n /\ n - (n - i) = i
    BY <1>2
  <2> QED BY <1>1, <2>1
<1>4. J # {} /\ J \subseteq Nat
  <2>1. \A k \in J : k \in 0..n
    OBVIOUS
  <2>2. \A k \in 0..n : k \in Nat
    OBVIOUS
  <2> HIDE DEF J
  <2> QED BY <1>3, <2>1, <2>2
<1>5. PICK k \in J : \A j \in J : k <= j
  <2> HIDE DEF J
  <2> QED BY <1>4, LeastNatural
<1>6. n - k \in I /\ k \in 0..n
  BY <1>5
<1>7. ASSUME NEW j \in I PROVE j <= n - k
  <2>1. j \in 1..n
    OBVIOUS
  <2>2. n - j \in 0..n /\ n - (n - j) = j
    BY <2>1
  <2>3. n - j \in J
    BY <1>7, <2>2
  <2>4. k <= n - j
    BY <1>5, <2>3
  <2> QED BY <1>6, <2>1, <2>4
<1> QED BY <1>6, <1>7

\* A snapshot is at each place.
LEMMA SnapshotsAt ==
  ASSUME NEW s \in Seq(Snapshots)
  PROVE  /\ DOMAIN s = 1..Len(s) /\ Len(s) \in Nat
         /\ \A i \in 1..Len(s) : s[i] \in Snapshots /\ s[i].time \in Nat /\ s[i].error \in BOOLEAN
<1>1. \A i \in 1..Len(s) : s[i] \in Snapshots
  OBVIOUS
<1>2. DOMAIN s = 1..Len(s) /\ Len(s) \in Nat
  OBVIOUS
<1> QED BY <1>1, <1>2 DEF Snapshots

\* The newest of some rows that are in order is the last of them.
LEMMA NewestIsLast ==
  ASSUME NEW s \in Seq(Snapshots), Ordered(s), NEW I \in SUBSET (1..Len(s)), NEW m \in I, \A j \in I : j <= m
  PROVE  Newest(s, I) = s[m]
<1> DEFINE Is(i) == \A j \in I : s[j].time < s[i].time \/ (s[j].time = s[i].time /\ j <= i)
           c == CHOOSE i \in I : Is(i)
<1>1. \A i \in I : i \in 1..Len(s) /\ i \in Nat /\ s[i].time \in Nat
  BY SnapshotsAt
<1>2. \A i \in I : s[i].time <= s[m].time
  BY <1>1 DEF Ordered
<1>3. Is(m)
  BY <1>1, <1>2
<1>4. c \in I /\ Is(c)
  BY <1>3
<1>5. c = m
  <2>1. s[m].time < s[c].time \/ (s[m].time = s[c].time /\ m <= c)
    BY <1>4
  <2>2. c <= m /\ s[c].time <= s[m].time /\ c \in Nat /\ s[c].time \in Nat /\ s[m].time \in Nat /\ m \in Nat
    BY <1>1, <1>2, <1>4
  <2> HIDE DEF c
  <2> QED BY <2>1, <2>2
<1>6. Newest(s, I) = s[c]
  BY DEF Newest
<1> HIDE DEF c
<1> QED BY <1>5, <1>6

\* So latest_for_repository returns the last row, if they are in order.
LEMMA LatestIsLast ==
  ASSUME NEW s \in Seq(Snapshots), Ordered(s), s # <<>>
  PROVE  Latest(s) = Last(s)
<1>1. DOMAIN s = 1..Len(s) /\ Len(s) \in Nat
  BY SnapshotsAt
<1>2. Len(s) # 0
  OBVIOUS
<1>3. Len(s) \in 1..Len(s) /\ \A j \in 1..Len(s) : j <= Len(s)
  BY <1>1, <1>2
<1>4. Newest(s, 1..Len(s)) = s[Len(s)]
  BY <1>1, <1>3, NewestIsLast
<1> QED BY <1>1, <1>4 DEF Latest, Last

\* Two rows.
LEMMA PairOfRows ==
  ASSUME NEW T, NEW a \in T, NEW b \in T
  PROVE  /\ <<a, b>> \in Seq(T) /\ Len(<<a, b>>) = 2 /\ <<a, b>>[1] = a /\ <<a, b>>[2] = b
         /\ Last(<<a, b>>) = b /\ <<a, b>> # <<>>
<1>1. <<a, b>> \in Seq(T)
  OBVIOUS
<1>2. Len(<<a, b>>) = 2 /\ <<a, b>>[1] = a /\ <<a, b>>[2] = b /\ <<a, b>> # <<>>
  OBVIOUS
<1> QED BY <1>1, <1>2 DEF Last

\* A row is added to what there is.
LEMMA AppendedRows ==
  ASSUME NEW s \in Seq(Snapshots), NEW x \in Snapshots
  PROVE  /\ Append(s, x) \in Seq(Snapshots) /\ Len(Append(s, x)) = Len(s) + 1 /\ Append(s, x) # <<>>
         /\ \A i \in 1..Len(s) : Append(s, x)[i] = s[i]
         /\ Append(s, x)[Len(s) + 1] = x /\ Last(Append(s, x)) = x
<1>1. Append(s, x) \in Seq(Snapshots) /\ Len(Append(s, x)) = Len(s) + 1 /\ Append(s, x)[Len(s) + 1] = x
  OBVIOUS
<1>2. \A i \in 1..Len(s) : Append(s, x)[i] = s[i]
  OBVIOUS
<1>3. Append(s, x) # <<>>
  <2>0. PICK n \in Nat : n = Len(s)
    OBVIOUS
  <2>1. PICK z : z = Append(s, x)
    OBVIOUS
  <2>2. Len(z) = n + 1 /\ Len(<<>>) = 0
    BY <1>1, <2>0, <2>1
  <2>3. z # <<>>
    BY <2>2
  <2> QED BY <2>1, <2>3
<1> QED BY <1>1, <1>2, <1>3 DEF Last

\* The newest of some rows, of which all but the last are in order.
LEMMA NewestOfMore ==
  ASSUME NEW z \in Seq(Snapshots), NEW n \in Nat, Len(z) = n + 1,
         \A i, j \in 1..n : i <= j => z[i].time <= z[j].time,
         NEW I \in SUBSET (1..(n + 1)), I # {}
  PROVE  \E m \in I : /\ Newest(z, I) = z[m]
                     /\ \A j \in I : z[j].time < z[m].time \/ (z[j].time = z[m].time /\ j <= m)
<1> DEFINE Is(i) == \A j \in I : z[j].time < z[i].time \/ (z[j].time = z[i].time /\ j <= i)
           c == CHOOSE i \in I : Is(i)
<1>1. \A i \in I : i \in 1..(n + 1) /\ i \in Nat /\ z[i].time \in Nat
  BY SnapshotsAt
<1>2. \E m \in I : Is(m)
  <2>1. CASE I \cap (1..n) = {}
    <3>1. PICK m \in I : TRUE
      OBVIOUS
    <3>2. \A j \in I : j = n + 1
      BY <1>1, <2>1
    <3>3. \A j \in I : j = m
      BY <3>2
    <3> QED BY <1>1, <3>3
  <2>2. CASE I \cap (1..n) # {}
    <3>1. PICK m \in I \cap (1..n) : \A j \in I \cap (1..n) : j <= m
      BY <2>2, GreatestIndex
    <3>2. \A j \in I \cap (1..n) : z[j].time <= z[m].time /\ j <= m
      BY <3>1
    <3>3. CASE n + 1 \in I /\ z[m].time <= z[n + 1].time
      <4>1. ASSUME NEW j \in I
            PROVE  z[j].time < z[n + 1].time \/ (z[j].time = z[n + 1].time /\ j <= n + 1)
        <5>1. z[j].time <= z[n + 1].time
          <6>1. CASE j = n + 1
            BY <1>1, <3>3, <6>1
          <6>2. CASE j \in 1..n
            <7>1. z[j].time <= z[m].time
              BY <3>2, <6>2
            <7> QED BY <1>1, <3>1, <3>3, <7>1
          <6> QED BY <1>1, <6>1, <6>2
        <5> QED BY <1>1, <3>3, <5>1
      <4> QED BY <3>3, <4>1
    <3>4. CASE ~(n + 1 \in I /\ z[m].time <= z[n + 1].time)
      <4>1. ASSUME NEW j \in I
            PROVE  z[j].time < z[m].time \/ (z[j].time = z[m].time /\ j <= m)
        <5>1. CASE j = n + 1
          BY <1>1, <3>1, <3>4, <5>1
        <5>2. CASE j \in 1..n
          <6>1. z[j].time <= z[m].time /\ j <= m
            BY <3>2, <5>2
          <6> QED BY <1>1, <3>1, <6>1
        <5> QED BY <1>1, <5>1, <5>2
      <4> QED BY <3>1, <4>1
    <3> QED BY <3>3, <3>4
  <2> QED BY <2>1, <2>2
<1>3. c \in I /\ Is(c)
  BY <1>2
<1>4. Newest(z, I) = z[c]
  BY DEF Newest
<1> QED BY <1>3, <1>4

\* What is kept of some rows and a new one: two rows in order, of which the last
\* is the new one, or is ahead of it and no older than any.
LEMMA StoredRows ==
  ASSUME NEW s \in Seq(Snapshots), Ordered(s), NEW x \in Snapshots
  PROVE  LET k == Keep(Append(s, x))
         IN /\ k \in Seq(Snapshots) /\ Ordered(k) /\ k # <<>>
            /\ \/ Last(k) = x
               \/ \E i \in DOMAIN s : Last(k) = s[i] /\ x.time < s[i].time
<1>1. PICK n \in Nat : n = Len(s)
  BY SnapshotsAt
<1>2. PICK z \in Seq(Snapshots) : z = Append(s, x)
  BY AppendedRows
<1>3. Len(z) = n + 1 /\ (\A i \in 1..n : z[i] = s[i]) /\ z[n + 1] = x
  BY <1>1, <1>2, AppendedRows
<1>4. DOMAIN z = 1..(n + 1) /\ DOMAIN s = 1..n /\ \A i \in 1..(n + 1) : z[i] \in Snapshots /\ z[i].time \in Nat
  BY <1>1, <1>3, SnapshotsAt
<1>5. \A i, j \in 1..n : i <= j => z[i].time <= z[j].time
  BY <1>1, <1>3 DEF Ordered
<1>6. PICK S : S = IF Successful(z) = {} THEN DOMAIN z ELSE Successful(z)
  OBVIOUS
<1>7. S \in SUBSET (1..(n + 1)) /\ S # {}
  <2>1. n + 1 \in 1..(n + 1)
    OBVIOUS
  <2> QED BY <1>4, <1>6, <2>1 DEF Successful
<1>8. PICK a \in S : Newest(z, S) = z[a]
  BY <1>3, <1>5, <1>7, NewestOfMore
<1>9. PICK b \in 1..(n + 1) :
        /\ Newest(z, 1..(n + 1)) = z[b]
        /\ \A j \in 1..(n + 1) : z[j].time < z[b].time \/ (z[j].time = z[b].time /\ j <= b)
  <2>1. PICK all : all = 1..(n + 1)
    OBVIOUS
  <2>2. n + 1 \in all /\ all \in SUBSET (1..(n + 1))
    BY <2>1
  <2>3. PICK b \in all : /\ Newest(z, all) = z[b]
                        /\ \A j \in all : z[j].time < z[b].time \/ (z[j].time = z[b].time /\ j <= b)
    BY <1>3, <1>5, <2>2, NewestOfMore
  <2> QED BY <2>1, <2>3
<1>10. PICK k : k = Keep(Append(s, x))
  OBVIOUS
<1>11. k = <<z[a], z[b]>>
  BY <1>2, <1>4, <1>6, <1>8, <1>9, <1>10 DEF Keep, Latest
<1>12. z[a] \in Snapshots /\ z[b] \in Snapshots /\ z[a].time <= z[b].time /\ z[a].time \in Nat /\ z[b].time \in Nat
  BY <1>4, <1>7, <1>9
<1>13. k \in Seq(Snapshots) /\ Len(k) = 2 /\ k[1] = z[a] /\ k[2] = z[b] /\ Last(k) = z[b] /\ k # <<>>
  BY <1>11, <1>12, PairOfRows
<1>14. Ordered(k)
  <2>1. \A i, j \in 1..2 : i <= j => i = j \/ (i = 1 /\ j = 2)
    OBVIOUS
  <2>2. \A i \in 1..2 : i = 1 \/ i = 2
    OBVIOUS
  <2> QED BY <1>12, <1>13, <2>1, <2>2 DEF Ordered
<1>15. Last(k) = x \/ \E i \in DOMAIN s : Last(k) = s[i] /\ x.time < s[i].time
  <2>1. CASE b = n + 1
    BY <1>3, <1>13, <2>1
  <2>2. CASE b \in 1..n
    <3>1. x.time < z[b].time
      <4>1. n + 1 \in 1..(n + 1) /\ ~(n + 1 <= b)
        BY <2>2
      <4> QED BY <1>3, <1>9, <4>1
    <3> QED BY <1>3, <1>4, <1>13, <2>2, <3>1
  <2> QED BY <2>1, <2>2
<1> QED BY <1>10, <1>13, <1>14, <1>15

\* The row of a refresh counts what the tree has.
LEMMA RowType ==
  ASSUME GitOutputAssumption, NEW v \in TreeStates, NEW now \in Nat
  PROVE  /\ Row(v, now) \in Snapshots /\ Row(v, now).time = now /\ ~Row(v, now).error
         /\ Row(v, now).counts = Tally(v)
<1> QED BY CountIsTally DEF Row, Snapshots

\* A row without counters.
LEMMA NoCountsType ==
  NoCounts \in Counters
<1>1. Cardinality({}) \in Int
  BY FS_EmptySet
<1> QED BY <1>1 DEF NoCounts, Count, Counters

\* The row of a failure is an error, and no success is ahead of it.
LEMMA FailureFacts ==
  ASSUME NEW s \in Seq(Snapshots), Ordered(s), NEW now \in Nat
  PROVE  /\ Failure(s, now) \in Snapshots /\ Failure(s, now).error
         /\ \A i \in DOMAIN s : Failure(s, now).time < s[i].time => s[i].error
<1>1. CASE Successful(s) = {}
  <2>1. Failure(s, now) = [time |-> now, counts |-> NoCounts, error |-> TRUE]
    BY <1>1 DEF Failure
  <2>2. \A i \in DOMAIN s : s[i].error
    BY <1>1 DEF Successful
  <2> QED BY <2>1, <2>2, NoCountsType DEF Snapshots
<1>2. CASE Successful(s) # {}
  <2>1. PICK I : I = Successful(s)
    OBVIOUS
  <2>2. I \in SUBSET (1..Len(s)) /\ Len(s) \in Nat
    BY <2>1, SnapshotsAt DEF Successful
  <2>3. PICK m \in I : \A j \in I : j <= m
    BY <1>2, <2>1, <2>2, GreatestIndex
  <2>4. PICK y \in Snapshots : y = Newest(s, I) /\ y = s[m]
    BY <2>2, <2>3, NewestIsLast, SnapshotsAt
  <2>5. Failure(s, now) = [y EXCEPT !.error = TRUE]
    BY <1>2, <2>1, <2>4 DEF Failure
  <2>6. PICK x : x = [y EXCEPT !.error = TRUE]
    OBVIOUS
  <2>7. x \in Snapshots /\ x.error /\ x.time = y.time
    BY <2>6 DEF Snapshots
  <2>8. ASSUME NEW i \in DOMAIN s, x.time < s[i].time
        PROVE  s[i].error
    <3>1. i \in 1..Len(s) /\ s[i].time \in Nat /\ y.time \in Nat /\ s[i].error \in BOOLEAN
      BY <2>4, SnapshotsAt DEF Snapshots
    <3>2. i \notin I
      <4>1. ASSUME i \in I PROVE s[i].time <= s[m].time
        BY <2>2, <2>3, <3>1, <4>1 DEF Ordered
      <4> QED BY <2>4, <2>7, <2>8, <3>1, <4>1
    <3> QED BY <2>1, <3>1, <3>2 DEF Successful
  <2> QED BY <2>5, <2>6, <2>7, <2>8
<1> QED BY <1>1, <1>2

\* A lock that is free was free before, or the thread has freed it.
LEMMA FreeBefore ==
  ASSUME RepositoriesAssumption, RepositoryTypes, LockInv, NEW t \in Threads, Effect(t),
         NEW r \in Known, lock'[r] = Free
  PROVE  lock[r] = Free \/ (LockFreed(t) /\ r = thread[t].dir)
<1>1. CASE LockKept(t)
  BY <1>1 DEF LockKept
<1>2. CASE LockTaken(t)
  BY <1>2 DEF LockTaken, RepositoryTypes, RepositoriesAssumption
<1>3. CASE LockFreed(t)
  BY <1>3 DEF LockFreed, RepositoryTypes
<1>4. CASE LockPoisoned(t)
  <2>1. lock'[r] = IF lock[r] = t THEN Poisoned ELSE lock[r]
    BY <1>4 DEF LockPoisoned, RepositoryTypes
  <2> QED BY <2>1 DEF Free, Poisoned
<1> QED BY <1>1, <1>2, <1>3, <1>4 DEF Effect

\* The repository of a thread that holds its lock is that of no other.
LEMMA HolderIsAlone ==
  ASSUME RepositoryTypes, LockInv, NEW t \in Threads, NEW u \in Threads, thread[t].at \in Holding,
         thread[u].at \in Holding, thread[u].dir = thread[t].dir
  PROVE  u = t
<1> QED BY HeldFacts

Published(t) ==
  thread[t].at = "publish" /\ thread[t].dir \notin touched => thread[t].read = tree[thread[t].dir]
Refreshing(t) ==
  thread[t].at = "refreshed" /\ thread[t].dir \notin touched =>
    rows[thread[t].dir] # <<>> /\ Last(rows[thread[t].dir]).counts = Tally(tree[thread[t].dir])
Shown(r) ==
  lock[r] = Free /\ r \notin touched /\ rows[r] # <<>> =>
    Last(rows[r]).error \/ Last(rows[r]).counts = Tally(tree[r])

\* StoredInv by its parts.
LEMMA StoredParts ==
  StoredInv <=> /\ \A r \in Known : Ordered(rows[r])
                /\ \A u \in Threads : Published(u)
                /\ \A u \in Threads : Refreshing(u)
                /\ \A r \in Known : Shown(r)
<1> QED BY DEF StoredInv, Published, Refreshing, Shown

\* A step that touches neither trees nor rows leaves them in step.
LEMMA StillStored ==
  ASSUME RepositoriesAssumption, RepositoryTypes, LockInv, StoredInv, NEW t \in Threads, Effect(t),
         UNCHANGED <<tree, rows, touched>>, thread'[t].at \notin {"publish", "refreshed"},
         LockFreed(t) => thread[t].at = "refreshed"
  PROVE  StoredInv'
<1>1. Known' = Known
  BY DEF Effect, Known
<1>2. \A u \in Threads : u # t => thread'[u] = thread[u]
  BY DEF Effect, Alone
<1>3. (\A r \in Known : Ordered(rows[r]))'
  BY <1>1 DEF StoredInv
<1>4. (\A u \in Threads : Published(u))' /\ (\A u \in Threads : Refreshing(u))'
  BY <1>2, StoredParts DEF Published, Refreshing
<1>5. (\A r \in Known : Shown(r))'
  <2> SUFFICES ASSUME NEW r \in Known, lock'[r] = Free, r \notin touched, rows[r] # <<>>
               PROVE  Last(rows[r]).error \/ Last(rows[r]).counts = Tally(tree[r])
    BY <1>1 DEF Shown
  <2>1. CASE lock[r] = Free
    BY <2>1, StoredParts DEF Shown
  <2>2. CASE LockFreed(t) /\ r = thread[t].dir
    BY <2>2, StoredParts DEF Refreshing
  <2> QED BY <2>1, <2>2, FreeBefore
<1> QED BY <1>3, <1>4, <1>5 DEF StoredInv, Published, Refreshing, Shown

\* A step of a thread that holds the lock of a repository, changes what is
\* stored of no other.
LEMMA OwnStored ==
  ASSUME RepositoriesAssumption, RepositoryTypes, LockInv, StoredInv, NEW t \in Threads, Effect(t),
         thread[t].at \in Holding,
         NEW d \in Known, d = thread[t].dir,
         tree' \in [Known -> TreeStates],
         \A r \in Known : r # d => tree'[r] = tree[r] /\ rows'[r] = rows[r] /\ lock'[r] = lock[r],
         Ordered(rows'[d]),
         \A r \in Known : r # d => (r \in touched' <=> r \in touched),
         Published(t)', Refreshing(t)', Shown(d)'
  PROVE  StoredInv'
<1>1. Known' = Known
  BY DEF Effect, Known
<1>2. \A u \in Threads : u # t => thread'[u] = thread[u]
  BY DEF Effect, Alone
<1>3. ASSUME NEW r \in Known PROVE Ordered(rows'[r])
  BY StoredParts
<1>4. ASSUME NEW u \in Threads PROVE Published(u)' /\ Refreshing(u)'
  <2>1. CASE u = t
    BY <2>1
  <2>2. CASE u # t
    <3>1. thread'[u] = thread[u]
      BY <1>2, <2>2
    <3>2. thread[u].at \in Holding => thread[u].dir # d /\ thread[u].dir \in Known
      BY <2>2, HolderIsAlone, HeldFacts
    <3>3. Published(u) /\ Refreshing(u)
      BY StoredParts
    <3>4. CASE thread[u].at \in Holding
      BY <3>1, <3>2, <3>3, <3>4 DEF Published, Refreshing
    <3>5. CASE thread[u].at \notin Holding
      BY <3>1, <3>5 DEF Published, Refreshing, Holding
    <3> QED BY <3>4, <3>5
  <2> QED BY <2>1, <2>2
<1>5. ASSUME NEW r \in Known PROVE Shown(r)'
  <2>2. CASE r = d
    BY <2>2
  <2>3. CASE r # d
    BY <2>3, StoredParts DEF Shown
  <2> QED BY <2>2, <2>3
<1> QED BY <1>1, <1>3, <1>4, <1>5 DEF StoredInv, Published, Refreshing, Shown

\* A step of the thread with the lock: only its own repository is to be looked at.
LEMMA HolderStores ==
  ASSUME RepositoriesAssumption, RepositoryTypes, LockInv, StoredInv, NEW t \in Threads, Effect(t),
         thread[t].at \in Holding, lock' = lock,
         NEW d \in Known, d = thread[t].dir,
         tree' \in [Known -> TreeStates],
         \A r \in Known : r # d => tree'[r] = tree[r] /\ rows'[r] = rows[r],
         Ordered(rows'[d]),
         \A r \in Known : r # d => (r \in touched' <=> r \in touched),
         Published(t)', Refreshing(t)'
  PROVE  StoredInv'
<1>1. lock'[d] = t /\ t # Free
  BY HeldFacts DEF RepositoriesAssumption
<1>2. Shown(d)'
  BY <1>1 DEF Shown
<1> QED BY <1>2, OwnStored

\* The status has been read: the tree is what the thread has seen.
LEMMA ReadStatusStored ==
  ASSUME RepositoriesAssumption, RepositoryTypes, LockInv, StoredInv, NEW t \in Threads, ReadStatus(t)
  PROVE  StoredInv' /\ touched' \subseteq Known
<1>1. /\ Effect(t) /\ UNCHANGED <<tree, rows>> /\ touched' \subseteq touched /\ thread[t].at = "status"
  BY ReadStatusStep
<1>2. touched' \subseteq Known
  BY <1>1 DEF RepositoryTypes
<1>3. CASE Quiet(t)
  BY <1>1, <1>2, <1>3, StillStored DEF Quiet
<1>4. CASE /\ lock' = lock /\ thread'[t].at = "publish" /\ thread'[t].dir = thread[t].dir
           /\ thread'[t].read = tree[thread[t].dir] /\ touched' = touched \ {thread[t].dir}
  <2>1. thread[t].at \in Holding
    BY <1>1 DEF Holding
  <2>2. PICK d \in Known : d = thread[t].dir
    BY <2>1, HeldFacts
  <2>3. Published(t)' /\ Refreshing(t)'
    BY <1>1, <1>4 DEF Published, Refreshing
  <2>4. Ordered(rows'[d]) /\ tree' \in [Known -> TreeStates]
    BY <1>1, StoredParts DEF RepositoryTypes
  <2>5. \A r \in Known : r # d => tree'[r] = tree[r] /\ rows'[r] = rows[r] /\ (r \in touched' <=> r \in touched)
    BY <1>1, <1>4, <2>2
  <2> QED BY <1>1, <1>2, <1>4, <2>1, <2>2, <2>3, <2>4, <2>5, HolderStores
<1> QED BY <1>3, <1>4, ReadStatusStep

\* The row of a refresh is that of the tree, unless one is ahead of it.
LEMMA PublishStored ==
  ASSUME GitOutputAssumption, RepositoriesAssumption, RepositoryTypes, LockInv, StoredInv, NEW t \in Threads, Publish(t)
  PROVE  StoredInv' /\ rows' \in [Known -> Seq(Snapshots)] /\ touched' \subseteq Known
<1>1. Effect(t) /\ thread[t].at = "publish" /\ tree' = tree
  BY PublishStep
<1>2. CASE Quiet(t)
  BY <1>1, <1>2, StillStored DEF Quiet, RepositoryTypes
<1>3. ASSUME lock' = lock, thread'[t].at = "refreshed", thread'[t].dir = thread[t].dir,
             NEW now \in Now, StoresRow(t, now)
      PROVE  StoredInv' /\ rows' \in [Known -> Seq(Snapshots)] /\ touched' \subseteq Known
  <2>1. thread[t].at \in Holding
    BY <1>1 DEF Holding
  <2>2. PICK d \in Known : d = thread[t].dir
    BY <2>1, HeldFacts
  <2>3. now \in Nat
    BY DEF Now, RepositoriesAssumption
  <2>4. PICK v \in TreeStates : v = thread[t].read
    BY ThreadFacts DEF ThreadStates
  <2>5. PICK s \in Seq(Snapshots) : s = rows[d]
    BY DEF RepositoryTypes
  <2>6. PICK x \in Snapshots : x = Row(v, now) /\ x.time = now /\ x.counts = Tally(v)
    BY <2>3, RowType
  <2>7. Ordered(s)
    BY <2>5, StoredParts
  <2>8. PICK k : k = Keep(Append(s, x))
    OBVIOUS
  <2>9. /\ k \in Seq(Snapshots) /\ Ordered(k) /\ k # <<>>
        /\ Last(k) = x \/ \E i \in DOMAIN s : now < s[i].time
    <3>1. /\ k \in Seq(Snapshots) /\ Ordered(k) /\ k # <<>>
          /\ Last(k) = x \/ \E i \in DOMAIN s : Last(k) = s[i] /\ x.time < s[i].time
      BY <2>7, <2>8, StoredRows
    <3>2. x.time = now
      BY <2>6
    <3> QED BY <3>1, <3>2
  <2>10. /\ rows' = [rows EXCEPT ![d] = k]
         /\ touched' = IF Ahead(s, now) THEN touched \cup {d} ELSE touched
    BY <1>3, <2>2, <2>4, <2>5, <2>6, <2>8 DEF StoresRow
  <2>11. /\ rows' \in [Known -> Seq(Snapshots)] /\ rows'[d] = k
         /\ \A r \in Known : r # d => rows'[r] = rows[r]
    BY <2>9, <2>10 DEF RepositoryTypes
  <2>12. touched' \subseteq Known /\ \A r \in Known : r # d => (r \in touched' <=> r \in touched)
    BY <2>10 DEF RepositoryTypes
  <2>13. d \notin touched' => d \notin touched /\ Last(k) = x
    BY <2>9, <2>10 DEF Ahead
  <2>14. Published(t)'
    BY <1>3 DEF Published
  <2>15. Refreshing(t)'
    <3>1. Published(t)
      BY StoredParts
    <3> QED BY <1>1, <1>3, <2>2, <2>4, <2>6, <2>9, <2>11, <2>13, <3>1 DEF Published, Refreshing
  <2>16. tree' \in [Known -> TreeStates]
    BY <1>1 DEF RepositoryTypes
  <2>17. Ordered(rows'[d])
    BY <2>9, <2>11
  <2>18. \A r \in Known : r # d => tree'[r] = tree[r] /\ rows'[r] = rows[r]
    BY <1>1, <2>11
  <2>19. StoredInv'
    BY <1>1, <1>3, <2>1, <2>2, <2>12, <2>14, <2>15, <2>16, <2>17, <2>18, HolderStores
  <2> QED BY <2>11, <2>12, <2>19
<1> QED BY <1>2, <1>3, PublishStep

\* The row of a failure says so, or one that is ahead of it does.
LEMMA RecordFailureStored ==
  ASSUME RepositoriesAssumption, RepositoryTypes, LockInv, StoredInv, NEW t \in Threads, RecordFailure(t)
  PROVE  StoredInv' /\ rows' \in [Known -> Seq(Snapshots)] /\ touched' \subseteq Known
<1>1. Effect(t) /\ LockFreed(t) /\ thread[t].at = "record" /\ thread'[t].at = "idle" /\ tree' = tree
  BY RecordFailureStep
<1>2. thread[t].at \in Holding
  BY <1>1 DEF Holding
<1>3. PICK d \in Known : d = thread[t].dir
  BY <1>2, HeldFacts
<1>4. \/ touched' = touched /\ \E now \in Now : StoresFailure(t, now)
      \/ touched' = touched \cup {d} /\ UNCHANGED rows
  BY <1>3, RecordFailureStep
<1>5. \A r \in Known : r # d => lock'[r] = lock[r]
  BY <1>1, <1>3 DEF LockFreed, RepositoryTypes
<1>6. Published(t)' /\ Refreshing(t)' /\ tree' \in [Known -> TreeStates]
  BY <1>1 DEF Published, Refreshing, RepositoryTypes
<1>7. touched' \subseteq Known /\ \A r \in Known : r # d => (r \in touched' <=> r \in touched)
  BY <1>4 DEF RepositoryTypes
<1>8. CASE touched' = touched \cup {d} /\ UNCHANGED rows
  <2>1. Ordered(rows'[d])
    BY <1>8, StoredParts
  <2>2. Shown(d)'
    BY <1>8 DEF Shown
  <2>3. rows' \in [Known -> Seq(Snapshots)]
    BY <1>8 DEF RepositoryTypes
  <2>4. StoredInv'
    BY <1>1, <1>2, <1>3, <1>5, <1>6, <1>7, <1>8, <2>1, <2>2, OwnStored
  <2> QED BY <1>7, <2>3, <2>4
<1>9. ASSUME touched' = touched, NEW now \in Now, StoresFailure(t, now)
      PROVE  StoredInv' /\ rows' \in [Known -> Seq(Snapshots)] /\ touched' \subseteq Known
  <2>1. now \in Nat
    BY DEF Now, RepositoriesAssumption
  <2>2. PICK s \in Seq(Snapshots) : s = rows[d]
    BY DEF RepositoryTypes
  <2>3. Ordered(s)
    BY <2>2, StoredParts
  <2>4. PICK x \in Snapshots : /\ x = Failure(s, now) /\ x.error
                               /\ \A i \in DOMAIN s : x.time < s[i].time => s[i].error
    BY <2>1, <2>3, FailureFacts
  <2>5. PICK k : k = Keep(Append(s, x))
    OBVIOUS
  <2>6. k \in Seq(Snapshots) /\ Ordered(k) /\ Last(k).error
    BY <2>3, <2>4, <2>5, StoredRows
  <2>7. rows' = [rows EXCEPT ![d] = k]
    BY <1>3, <1>9, <2>2, <2>4, <2>5 DEF StoresFailure
  <2>8. /\ rows' \in [Known -> Seq(Snapshots)] /\ rows'[d] = k
        /\ \A r \in Known : r # d => rows'[r] = rows[r]
    BY <2>6, <2>7 DEF RepositoryTypes
  <2>9. Shown(d)' /\ Ordered(rows'[d])
    BY <2>6, <2>8 DEF Shown
  <2>10. StoredInv'
    BY <1>1, <1>2, <1>3, <1>5, <1>6, <1>7, <2>8, <2>9, OwnStored
  <2> QED BY <1>7, <2>8, <2>10
<1> QED BY <1>4, <1>8, <1>9

\* What git has written is a tree.
LEMMA WrittenType ==
  ASSUME RepositoryTypes, LockInv, NEW t \in Threads, thread[t].at = "git", Writable(t)
  PROVE  Written(t) \in TreeStates
<1>1. thread[t].dir \in Known /\ thread[t].op \in Writes
  BY ThreadFacts DEF ThreadOK
<1>2. PICK v \in TreeStates : v = tree[thread[t].dir]
  BY <1>1 DEF RepositoryTypes
<1>3. \A p \in Paths : /\ v[p] \in [head: FileContents, index: IndexContents, work: FileContents]
                       /\ v[p].head \in IndexContents /\ v[p].work \in IndexContents
  BY <1>2 DEF TreeStates, IndexContents
<1>4. CASE thread[t].op = "stage"
  <2>1. PICK to : to = IF thread[t].all THEN Paths ELSE thread[t].want
    OBVIOUS
  <2>2. Written(t) = [p \in Paths |-> IF p \in to THEN [v[p] EXCEPT !.index = v[p].work] ELSE v[p]]
    BY <1>2, <1>4, <2>1 DEF Written
  <2>3. \A p \in Paths : [v[p] EXCEPT !.index = v[p].work] \in [head: FileContents, index: IndexContents, work: FileContents]
    BY <1>3
  <2> QED BY <1>3, <2>2, <2>3 DEF TreeStates
<1>5. CASE thread[t].op = "unstage"
  <2>1. PICK to : to = IF thread[t].all THEN Paths ELSE thread[t].want
    OBVIOUS
  <2>2. Written(t) = [p \in Paths |-> IF p \in to THEN [v[p] EXCEPT !.index = v[p].head] ELSE v[p]]
    BY <1>2, <1>5, <2>1 DEF Written
  <2>3. \A p \in Paths : [v[p] EXCEPT !.index = v[p].head] \in [head: FileContents, index: IndexContents, work: FileContents]
    BY <1>3
  <2> QED BY <1>3, <2>2, <2>3 DEF TreeStates
<1>6. CASE thread[t].op = "commit"
  <2>1. Written(t) = [p \in Paths |-> [v[p] EXCEPT !.head = v[p].index]]
    BY <1>2, <1>6 DEF Written
  <2>2. \A p \in Paths : v[p].index \in FileContents
    BY <1>2, <1>3, <1>6 DEF Writable, IndexContents
  <2>3. \A p \in Paths : [v[p] EXCEPT !.head = v[p].index] \in [head: FileContents, index: IndexContents, work: FileContents]
    BY <1>3, <2>2
  <2> QED BY <2>1, <2>3 DEF TreeStates
<1> QED BY <1>1, <1>4, <1>5, <1>6 DEF Writes

\* A write leaves its row to the refresh after it, which has the lock still.
LEMMA RunGitStored ==
  ASSUME RepositoriesAssumption, RepositoryTypes, LockInv, StoredInv, NEW t \in Threads, RunGit(t)
  PROVE  StoredInv' /\ tree' \in [Known -> TreeStates]
<1>1. /\ Effect(t) /\ lock' = lock /\ thread[t].at = "git" /\ thread'[t].at = "gate"
      /\ UNCHANGED <<rows, touched>>
  BY RunGitStep
<1>2. thread[t].at \in Holding
  BY <1>1 DEF Holding
<1>3. PICK d \in Known : d = thread[t].dir
  BY <1>2, HeldFacts
<1>4. tree' \in [Known -> TreeStates] /\ \A r \in Known : r # d => tree'[r] = tree[r]
  <2>1. CASE tree' = tree
    BY <2>1 DEF RepositoryTypes
  <2>2. CASE Writable(t) /\ tree' = [tree EXCEPT ![thread[t].dir] = Written(t)]
    <3>1. PICK v \in TreeStates : v = Written(t)
      BY <1>1, <2>2, WrittenType
    <3>2. tree' = [tree EXCEPT ![d] = v]
      BY <1>3, <2>2, <3>1
    <3> QED BY <3>2 DEF RepositoryTypes
  <2> QED BY <2>1, <2>2, RunGitStep
<1>5. Published(t)' /\ Refreshing(t)'
  BY <1>1 DEF Published, Refreshing
<1>6. Ordered(rows'[d])
  BY <1>1, StoredParts DEF RepositoryTypes
<1>7. \A r \in Known : r # d => tree'[r] = tree[r] /\ rows'[r] = rows[r] /\ (r \in touched' <=> r \in touched)
  BY <1>1, <1>4
<1> QED BY <1>1, <1>2, <1>3, <1>4, <1>5, <1>6, <1>7, HolderStores

\* The steps that read and write nothing.
LEMMA AcquireStep ==
  ASSUME RepositoriesAssumption, RepositoryTypes, LockInv, NEW t \in Threads, NEW from, NEW to, Acquire(t, from, to),
         <<from, to>> \in {<<"gate", "status">>, <<"diffgate", "diff">>}
  PROVE  Effect(t) /\ Quiet(t)
<1>1. Effect(t) /\ LockKept(t) /\ thread'[t].at = to
  BY AcquireEffect
<1>2. UNCHANGED <<tree, rows, touched>> /\ to \in {"status", "diff"}
  BY DEF Acquire, disks, stored
<1>3. ~LockFreed(t)
  BY <1>1, KeptIsNotFreed DEF LockKept
<1> QED BY <1>1, <1>2, <1>3 DEF Quiet

\* The lock of the repository is taken, or its poison met.
LEMMA LockStep ==
  ASSUME RepositoriesAssumption, RepositoryTypes, LockInv, NEW t \in Threads, Lock(t)
  PROVE  Effect(t) /\ Quiet(t)
<1>1. Effect(t) /\ thread'[t].at \in {"gate", "idle"}
  BY LockEffect
<1>2. UNCHANGED <<tree, rows, touched>> /\ thread[t].at = "lock"
  BY DEF Lock, disks, stored
<1>3. ~LockFreed(t)
  BY <1>2, NotHeld DEF Holding
<1> QED BY <1>1, <1>2, <1>3 DEF Quiet

\* A call begins with nothing in its hands.
LEMMA BeginStep ==
  ASSUME RepositoriesAssumption, RepositoryTypes, LockInv, NEW t \in Calls, Begin(t)
  PROVE  Effect(t) /\ Quiet(t)
<1>1. Effect(t) /\ lock' = lock /\ thread[t].at = "idle" /\ thread'[t].at = "lock"
  BY BeginEffect
<1>2. UNCHANGED <<tree, rows, touched>>
  BY DEF Begin, disks, stored
<1>3. ~LockFreed(t)
  BY <1>1, NotHeld DEF Holding
<1> QED BY <1>1, <1>2, <1>3 DEF Quiet

-----------------------------------------------------------------------------
\* The invariant holds.

\* What has been listed, as DiffInv says it.
LEMMA DiffParts ==
  DiffInv <=> \A t \in Threads :
                thread[t].at = "listed" => Lists(thread[t], thread[t].listed, thread[t].same)
<1> QED BY DEF DiffInv, Lists, Chosen

\* A step of a thread keeps what the others have listed.
LEMMA DiffKept ==
  ASSUME RepositoryTypes, DiffInv, NEW t \in Threads, Effect(t),
         thread'[t].at = "listed" =>
           Same(thread'[t], thread[t]) /\ Lists(thread[t], thread'[t].listed, thread'[t].same)
  PROVE  DiffInv'
<1>1. \A u \in Threads : u # t => thread'[u] = thread[u]
  BY DEF Effect, Alone
<1>2. \A u \in Threads : thread[u].at = "listed" => Lists(thread[u], thread[u].listed, thread[u].same)
  BY DiffParts
<1>3. ASSUME NEW u \in Threads, thread'[u].at = "listed"
      PROVE  Lists(thread'[u], thread'[u].listed, thread'[u].same)
  <2>1. CASE u = t
    <3>1. Same(thread'[t], thread[t]) /\ Lists(thread[t], thread'[t].listed, thread'[t].same)
      BY <1>3, <2>1
    <3> QED BY <2>1, <3>1 DEF Same, Lists
  <2>2. CASE u # t
    BY <1>1, <1>2, <1>3, <2>2
  <2> QED BY <2>1, <2>2
<1> QED BY <1>3 DEF DiffInv, Lists, Chosen

\* What every step of a thread comes to.
LEMMA EffectIsEnough ==
  ASSUME RepositoriesAssumption, RepositoryInv, NEW t \in Threads, Effect(t),
         trusted' = trusted, calls' \in Nat, scans' \in Nat, edits' \in Nat,
         tree' \in [Known -> TreeStates], rows' \in [Known -> Seq(Snapshots)], touched' \subseteq Known,
         StoredInv',
         thread'[t].at = "listed" =>
           Same(thread'[t], thread[t]) /\ Lists(thread[t], thread'[t].listed, thread'[t].same)
  PROVE  RepositoryInv'
<1>1. RepositoryTypes /\ LockInv /\ ScanInv /\ DiffInv
  BY DEF RepositoryInv
<1>2. LockInv' /\ lock' \in [Known -> Threads \cup {Free, Poisoned}]
  BY <1>1, EffectKeepsLocks
<1>3. ScanInv' /\ scan' \in ScanStates
  BY <1>1, EffectKeepsScan
<1>4. DiffInv'
  BY <1>1, DiffKept
<1>5. Known' = Known /\ Reported' = Reported /\ disk' = disk /\ project' = project /\ relations' = relations
  BY DEF Effect, Known, Reported
<1>6. ThreadStates' = ThreadStates /\ ScanStates' = ScanStates
  BY <1>5 DEF ThreadStates, ScanStates
<1>7. thread' \in [Threads -> ThreadStates] /\ reading' \subseteq Threads
  BY DEF Effect, Alone, KeepsGate
<1>8. RepositoryTypes'
  BY <1>1, <1>2, <1>3, <1>5, <1>6, <1>7 DEF RepositoryTypes
<1> QED BY <1>2, <1>3, <1>4, <1>8 DEF RepositoryInv

\* Of a step that reads and writes nothing less is needed.
LEMMA QuietIsEnough ==
  ASSUME RepositoriesAssumption, RepositoryInv, NEW t \in Threads, Effect(t),
         UNCHANGED <<tree, rows, touched, trusted>>, calls' \in Nat, scans' \in Nat, edits' \in Nat,
         thread'[t].at \notin {"publish", "refreshed"}, LockFreed(t) => thread[t].at = "refreshed",
         thread'[t].at = "listed" =>
           Same(thread'[t], thread[t]) /\ Lists(thread[t], thread'[t].listed, thread'[t].same)
  PROVE  RepositoryInv'
<1>1. RepositoryTypes /\ LockInv /\ StoredInv
  BY DEF RepositoryInv
<1>2. StoredInv'
  BY <1>1, StillStored
<1>3. /\ tree' \in [Known -> TreeStates] /\ rows' \in [Known -> Seq(Snapshots)]
      /\ touched' \subseteq Known
  BY <1>1 DEF RepositoryTypes
<1> QED BY <1>2, <1>3, EffectIsEnough

\* Every step of a thread keeps the invariant,
LEMMA BeginKeepsInv ==
  ASSUME RepositoriesAssumption, RepositoryInv, NEW t \in Calls, Begin(t)
  PROVE  RepositoryInv'
<1>1. RepositoryTypes /\ LockInv /\ t \in Threads
  BY CallsAreNoWorkers DEF RepositoryInv
<1>2. Effect(t) /\ Quiet(t)
  BY <1>1, BeginStep
<1>3. trusted' = trusted /\ calls' \in Nat /\ scans' \in Nat /\ edits' \in Nat
  BY <1>1 DEF Begin, disks, RepositoryTypes
<1> QED BY <1>1, <1>2, <1>3, QuietIsEnough DEF Quiet

\* Every step of a thread keeps the invariant,
LEMMA StepKeepsInv ==
  ASSUME GitOutputAssumption, RepositoriesAssumption, RepositoryInv, NEW t \in Threads, Step(t)
  PROVE  RepositoryInv'
<1>1. RepositoryTypes /\ LockInv /\ StoredInv
  BY DEF RepositoryInv
<1>2. trusted' = trusted /\ calls' \in Nat /\ scans' \in Nat /\ edits' \in Nat
  <2>1. calls \in Nat /\ scans \in Nat /\ edits \in Nat
    BY <1>1 DEF RepositoryTypes
  <2> QED BY <2>1 DEF Step, Lock, Acquire, ReadStatus, Publish, RecordFailure, Refreshed, RunGit, Summarise,
                      RunDiff, EndDiff, disks, run
<1>3. /\ tree \in [Known -> TreeStates] /\ rows \in [Known -> Seq(Snapshots)]
      /\ touched \subseteq Known
  BY <1>1 DEF RepositoryTypes
<1>4. CASE Effect(t) /\ Quiet(t)
  BY <1>2, <1>4, QuietIsEnough DEF Quiet
<1>5. CASE Lock(t)
  BY <1>1, <1>4, <1>5, LockStep
<1>6. CASE Acquire(t, "gate", "status")
  BY <1>1, <1>4, <1>6, AcquireStep
<1>7. CASE Acquire(t, "diffgate", "diff")
  BY <1>1, <1>4, <1>7, AcquireStep
<1>8. CASE Refreshed(t)
  BY <1>1, <1>4, <1>8, RefreshedStep
<1>9. CASE EndDiff(t)
  BY <1>1, <1>4, <1>9, EndDiffStep
<1>10. CASE ReadStatus(t)
  <2>1. Effect(t) /\ UNCHANGED <<tree, rows>> /\ thread'[t].at # "listed"
    BY <1>1, <1>10, ReadStatusStep DEF Quiet
  <2>2. StoredInv' /\ touched' \subseteq Known
    BY <1>1, <1>10, ReadStatusStored
  <2> QED BY <1>2, <1>3, <2>1, <2>2, EffectIsEnough
<1>11. CASE Publish(t)
  <2>1. Effect(t) /\ tree' = tree /\ thread'[t].at # "listed"
    BY <1>1, <1>11, PublishStep DEF Quiet
  <2>2. StoredInv' /\ rows' \in [Known -> Seq(Snapshots)] /\ touched' \subseteq Known
    BY <1>1, <1>11, PublishStored
  <2> QED BY <1>2, <1>3, <2>1, <2>2, EffectIsEnough
<1>12. CASE RecordFailure(t)
  <2>1. Effect(t) /\ tree' = tree /\ thread'[t].at = "idle"
    BY <1>1, <1>12, RecordFailureStep
  <2>2. StoredInv' /\ rows' \in [Known -> Seq(Snapshots)] /\ touched' \subseteq Known
    BY <1>1, <1>12, RecordFailureStored
  <2> QED BY <1>2, <1>3, <2>1, <2>2, EffectIsEnough
<1>13. CASE RunGit(t)
  <2>1. Effect(t) /\ UNCHANGED <<rows, touched>> /\ thread'[t].at = "gate"
    BY <1>1, <1>13, RunGitStep
  <2>2. StoredInv' /\ tree' \in [Known -> TreeStates]
    BY <1>1, <1>13, RunGitStored
  <2> QED BY <1>2, <1>3, <2>1, <2>2, EffectIsEnough
<1>14. CASE Summarise(t)
  <2>1. /\ Effect(t) /\ ~LockFreed(t) /\ UNCHANGED <<tree, rows, touched>>
        /\ Same(thread'[t], thread[t])
        /\ thread'[t].at \in {"diffgate", "listed"}
        /\ thread'[t].at = "listed" => Lists(thread[t], thread'[t].listed, thread'[t].same)
    BY <1>1, <1>14, SummariseStep
  <2> QED BY <1>2, <2>1, QuietIsEnough
<1>15. CASE RunDiff(t)
  <2>1. /\ Effect(t) /\ ~LockFreed(t) /\ UNCHANGED <<tree, rows, touched>>
        /\ thread'[t].at \in {"idle", "listed"}
        /\ thread'[t].at = "listed" =>
             Same(thread'[t], thread[t]) /\ Lists(thread[t], thread'[t].listed, thread'[t].same)
    BY <1>1, <1>15, RunDiffStep
  <2> QED BY <1>2, <2>1, QuietIsEnough
<1> QED BY <1>5, <1>6, <1>7, <1>8, <1>9, <1>10, <1>11, <1>12, <1>13, <1>14, <1>15 DEF Step

\* Where no thread goes on, the scan and what is counted is all there is to see.
LEMMA ThreadsRest ==
  ASSUME RepositoryInv, UNCHANGED <<disk, tree, rows, lock, reading, thread, touched>>,
         trusted' \subseteq Known, calls' \in Nat, scans' \in Nat, edits' \in Nat,
         project' \in Roots \cup {Gone}, relations' \subseteq Known,
         scan' \in ScanStates, ScanInv'
  PROVE  RepositoryInv'
<1>1. Known' = Known /\ Reported' = Reported
  BY DEF Known, Reported
<1>2. ThreadStates' = ThreadStates /\ ScanStates' = ScanStates
  BY <1>1 DEF ThreadStates, ScanStates
<1>3. RepositoryTypes'
  BY <1>1, <1>2 DEF RepositoryTypes, RepositoryInv
<1>4. LockInv'
  BY <1>1 DEF LockInv, ThreadOK, HoldersAreAtWork, RepositoryInv
<1>5. StoredInv'
  BY <1>1 DEF StoredInv, RepositoryInv
<1>6. DiffInv'
  BY DEF DiffInv, Chosen, RepositoryInv
<1> QED BY <1>3, <1>4, <1>5, <1>6 DEF RepositoryInv

\* What a scan finds is known.
LEMMA OfTheProject ==
  ASSUME RepositoryTypes, NEW root \in Roots
  PROVE  disk[root].found \subseteq Known /\ disk[root].failures \subseteq Reported
<1> QED BY DEF Known, Reported

\* and so do the steps of the scan and of the user.
LEMMA BeginScanKeepsInv ==
  ASSUME RepositoryInv, BeginScan
  PROVE  RepositoryInv'
<1>1. /\ scan.at = "idle" /\ project # Gone /\ scans' = scans + 1
      /\ scan' = [NoScan EXCEPT !.at = "walked", !.root = project, !.failures = disk[project].failures]
      /\ UNCHANGED <<disk, tree, edits, rows, touched, project, relations, trusted, lock, reading, thread, calls>>
  BY DEF BeginScan, disks, stored
<1>2. RepositoryTypes /\ ScanInv
  BY DEF RepositoryInv
<1>3. project \in Roots
  BY <1>1, <1>2 DEF RepositoryTypes
<1>4. disk[project].failures \subseteq Reported
  BY <1>2, <1>3, OfTheProject
<1>5. /\ scan'.at = "walked" /\ scan'.root = project /\ scan'.failures = disk[project].failures
      /\ scan'.ready = {} /\ scan'.queue = {} /\ scan'.records = {} /\ scan'.dead = {}
      /\ scan' \in ScanStates
  BY <1>1, <1>3, <1>4 DEF NoScan, ScanStates
<1>6. Busy' = {}
  BY <1>1, <1>2 DEF ScanInv, Busy
<1>7. ScanInv'
  BY <1>1, <1>2, <1>5, <1>6 DEF ScanInv
<1> QED BY <1>1, <1>2, <1>5, <1>7, ThreadsRest DEF RepositoryTypes

\* and so does a scan that relates what it walked to the project,
LEMMA RelateKeepsInv ==
  ASSUME RepositoryInv, Relate
  PROVE  RepositoryInv'
<1>1. PICK ready \in SUBSET disk[scan.root].found :
        /\ relations' = relations \cup ready
        /\ scan' = [scan EXCEPT !.at = "refresh", !.ready = ready, !.queue = ready,
                                !.failures = @ \cup (disk[scan.root].found \ ready)]
  BY DEF Relate
<1>2. scan.at = "walked" /\ UNCHANGED <<disk, tree, edits, rows, touched, project, trusted, lock, reading, thread,
                                        calls, scans>>
  BY DEF Relate, disks, stored, run
<1>3. RepositoryTypes /\ ScanInv
  BY DEF RepositoryInv
<1>4. project \in Roots /\ scan.root = project
  BY <1>2, <1>3 DEF ScanInv, RepositoryTypes
<1>5. PICK found : found = disk[project].found
  OBVIOUS
<1>6. ready \subseteq found /\ found \subseteq Known /\ found \subseteq Reported
  BY <1>3, <1>4, <1>5, OfTheProject DEF Reported
<1>7. scan.records = {} /\ scan.dead = {} /\ Busy = {} /\ disk[project].failures \subseteq scan.failures
      /\ relations \subseteq found
  <2>1. project # Gone
    BY <1>2, <1>3 DEF ScanInv
  <2> QED BY <1>2, <1>3, <1>5, <2>1 DEF ScanInv
<1>8. /\ scan'.at = "refresh" /\ scan'.root = project /\ scan'.ready = ready /\ scan'.queue = ready
      /\ scan'.failures = scan.failures \cup (found \ ready)
      /\ scan'.records = {} /\ scan'.dead = {} /\ scan' \in ScanStates
  <2>1. PICK failures : failures = scan.failures \cup (found \ ready)
    OBVIOUS
  <2>2. failures \in SUBSET Reported
    BY <1>3, <1>6, <2>1 DEF RepositoryTypes, ScanStates
  <2>3. scan' = [scan EXCEPT !.at = "refresh", !.ready = ready, !.queue = ready, !.failures = failures]
    BY <1>1, <1>4, <1>5, <2>1
  <2>4. scan \in ScanStates /\ ready \in SUBSET Known
    BY <1>3, <1>6 DEF RepositoryTypes
  <2> QED BY <1>4, <1>7, <2>1, <2>2, <2>3, <2>4 DEF ScanStates
<1>9. Busy' = {} /\ Recorded' = {}
  BY <1>2, <1>7, <1>8 DEF Busy, Recorded
<1>10. Progress'
  BY <1>2, <1>5, <1>6, <1>7, <1>8, <1>9 DEF Progress
<1>11. relations' \subseteq found /\ project # Gone
  BY <1>1, <1>2, <1>3, <1>6, <1>7 DEF ScanInv
<1>12. ScanInv'
  BY <1>2, <1>5, <1>8, <1>9, <1>10, <1>11 DEF ScanInv
<1> QED BY <1>2, <1>3, <1>6, <1>8, <1>11, <1>12, ThreadsRest DEF RepositoryTypes

\* one that waits for its workers,
LEMMA JoinKeepsInv ==
  ASSUME RepositoriesAssumption, RepositoryInv, Join
  PROVE  RepositoryInv'
<1>1. /\ scan.at = "refresh" /\ \A w \in Workers : thread[w].at = "idle"
      /\ scan.queue = {} \/ Workers \subseteq scan.dead
      /\ scan' = [scan EXCEPT !.at = IF scan.dead = {} THEN "done" ELSE "poisoned"]
      /\ UNCHANGED <<disk, tree, edits, rows, touched, project, relations, trusted, lock, reading, thread,
                     calls, scans>>
  BY DEF Join, disks, stored, run
<1>2. RepositoryTypes /\ ScanInv /\ scan \in ScanStates
  BY DEF RepositoryInv, RepositoryTypes
<1>3. PICK at \in {"done", "poisoned"} : at = (IF scan.dead = {} THEN "done" ELSE "poisoned")
  OBVIOUS
<1>4. /\ scan'.at = at /\ scan'.root = scan.root /\ scan'.ready = scan.ready /\ scan'.queue = scan.queue
      /\ scan'.records = scan.records /\ scan'.failures = scan.failures /\ scan'.dead = scan.dead
      /\ scan' \in ScanStates
  BY <1>1, <1>2, <1>3 DEF ScanStates
<1>5. Workers # {}
  <2>1. CASE Workers = {}
    <3>1. Cardinality({}) = 0
      BY FS_EmptySet
    <3> QED BY <2>1, <3>1 DEF RepositoriesAssumption
  <2> QED BY <2>1
<1>6. at = "done" => scan.dead = {} /\ scan.queue = {}
  BY <1>1, <1>3, <1>5
<1>7. Busy = {} /\ Busy' = {} /\ Recorded' = Recorded
  BY <1>1, <1>4 DEF Busy, Recorded
<1>8. Progress /\ Progress'
  <2>1. Progress
    BY <1>1, <1>2 DEF ScanInv
  <2> QED BY <1>1, <1>4, <1>7, <2>1 DEF Progress
<1>9. ScanInv'
  BY <1>1, <1>2, <1>3, <1>4, <1>6, <1>7, <1>8 DEF ScanInv
<1> QED BY <1>1, <1>2, <1>4, <1>9, ThreadsRest DEF RepositoryTypes

\* one that returns,
LEMMA ReturnKeepsInv ==
  ASSUME RepositoryInv, Return
  PROVE  RepositoryInv'
<1>1. /\ scan.at = "done" /\ scan' = NoScan
      /\ UNCHANGED <<disk, tree, edits, rows, touched, project, relations, trusted, lock, reading, thread,
                     calls, scans>>
  BY DEF Return, disks, stored, run
<1>2. RepositoryTypes /\ ScanInv
  BY DEF RepositoryInv
<1>3. scan'.at = "idle" /\ scan'.dead = {} /\ scan' \in ScanStates
  BY <1>1 DEF NoScan, ScanStates
<1>4. Busy' = {}
  BY <1>1, <1>2 DEF Busy, ScanInv
<1>5. ScanInv'
  BY <1>1, <1>2, <1>3, <1>4 DEF ScanInv
<1> QED BY <1>1, <1>2, <1>3, <1>5, ThreadsRest DEF RepositoryTypes

\* a project that moves,
LEMMA MoveKeepsInv ==
  ASSUME RepositoryInv, Move
  PROVE  RepositoryInv'
<1>1. /\ scan.at = "idle" /\ project' \in Roots \cup {Gone} /\ relations' = {}
      /\ UNCHANGED <<disk, tree, edits, rows, touched, trusted, lock, reading, thread, scan, calls, scans>>
  BY DEF Move, disks, stored, run
<1>2. RepositoryTypes /\ ScanInv
  BY DEF RepositoryInv
<1>3. Busy' = Busy
  BY <1>1 DEF Busy
<1>4. ScanInv'
  BY <1>1, <1>2, <1>3 DEF ScanInv
<1> QED BY <1>1, <1>2, <1>4, ThreadsRest DEF RepositoryTypes

\* a repository that is trusted,
LEMMA TrustKeepsInv ==
  ASSUME RepositoryInv, Trust
  PROVE  RepositoryInv'
<1>1. /\ trusted' \subseteq trusted \cup relations
      /\ UNCHANGED <<disk, tree, edits, rows, touched, project, relations, lock, reading, thread, scan, calls,
                     scans>>
  BY DEF Trust, disks, stored, run
<1>2. RepositoryTypes /\ ScanInv
  BY DEF RepositoryInv
<1>3. ScanInv'
  BY <1>1, <1>2 DEF ScanInv, Progress, Busy, Recorded
<1> QED BY <1>1, <1>2, <1>3, ThreadsRest DEF RepositoryTypes

\* nothing at all,
LEMMA StutterKeepsInv ==
  ASSUME RepositoryInv, UNCHANGED repositoryVars
  PROVE  RepositoryInv'
<1>1. UNCHANGED <<disk, tree, edits, rows, touched, project, relations, trusted, lock, reading, thread, scan,
                  calls, scans>>
  BY DEF repositoryVars
<1>2. RepositoryTypes /\ ScanInv
  BY DEF RepositoryInv
<1>3. ScanInv'
  BY <1>1, <1>2 DEF ScanInv, Progress, Busy, Recorded
<1> QED BY <1>1, <1>2, <1>3, ThreadsRest DEF RepositoryTypes

\* a worker that takes the next repository,
LEMMA TakeKeepsInv ==
  ASSUME RepositoriesAssumption, RepositoryInv, NEW w \in Workers, Take(w)
  PROVE  RepositoryInv'
<1>1. PICK r \in scan.queue :
        /\ scan' = [scan EXCEPT !.queue = @ \ {r}]
        /\ thread' = [thread EXCEPT ![w] = Call("lock", "none", r, {}, FALSE, FALSE)]
  BY DEF Take
<1>2. /\ scan.at = "refresh" /\ w \notin scan.dead /\ thread[w].at = "idle"
      /\ UNCHANGED <<disk, tree, edits, rows, touched, project, relations, trusted, lock, reading, calls, scans>>
  BY DEF Take, disks, stored, run
<1>3. RepositoryTypes /\ LockInv /\ ScanInv /\ StoredInv /\ DiffInv /\ scan \in ScanStates
  BY DEF RepositoryInv, RepositoryTypes
<1>4. r \in Known /\ w \in Threads
  BY <1>3 DEF ScanStates, Threads
<1>5. PICK x : x = Call("lock", "none", r, {}, FALSE, FALSE)
  OBVIOUS
<1>6. x \in ThreadStates /\ x.at = "lock" /\ x.dir = r /\ x.op = "none"
  <2>1. "lock" \in Places /\ r \in Known \cup {Gone}
    BY <1>4 DEF Places
  <2> QED BY <1>5, <2>1, SomeTree DEF Call, ThreadStates
<1>7. Alone(w) /\ thread'[w] = x
  BY <1>1, <1>3, <1>4, <1>5, <1>6, PutThread
<1>8. \A u \in Threads : u # w => thread'[u] = thread[u]
  BY <1>7 DEF Alone
<1>9. PICK queue : queue = scan.queue \ {r}
  OBVIOUS
<1>10. /\ scan'.queue = queue /\ scan'.at = "refresh" /\ scan'.root = scan.root /\ scan'.ready = scan.ready
       /\ scan'.records = scan.records /\ scan'.failures = scan.failures /\ scan'.dead = scan.dead
       /\ scan' \in ScanStates
  <2>1. queue \in SUBSET Known
    BY <1>3, <1>9 DEF ScanStates
  <2> QED BY <1>1, <1>2, <1>3, <1>9, <2>1 DEF ScanStates
<1>11. Known' = Known /\ Reported' = Reported /\ ThreadStates' = ThreadStates /\ ScanStates' = ScanStates
  BY <1>2 DEF Known, Reported, ThreadStates, ScanStates
<1>12. RepositoryTypes'
  BY <1>2, <1>3, <1>7, <1>10, <1>11 DEF RepositoryTypes, Alone
<1>13. LockInv'
  <2>1. \A t \in Threads : ThreadOK(t, thread'[t])
    <3>1. ThreadOK(w, x)
      BY <1>4, <1>6 DEF ThreadOK
    <3> QED BY <1>3, <1>7, <1>8, <3>1 DEF LockInv
  <2>2. \A t \in Threads : thread'[t].at \in Holding => lock[thread'[t].dir] = t
    <3>1. "lock" \notin Holding
      BY DEF Holding
    <3> QED BY <1>3, <1>6, <1>7, <1>8, <3>1 DEF LockInv
  <2>3. HoldersAreAtWork'
    <3>1. HoldersAreAtWork /\ reading \subseteq Threads
      BY <1>3 DEF LockInv, RepositoryTypes
    <3>2. w \notin reading
      BY <1>2, <3>1 DEF HoldersAreAtWork
    <3>3. \A k \in DOMAIN lock : lock[k] # w \/ thread[lock[k]].at \in Holding
      BY <1>4, <3>1 DEF HoldersAreAtWork, Holding
    <3>4. \A k \in DOMAIN lock : lock[k] # w
      BY <1>2, <3>3 DEF Holding
    <3> QED BY <1>2, <1>8, <3>1, <3>2, <3>4 DEF HoldersAreAtWork
  <2>4. (\A t \in Threads : ThreadOK(t, thread[t]))'
    BY <1>11, <2>1 DEF ThreadOK
  <2> QED BY <1>2, <2>2, <2>3, <2>4 DEF LockInv
<1>14. ScanInv'
  <2>1. Progress /\ w \notin Busy /\ project # Gone /\ scan.root = project
    BY <1>2, <1>3 DEF ScanInv, Busy
  <2>2. \A v : v \in Busy' <=> v \in Busy \/ v = w
    BY <1>4, <1>6, <1>7, <1>8 DEF Busy, Threads
  <2>3. \A v \in Busy : v # w /\ thread'[v] = thread[v]
    BY <1>8, <2>1 DEF Busy, Threads
  <2>4. \A v \in Busy : thread[v].dir # r
    BY <2>1 DEF Progress
  <2>5. r \in scan.ready /\ r \notin Recorded
    BY <2>1 DEF Progress
  <2>6. Recorded' = Recorded
    BY <1>10 DEF Recorded
  <2>7. \A v \in Busy' : thread'[v].dir \in scan.ready /\ thread'[v].dir \notin queue /\ thread'[v].dir \notin Recorded
    BY <1>6, <1>7, <1>9, <2>1, <2>2, <2>3, <2>5 DEF Progress
  <2>8. \A u, v \in Busy' : thread'[u].dir = thread'[v].dir => u = v
    BY <1>6, <1>7, <2>1, <2>2, <2>3, <2>4 DEF Progress
  <2>9. ASSUME scan.dead = {}, NEW k \in scan.ready
        PROVE  k \in queue \/ k \in Recorded \/ \E v \in Busy' : thread'[v].dir = k
    <3>1. k \in scan.queue \/ k \in Recorded \/ \E v \in Busy : thread[v].dir = k
      BY <2>1, <2>9 DEF Progress
    <3> QED BY <1>6, <1>7, <1>9, <2>2, <2>3, <3>1
  <2>10. Progress'
    BY <1>2, <1>9, <1>10, <2>1, <2>6, <2>7, <2>8, <2>9 DEF Progress
  <2>11. \A v \in scan.dead : thread'[v].at = "idle"
    <3>1. \A v \in scan.dead : v # w /\ v \in Threads /\ thread[v].at = "idle"
      BY <1>2, <1>3 DEF ScanInv, ScanStates, Threads
    <3> QED BY <1>8, <3>1
  <2> QED BY <1>2, <1>3, <1>10, <2>1, <2>10, <2>11 DEF ScanInv
<1>15. StoredInv'
  <2>1. \A t \in Threads : thread'[t].at \in {"publish", "refreshed"} => thread'[t] = thread[t]
    BY <1>6, <1>7, <1>8
  <2> QED BY <1>2, <1>3, <1>11, <2>1 DEF StoredInv
<1>16. DiffInv'
  <2>1. \A t \in Threads : thread'[t].at = "listed" => thread'[t] = thread[t]
    BY <1>6, <1>7, <1>8
  <2> QED BY <1>3, <2>1 DEF DiffInv, Chosen
<1> QED BY <1>12, <1>13, <1>14, <1>15, <1>16 DEF RepositoryInv

\* A file of a repository as the user leaves it.
LEMMA EditedTree ==
  ASSUME GitOutputAssumption, NEW v \in TreeStates, NEW p \in Paths, NEW index \in IndexContents, NEW work \in FileContents
  PROVE  [v EXCEPT ![p] = [@ EXCEPT !.index = index, !.work = work]] \in TreeStates
<1>1. v[p] \in [head: FileContents, index: IndexContents, work: FileContents]
  BY DEF TreeStates
<1>2. PICK f : f = [v[p] EXCEPT !.index = index, !.work = work]
  OBVIOUS
<1>3. f \in [head: FileContents, index: IndexContents, work: FileContents]
  BY <1>1, <1>2
<1>4. [v EXCEPT ![p] = [@ EXCEPT !.index = index, !.work = work]] = [v EXCEPT ![p] = f]
  BY <1>2
<1> QED BY <1>3, <1>4 DEF TreeStates

\* and an edit by the user.
LEMMA EditKeepsInv ==
  ASSUME GitOutputAssumption, RepositoriesAssumption, RepositoryInv, Edit
  PROVE  RepositoryInv'
<1>1. PICK r \in relations \cap Opened, edit \in Edits :
        /\ tree' = [tree EXCEPT ![r][edit[1]] = [@ EXCEPT !.index = edit[2], !.work = edit[3]]]
        /\ touched' = touched \cup {r}
  BY DEF Edit
<1>2. /\ edits' = edits + 1
      /\ UNCHANGED <<disk, rows, project, relations, trusted, lock, reading, thread, scan, calls, scans>>
  BY DEF Edit, run
<1>3. RepositoryTypes /\ LockInv /\ ScanInv /\ StoredInv /\ DiffInv
  BY DEF RepositoryInv
<1>4. r \in Known /\ tree[r] \in TreeStates
  BY <1>3 DEF RepositoryTypes
<1>5. PICK v : v = [tree[r] EXCEPT ![edit[1]] = [@ EXCEPT !.index = edit[2], !.work = edit[3]]]
  OBVIOUS
<1>6. v \in TreeStates
  BY <1>4, <1>5, EditedTree DEF RepositoriesAssumption
<1>7. tree' = [tree EXCEPT ![r] = v]
  BY <1>1, <1>5
<1>8. tree' \in [Known -> TreeStates] /\ \A k \in Known : k # r => tree'[k] = tree[k]
  BY <1>3, <1>6, <1>7 DEF RepositoryTypes
<1>9. Known' = Known /\ Reported' = Reported
  BY <1>2 DEF Known, Reported
<1>10. ThreadStates' = ThreadStates /\ ScanStates' = ScanStates
  BY <1>9 DEF ThreadStates, ScanStates
<1>11. RepositoryTypes'
  BY <1>1, <1>2, <1>3, <1>4, <1>8, <1>9, <1>10 DEF RepositoryTypes
<1>12. LockInv' /\ DiffInv'
  BY <1>2, <1>3, <1>9 DEF LockInv, ThreadOK, HoldersAreAtWork, DiffInv, Chosen
<1>13. ScanInv'
  BY <1>2, <1>3 DEF ScanInv, Progress, Busy, Recorded
<1>14. StoredInv'
  <2>1. (\A k \in Known : Ordered(rows[k]))'
    BY <1>2, <1>3, <1>9 DEF StoredInv
  <2>2. \A u \in Threads : thread[u].at \in {"publish", "refreshed"} => thread[u].dir \in Known
    BY <1>3, ThreadFacts DEF ThreadOK
  <2>3. (\A u \in Threads : Published(u))' /\ (\A u \in Threads : Refreshing(u))'
    <3>1. (\A u \in Threads : Published(u)) /\ (\A u \in Threads : Refreshing(u))
      BY <1>3, StoredParts
    <3> QED BY <1>1, <1>2, <1>8, <2>2, <3>1 DEF Published, Refreshing
  <2>4. (\A k \in Known : Shown(k))'
    <3>1. \A k \in Known : Shown(k)
      BY <1>3, StoredParts
    <3> QED BY <1>1, <1>2, <1>8, <1>9, <3>1 DEF Shown
  <2> QED BY <2>1, <2>3, <2>4 DEF StoredInv, Published, Refreshing, Shown
<1> QED BY <1>11, <1>12, <1>13, <1>14 DEF RepositoryInv

\* The invariant holds at first,
LEMMA RepositoryInvInit ==
  ASSUME RepositoriesAssumption, RepositoriesInit
  PROVE  RepositoryInv
<1>1. PICK d \in Disks : disk = [root \in Roots |-> Has(d, root)]
  BY DEF RepositoriesInit
<1>2. PICK v \in TreeStates : tree = [r \in Known |-> v]
  BY DEF RepositoriesInit, RepositoriesAssumption, Known
<1>3. DOMAIN tree = Known
  BY <1>2
<1>4. /\ rows = [r \in Known |-> <<>>] /\ lock = [r \in Known |-> Free] /\ reading = {}
      /\ thread = [t \in Threads |-> Idle] /\ scan = NoScan
      /\ calls = 0 /\ scans = 0 /\ edits = 0 /\ touched = Known
      /\ project \in Roots /\ relations = {} /\ trusted = {}
  BY <1>3 DEF RepositoriesInit
<1>5. Idle \in ThreadStates /\ Idle.at = "idle" /\ Idle.op = "none"
  BY IdleType
<1>6. RepositoryTypes
  <2>1. <<>> \in Seq(Snapshots)
    OBVIOUS
  <2>2. NoScan \in ScanStates
    BY DEF NoScan, ScanStates
  <2> QED BY <1>1, <1>2, <1>4, <1>5, <2>1, <2>2 DEF RepositoryTypes
<1>7. \A t \in Threads : thread[t] = Idle
  BY <1>4
<1>8. LockInv
  <2>1. \A t \in Threads : ThreadOK(t, thread[t]) /\ thread[t].at \notin Holding
    BY <1>5, <1>7 DEF ThreadOK, Holding
  <2>2. HoldersAreAtWork
    BY <1>4 DEF HoldersAreAtWork, RepositoriesAssumption
  <2> QED BY <2>1, <2>2 DEF LockInv
<1>9. ScanInv
  <2>1. Busy = {}
    BY <1>5, <1>7 DEF Busy, Threads
  <2>2. scan.at = "idle" /\ scan.dead = {}
    BY <1>4 DEF NoScan
  <2> QED BY <1>4, <2>1, <2>2 DEF ScanInv
<1>10. StoredInv
  <2>1. \A r \in Known : Ordered(rows[r])
    BY <1>4 DEF Ordered
  <2> QED BY <1>4, <1>5, <1>7, <2>1 DEF StoredInv
<1>11. DiffInv
  BY <1>5, <1>7 DEF DiffInv
<1> QED BY <1>6, <1>8, <1>9, <1>10, <1>11 DEF RepositoryInv

\* and each step keeps it.
LEMMA NextKeepsInv ==
  ASSUME GitOutputAssumption, RepositoriesAssumption, RepositoryInv, [RepositoriesNext]_repositoryVars
  PROVE  RepositoryInv'
<1>1. ASSUME NEW t \in Threads, Begin(t)
      PROVE  RepositoryInv'
  BY <1>1, BeginKeepsInv DEF Begin
<1>2. ASSUME NEW t \in Threads, Step(t)
      PROVE  RepositoryInv'
  BY <1>2, StepKeepsInv
<1>3. ASSUME NEW w \in Workers, Take(w)
      PROVE  RepositoryInv'
  BY <1>3, TakeKeepsInv
<1> QED
  BY <1>1, <1>2, <1>3, BeginScanKeepsInv, RelateKeepsInv, JoinKeepsInv, ReturnKeepsInv, MoveKeepsInv, TrustKeepsInv,
     EditKeepsInv, StutterKeepsInv
  DEF RepositoriesNext, ScanStep

\* For all directories, trees, calls and workers: locks, permits, the scan, the
\* snapshots and the diffs are what the step of each thread says they are
\* (git/service.rs).
THEOREM RepositoriesInvariant == RepositoriesSpec => []RepositoryInv
<1>1. RepositoriesInit => RepositoryInv
  BY RepositoryInvInit, RepositoriesAssumption
<1>2. RepositoryInv /\ [RepositoriesNext]_repositoryVars => RepositoryInv'
  BY NextKeepsInv, GitOutputAssumption, RepositoriesAssumption
<1> QED BY <1>1, <1>2, PTL DEF RepositoriesSpec

-----------------------------------------------------------------------------
\* What it says of the program.

\* For every number of calls and workers: a permit of the gate is with a thread
\* whose git runs, and the lock of a repository with one thread, which is at
\* work on it and waits for a permit at most (ReadGate, write_lock).
THEOREM HoldersAlwaysAtWork == RepositoriesSpec => []HoldersAreAtWork
<1>1. RepositoryInv => HoldersAreAtWork
  BY DEF RepositoryInv, LockInv
<1> QED BY <1>1, RepositoriesInvariant, PTL

\* For all trees, edits and calls: the newest snapshot of a repository that
\* nobody is at counts what the repository has, or says that it could not be
\* read (refresh_repository_inner_locked, latest_for_repository).
THEOREM StoredIsAlwaysCurrent == RepositoriesSpec => []StoredIsCurrent
<1>1. ASSUME RepositoryInv
      PROVE  StoredIsCurrent
  <2>1. RepositoryTypes /\ StoredInv
    BY <1>1 DEF RepositoryInv
  <2>2. ASSUME NEW r \in Known, lock[r] = Free, r \notin touched, rows[r] # <<>>
        PROVE  Latest(rows[r]).error \/ Latest(rows[r]).counts = Tally(tree[r])
    <3>1. rows[r] \in Seq(Snapshots) /\ Ordered(rows[r])
      BY <2>1 DEF RepositoryTypes, StoredInv
    <3>2. Latest(rows[r]) = Last(rows[r])
      BY <2>2, <3>1, LatestIsLast
    <3>3. Last(rows[r]).error \/ Last(rows[r]).counts = Tally(tree[r])
      BY <2>1, <2>2 DEF StoredInv
    <3> QED BY <3>2, <3>3
  <2>3. DOMAIN rows = Known
    BY <2>1 DEF RepositoryTypes
  <2> QED BY <2>2, <2>3 DEF StoredIsCurrent
<1> QED BY <1>1, RepositoriesInvariant, PTL

\* For all trees and requests: a diff names every change that was selected, and
\* no other if nothing has changed since (get_diff, parse_diff_summary).
THEOREM DiffsAlwaysNameTheSelection == RepositoriesSpec => []DiffNamesTheSelection
<1>1. RepositoryInv => DiffNamesTheSelection
  BY DEF RepositoryInv, DiffInv, DiffNamesTheSelection, Names, Threads
<1> QED BY <1>1, RepositoriesInvariant, PTL

\* The disk is as it was, and of it the walk has found what it should.
DiskInv == \E d \in Disks : disk = [root \in Roots |-> Has(d, root)]

\* Nothing the program does moves a directory of a project.
LEMMA DiskStays == RepositoriesSpec => []DiskInv
<1>1. RepositoriesInit => DiskInv
  BY DEF RepositoriesInit, DiskInv
<1>2. [RepositoriesNext]_repositoryVars => disk' = disk
  BY DEF repositoryVars, RepositoriesNext, Begin, Step, Lock, Acquire, ReadStatus, Publish, RecordFailure, Refreshed,
         RunGit, Summarise, RunDiff, EndDiff, BeginScan, ScanStep, Relate, Take, Join, Return, Move, Trust, Edit, disks
<1>3. DiskInv /\ [RepositoriesNext]_repositoryVars => DiskInv'
  BY <1>2 DEF DiskInv
<1> QED BY <1>1, <1>3, PTL DEF RepositoriesSpec

\* A record for each directory and a directory for each record.
LEMMA SameDirs ==
  ASSUME NEW E, NEW Q, IsFiniteSet(Q),
         \A e \in E : e.dir \in Q,
         \A d \in Q : \E e \in E : e.dir = d,
         \A e, f \in E : e.dir = f.dir => e = f
  PROVE  IsFiniteSet(E) /\ Cardinality(E) = Cardinality(Q)
<1> DEFINE g == [e \in E |-> e.dir]
<1>1. g \in Injection(E, Q)
  BY DEF Injection, IsInjective
<1>2. g \in Surjection(E, Q)
  BY DEF Surjection
<1> HIDE DEF g
<1> QED BY <1>1, <1>2, FS_Injection

\* A scan that is done accounts for all that the walk should find.
LEMMA CompleteScan ==
  ASSUME ProjectWalkAssumption, WalkIsComplete, RepositoryInv, DiskInv
  PROVE  ScanIsComplete
<1> DEFINE wanted == IF project = Gone THEN {} ELSE disk[project].wanted
<1>1. RepositoryTypes /\ ScanInv
  BY DEF RepositoryInv
<1>2. \A root \in Roots : /\ disk[root].found \subseteq disk[root].wanted
                          /\ disk[root].wanted \subseteq disk[root].found \cup disk[root].failures
                          /\ disk[root].wanted \subseteq Dirs
  <2>1. PICK d \in Disks : disk = [root \in Roots |-> Has(d, root)]
    BY DEF DiskInv
  <2> SUFFICES ASSUME NEW root \in Roots
               PROVE  /\ disk[root].found \subseteq disk[root].wanted
                      /\ disk[root].wanted \subseteq disk[root].found \cup disk[root].failures
                      /\ disk[root].wanted \subseteq Dirs
    OBVIOUS
  <2>2. disk[root] = Has(d, root)
    BY <2>1
  <2>3. Has(d, root).wanted = Wanted(d, root)
    BY DEF Has
  <2>4. Wanted(d, root) \subseteq Dirs
    BY DEF Wanted
  <2>5. /\ Has(d, root).found \subseteq Has(d, root).wanted
        /\ Has(d, root).wanted \subseteq Has(d, root).found \cup Has(d, root).failures
    BY DEF WalkIsComplete
  <2> QED BY <2>2, <2>3, <2>4, <2>5
<1>3. project \in Roots \cup {Gone}
  BY <1>1 DEF RepositoryTypes
<1>4. relations \subseteq wanted
  BY <1>1, <1>2, <1>3 DEF ScanInv
<1>5. ASSUME scan.at = "done"
      PROVE  /\ Recorded = scan.ready
             /\ Cardinality(scan.records) = Cardinality(scan.ready)
             /\ \A r \in wanted : [dir |-> r, ok |-> TRUE] \in scan.records \/ r \in scan.failures
  <2>1. /\ Progress /\ scan.dead = {} /\ scan.queue = {} /\ Busy = {}
        /\ project \in Roots /\ project # Gone
    BY <1>1, <1>3, <1>5 DEF ScanInv
  <2>2. scan.records \subseteq [dir: Known, ok: BOOLEAN]
    BY <1>1 DEF RepositoryTypes, ScanStates
  <2>3. Recorded = scan.ready
    BY <2>1 DEF Progress
  <2>4. IsFiniteSet(scan.ready)
    <3>1. scan.ready \subseteq Dirs
      BY <1>2, <2>1 DEF Progress
    <3> QED BY <3>1, FS_Subset DEF ProjectWalkAssumption
  <2>5. Cardinality(scan.records) = Cardinality(scan.ready)
    <3>1. /\ \A x \in scan.records : x.dir \in scan.ready
          /\ \A d \in scan.ready : \E x \in scan.records : x.dir = d
      BY <2>3 DEF Recorded
    <3>2. \A x, y \in scan.records : x.dir = y.dir => x = y
      BY <2>1 DEF Progress
    <3> QED BY <2>4, <3>1, <3>2, SameDirs
  <2>6. ASSUME NEW r \in wanted
        PROVE  [dir |-> r, ok |-> TRUE] \in scan.records \/ r \in scan.failures
    <3>1. r \in disk[project].found \/ r \in disk[project].failures
      BY <1>2, <2>1, <2>6
    <3>2. r \in scan.ready \/ r \in scan.failures
      BY <2>1, <3>1 DEF Progress
    <3>3. ASSUME r \in scan.ready
          PROVE  [dir |-> r, ok |-> TRUE] \in scan.records \/ r \in scan.failures
      <4>1. PICK x \in scan.records : x.dir = r
        BY <2>3, <3>3 DEF Recorded
      <4>2. x.ok \/ r \in scan.failures
        BY <2>1, <4>1 DEF Progress
      <4>3. x.ok => x = [dir |-> r, ok |-> TRUE]
        <5>1. x \in [dir: Known, ok: BOOLEAN]
          BY <2>2
        <5> QED BY <4>1, <5>1
      <4> QED BY <4>1, <4>2, <4>3
    <3> QED BY <3>2, <3>3
  <2> HIDE DEF wanted
  <2> QED BY <2>3, <2>5, <2>6
<1> QED BY <1>4, <1>5 DEF ScanIsComplete, Recorded

\* For every number of directories and workers: where the walk finds what it
\* should or reports what it does not, a scan that returns has a record or a
\* failure of every repository (scan_project_with_progress_limit).
THEOREM ScansAreAlwaysComplete ==
  ASSUME WalkIsComplete
  PROVE  RepositoriesSpec => []ScanIsComplete
<1>1. RepositoryInv /\ DiskInv => ScanIsComplete
  BY CompleteScan, ProjectWalkAssumption
<1> QED BY <1>1, RepositoriesInvariant, DiskStays, PTL
=============================================================================
