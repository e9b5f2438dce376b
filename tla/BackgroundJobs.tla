--------------------------- MODULE BackgroundJobs ---------------------------
(***************************************************************************)
(* The users of the job table within one installation: the echo task of    *)
(* tasks.startEcho and the Cancel button of the Task Center (commands.rs), *)
(* the transport services (any legal sequence of calls, here), and the     *)
(* start-up sweep of AppState::from_paths after the process has died.      *)
(*                                                                         *)
(* The echo worker is an async task: it starts its job, reports progress   *)
(* in a fixed number of rounds, looks before each of them whether the job  *)
(* was canceled, and then succeeds.  It ignores what the service refuses,  *)
(* and an error of the store is dropped wherever it occurs.                *)
(***************************************************************************)
EXTENDS AppState

CONSTANT Echo       \* the kind "system.echo"

\* The echo task has a fraction to report between 0 and 1.
ASSUME EchoAssumption == Echo \in OtherKinds /\ FullProgress > 1

VARIABLES
  worker,     \* where the echo task of each job is
  round,      \* its position in the list of fractions it reports
  confirmed,  \* jobs whose cancel_job returned Ok to the Task Center
  dropped     \* jobs whose task dropped an error of the store

clientVars == <<worker, round, confirmed, dropped>>
vars == <<appVars, clientVars>>

Working == {"starting", "sleeping", "reporting", "succeeding", "sealing"}
Rounds  == 1..(FullProgress - 1)

Init ==
  /\ AppInit
  /\ worker = [id \in JobIds |-> "none"]
  /\ round = [id \in JobIds |-> 1]
  /\ confirmed = {}
  /\ dropped = {}

Goto(id, place) == worker' = [worker EXCEPT ![id] = place]

At(id, place) == IsUp /\ worker[id] = place /\ Unlocked

-----------------------------------------------------------------------------
\* The echo task.
StartEchoJob(id) ==
  /\ IsUp
  /\ CreateWithId(id, Echo)
  /\ Goto(id, "starting")
  /\ UNCHANGED <<round, process, confirmed, dropped>>

\* `if let Ok(started) = runner.start(..)`: refused, because the job was
\* canceled first, or failed: the rounds begin anyway.
WorkerStart(id) ==
  /\ At(id, "starting")
  /\ \/ Start(id) /\ UNCHANGED dropped
     \/ ~Permits(id, "running") /\ UNCHANGED <<jobVars, dropped>>
     \/ dropped' = dropped \cup {id} /\ UNCHANGED jobVars
  /\ Goto(id, "sleeping")
  /\ UNCHANGED <<round, process, confirmed>>

\* is_canceled(..).unwrap_or(true), after the sleep of a round.
CheckCanceled(id) ==
  /\ At(id, "sleeping")
  /\ \/ /\ Goto(id, IF HasStatus(id, {"canceled"}) THEN "done" ELSE "reporting")
        /\ UNCHANGED dropped
     \/ Goto(id, "done") /\ dropped' = dropped \cup {id}
  /\ UNCHANGED <<jobVars, round, process, confirmed>>

\* Mutant: a round whose progress was not taken is repeated.
ReportProgress_Retries(id) ==
  /\ At(id, "reporting")
  /\ \/ /\ SetProgress(id, round[id])
        /\ Goto(id, IF round[id] + 1 \in Rounds THEN "sleeping" ELSE "succeeding")
        /\ round' = [round EXCEPT ![id] = IF @ + 1 \in Rounds THEN @ + 1 ELSE @]
     \/ Goto(id, "sleeping") /\ UNCHANGED <<jobVars, round>>
  /\ UNCHANGED <<process, confirmed, dropped>>

\* set_progress of the round, or its refusal, or a failing store.
ReportProgress(id) ==
  /\ At(id, "reporting")
  /\ SetProgress(id, round[id]) \/ UNCHANGED jobVars
  /\ IF round[id] + 1 \in Rounds
       THEN Goto(id, "sleeping") /\ round' = [round EXCEPT ![id] = @ + 1]
       ELSE Goto(id, "succeeding") /\ UNCHANGED round
  /\ UNCHANGED <<process, confirmed, dropped>>

WorkerSucceed(id) ==
  /\ At(id, "succeeding")
  /\ \/ SucceedStatus(id) /\ Goto(id, "sealing") /\ UNCHANGED dropped
     \/ /\ ~Permits(id, "succeeded")
        /\ UNCHANGED <<jobVars, dropped>>
        /\ Goto(id, "done")
     \/ dropped' = dropped \cup {id} /\ Goto(id, "done") /\ UNCHANGED jobVars
  /\ UNCHANGED <<round, process, confirmed>>

\* The second write of succeed, or its failure: the lock is let go.
WorkerSeal(id) ==
  /\ IsUp
  /\ worker[id] = "sealing"
  /\ \/ SucceedProgress(id) /\ UNCHANGED dropped
     \/ LoseLock /\ dropped' = dropped \cup {id}
  /\ Goto(id, "done")
  /\ UNCHANGED <<round, process, confirmed>>

EchoTask(id) ==
  \/ WorkerStart(id) \/ CheckCanceled(id) \/ ReportProgress(id)
  \/ WorkerSucceed(id) \/ WorkerSeal(id)

-----------------------------------------------------------------------------
\* The Task Center and the transport services.
CancelJob(id) ==
  /\ IsUp
  /\ Cancel(id)
  /\ confirmed' = confirmed \cup {id}
  /\ UNCHANGED <<worker, round, process, dropped>>

TransportCall(id) ==
  /\ IsUp
  /\ worker[id] = "none"
  /\ \/ \E kind \in TransportKinds : CreateWithId(id, kind)
     \/ Start(id)
     \/ Fail(id)
     \/ SucceedStatus(id)
     \/ RequestCancel(id)
     \/ \E progress \in 0..FullProgress : SetProgress(id, progress)
  /\ UNCHANGED <<process, clientVars>>

\* A transport call that is inside succeed comes to its end.
TransportSeal(id) ==
  /\ IsUp
  /\ worker[id] = "none"
  /\ SucceedProgress(id)
  /\ UNCHANGED <<process, clientVars>>

-----------------------------------------------------------------------------
\* Tasks die with the process.
Crash ==
  /\ Die
  /\ worker' = [id \in JobIds |-> IF worker[id] \in Working THEN "lost" ELSE worker[id]]
  /\ UNCHANGED <<round, confirmed, dropped>>

Startup ==
  /\ Boot \/ \E id \in JobIds : Sweep(id)
  /\ UNCHANGED clientVars

Next ==
  \/ \E id \in JobIds :
       \/ StartEchoJob(id) \/ EchoTask(id) \/ CancelJob(id)
       \/ TransportCall(id) \/ TransportSeal(id)
  \/ Crash
  \/ Startup

\* The runtime keeps polling every task it has spawned, and a thread that
\* holds the operation lock goes on to release it.
Spec == /\ Init /\ [][Next]_vars
        /\ \A id \in JobIds : WF_vars(EchoTask(id)) /\ WF_vars(TransportSeal(id))

-----------------------------------------------------------------------------
\* Where the tasks are; a task that holds the operation lock is at its
\* second write, and only the start-up sweep works while nothing else does.
TypeOK ==
  /\ AppTypeOK
  /\ worker \in [JobIds -> Working \cup {"none", "done", "lost"}]
  /\ round \in [JobIds -> Rounds]
  /\ confirmed \subseteq JobIds
  /\ dropped \subseteq JobIds

\* A cancel that the Task Center saw succeed holds, through the worker that
\* has already passed its is_canceled check, a late set_progress or succeed,
\* and the sweep of the next start.
CancelHolds == \A id \in confirmed : HasStatus(id, {"canceled"})

\* A task ends with its job settled, and a job that succeeded shows 100 %:
\* only a failing store and the death of the process leave more to do.
NoJobLeftBehind ==
  \A id \in JobIds : worker[id] = "done" /\ id \notin dropped =>
    /\ HasStatus(id, Terminal)
    /\ HasStatus(id, {"succeeded"}) => jobs[id].progress = FullProgress

\* Every task that was spawned ends, or dies with the process.
EveryTaskEnds == \A id \in JobIds :
  worker[id] \in Working ~> worker[id] \in {"done", "lost"}
=============================================================================
