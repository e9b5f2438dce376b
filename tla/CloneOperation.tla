--------------------------- MODULE CloneOperation ---------------------------
(***************************************************************************)
(* Clone (git/transport/clone.rs): a repository is transferred into a      *)
(* staging directory named for the operation, next to an owner marker, is  *)
(* renamed to its final path, and is then registered.  Before the rename a *)
(* failure is undone, after it the clone is kept and its row in            *)
(* git_clone_operations says "partial".  Disk, clone row and job are       *)
(* written one after the other and outlive the process; the next start     *)
(* looks at the three and classifies every row that is not closed.         *)
(*                                                                         *)
(* A call is named by its registry guard; staging directory, marker, clone *)
(* row and job by the operation id, for one parent directory; a resource   *)
(* is a final path.  The stages between "validating" and the end are one   *)
(* stage, "working": nothing reads them apart.                             *)
(***************************************************************************)
EXTENDS AppState, OperationRegistry

CONSTANT Foreign   \* what somebody else has put at a final path

ASSUME CloneAssumption ==
  /\ Ids \subseteq JobIds
  /\ Foreign \notin Ids
  /\ Guards \subseteq Nat /\ Ids \subseteq Nat

VARIABLES
  pc,            \* call -> the step clone_repository_with_guard is at
  target,        \* call -> its final path
  created,       \* the calls that created the job and the row of their id
  staging,       \* the ids whose staging directory exists
  marker,        \* the ids whose owner marker exists
  final,         \* final path -> None, Foreign, or the id cloned to it
  row,           \* id -> its row in git_clone_operations
  unclassified,  \* rows the start-up classification has still to look at
  offered,       \* id -> the recovery actions the last start found for it
  dropped        \* calls that could not write their row or their job

diskVars  == <<staging, marker, final>>
startVars == <<unclassified, offered>>
cloneVars == <<pc, target, created, diskVars, row, startVars, dropped>>
vars == <<appVars, regVars, cloneVars>>

\* stage: "working", "partial" or one of Closed; filesystem_complete; whether
\* the row has a repository.
NoRow  == [stage |-> "absent", filesystem |-> FALSE, repository |-> FALSE]
Closed == {"completed", "failed", "cancelled"}

Undoing  == {"undo", "undoMarker", "close", "closeJob"}
InFlight == {"bind", "create", "insert", "start", "marker", "transfer", "transferring",
             "checkout", "rename", "persist", "register", "attach", "unmark", "complete",
             "finish", "succeed", "seal", "partial", "partialJob"} \cup Undoing

Init ==
  /\ AppInit
  /\ RegInit
  /\ pc = [g \in Guards |-> "idle"]
  /\ target = [g \in Guards |-> None]
  /\ created = {}
  /\ staging = {}
  /\ marker = {}
  /\ final = [p \in Resources |-> None]
  /\ row = [id \in Ids |-> NoRow]
  /\ unclassified = {}
  /\ offered = [id \in Ids |-> {}]
  /\ dropped = {}

Op(g) == guard[g].id

Ready == IsUp /\ unclassified = {}

At(g, step) == Ready /\ pc[g] = step

Goto(g, step) == pc' = [pc EXCEPT ![g] = step]

SetStage(g, stage) == row' = [row EXCEPT ![Op(g)].stage = stage]

\* A step that the store may refuse, after which the call goes elsewhere.
StoreFails(g, elsewhere) == Goto(g, elsewhere) /\ dropped' = dropped \cup {g}

-----------------------------------------------------------------------------
\* The command reserves its id; ClonePaths::allocate wants all three paths of
\* the clone unoccupied; then the source is resolved.
Begin(g) ==
  /\ At(g, "idle")
  /\ \A h \in Guards : h < g => pc[h] # "idle"
  /\ \E id \in Ids, plugin \in Plugins, domain \in Domains :
       /\ \A i \in Ids : i < id => \E h \in Guards : Op(h) = i
       /\ id \notin staging \cup marker
       /\ Reserve(g, id, plugin, domain)
  /\ \E p \in Resources :
       /\ final[p] = None
       /\ target' = [target EXCEPT ![g] = p]
  /\ Goto(g, "bind")
  /\ UNCHANGED <<appVars, created, diskVars, row, startVars, dropped>>

Bind(g) ==
  /\ At(g, "bind")
  /\ BindResource(g, target[g])
  /\ Goto(g, "create")
  /\ UNCHANGED <<appVars, target, created, diskVars, row, startVars, dropped>>

Create(g) ==
  /\ At(g, "create")
  /\ \E kind \in TransportKinds : CreateWithId(Op(g), kind)
  /\ created' = created \cup {g}
  /\ Goto(g, "insert")
  /\ UNCHANGED <<process, regVars, target, diskVars, row, startVars, dropped>>

\* The early returns before there is a job: a wrong profile or source, a busy
\* or canceled operation, a used id.
Reject(g) ==
  /\ Ready
  /\ pc[g] \in {"bind", "create"}
  /\ Release(g)
  /\ Goto(g, "done")
  /\ UNCHANGED <<appVars, target, created, diskVars, row, startVars, dropped>>

\* The row; without it the job is canceled and the call returns.
InsertRow(g) ==
  /\ At(g, "insert")
  /\ row' = [row EXCEPT ![Op(g)] = [NoRow EXCEPT !.stage = "working"]]
  /\ Goto(g, "start")
  /\ UNCHANGED <<appVars, regVars, target, created, diskVars, startVars, dropped>>

InsertFails(g) ==
  /\ At(g, "insert")
  /\ Unlocked
  /\ Cancel(Op(g)) \/ UNCHANGED jobVars
  /\ Release(g)
  /\ StoreFails(g, "done")
  /\ UNCHANGED <<process, target, created, diskVars, row, startVars>>

StartJob(g) ==
  /\ At(g, "start")
  /\ Start(Op(g))
  /\ Goto(g, "marker")
  /\ UNCHANGED <<process, regVars, target, created, diskVars, row, startVars, dropped>>

\* jobs.start is refused, for the job was canceled, or fails.
StartRefused(g) ==
  /\ At(g, "start")
  /\ Unlocked
  /\ \/ SetStage(g, "failed") /\ HasStatus(Op(g), Terminal) /\ UNCHANGED dropped
     \/ (SetStage(g, "failed") \/ UNCHANGED row) /\ dropped' = dropped \cup {g}
  /\ Release(g)
  /\ Goto(g, "done")
  /\ UNCHANGED <<appVars, target, created, diskVars, startVars>>

-----------------------------------------------------------------------------
\* The marker comes first, so that no staging directory is without an owner.
\* It is written whole or not at all; a failure behind it is one of the store.
WriteMarker(g) ==
  /\ At(g, "marker")
  /\ \/ marker' = marker \cup {Op(g)} /\ Goto(g, "transfer") /\ UNCHANGED dropped
     \/ UNCHANGED marker /\ StoreFails(g, "undo")
     \/ marker' = marker \cup {Op(g)} /\ StoreFails(g, "undo")
  /\ UNCHANGED <<appVars, regVars, target, created, staging, final, row, startVars>>

\* git clone --no-checkout makes the staging directory, and goes on to its
\* end; the flag is looked at before it is spawned and while it runs.
Transfer(g) ==
  /\ At(g, "transfer")
  /\ IF g \in cancelled
       THEN Goto(g, "undo") /\ UNCHANGED staging
       ELSE staging' = staging \cup {Op(g)} /\ Goto(g, "transferring")
  /\ UNCHANGED <<appVars, regVars, target, created, marker, final, row, startVars, dropped>>

TransferEnds(g) ==
  /\ At(g, "transferring")
  /\ \/ g \notin cancelled /\ Goto(g, "checkout") /\ UNCHANGED staging
     \/ Goto(g, "undo") /\ (UNCHANGED staging \/ staging' = staging \ {Op(g)})
  /\ UNCHANGED <<appVars, regVars, target, created, marker, final, row, startVars, dropped>>

\* validate_cloned_repository and checkout_safely, and the last look at the
\* flag before the rename.
Checkout(g) ==
  /\ At(g, "checkout")
  /\ \/ g \notin cancelled /\ Goto(g, "rename")
     \/ Goto(g, "undo")
  /\ UNCHANGED <<appVars, regVars, target, created, diskVars, row, startVars, dropped>>

\* rename_staging_to_final: never over anything that is there by now.
\* Mutant: the destination is not looked at again.
Rename_Replaces(g) ==
  /\ At(g, "rename")
  /\ \/ /\ final' = [final EXCEPT ![target[g]] = Op(g)]
        /\ staging' = staging \ {Op(g)}
        /\ Goto(g, "persist")
     \/ Goto(g, "partial") /\ UNCHANGED <<final, staging>>
  /\ UNCHANGED <<appVars, regVars, target, created, marker, row, startVars, dropped>>

Rename(g) ==
  /\ At(g, "rename")
  /\ \/ /\ final[target[g]] = None
        /\ final' = [final EXCEPT ![target[g]] = Op(g)]
        /\ staging' = staging \ {Op(g)}
        /\ Goto(g, "persist")
     \/ Goto(g, "partial") /\ UNCHANGED <<final, staging>>
  /\ UNCHANGED <<appVars, regVars, target, created, marker, row, startVars, dropped>>

\* ensure_not_cancelled_after_rename, behind every step of what follows.
Continue(g, step) == Goto(g, IF g \in cancelled THEN "partial" ELSE step)

\* mark_clone_filesystem_complete.
Persist(g) ==
  /\ At(g, "persist")
  /\ \/ /\ row' = [row EXCEPT ![Op(g)].filesystem = TRUE]
        /\ Continue(g, "register")
        /\ UNCHANGED dropped
     \/ UNCHANGED row /\ StoreFails(g, "partial")
  /\ UNCHANGED <<appVars, regVars, target, created, diskVars, startVars>>

\* register_clone: project, scan, trust, and the repository in the row.
Register(g) ==
  /\ At(g, "register")
  /\ \/ row' = [row EXCEPT ![Op(g)].repository = TRUE] /\ Continue(g, "attach")
     \/ UNCHANGED row /\ Goto(g, "partial")
  /\ UNCHANGED <<appVars, regVars, target, created, diskVars, startVars, dropped>>

\* The transport profile and the provider binding of the new repository.
Attach(g) ==
  /\ At(g, "attach")
  /\ Continue(g, "unmark") \/ Goto(g, "partial")
  /\ UNCHANGED <<appVars, regVars, target, created, diskVars, row, startVars, dropped>>

RemoveMarker(g) ==
  /\ At(g, "unmark")
  /\ \/ marker' = marker \ {Op(g)} /\ Continue(g, "complete")
     \/ UNCHANGED marker /\ Goto(g, "partial")
  /\ UNCHANGED <<appVars, regVars, target, created, staging, final, row, startVars, dropped>>

Complete(g) ==
  /\ At(g, "complete")
  /\ \/ SetStage(g, "completed") /\ Goto(g, "finish") /\ UNCHANGED dropped
     \/ UNCHANGED row /\ StoreFails(g, "partial")
  /\ UNCHANGED <<appVars, regVars, target, created, diskVars, startVars>>

Finish(g) ==
  /\ At(g, "finish")
  /\ FinishIfNotCancelled(g)
  /\ Goto(g, IF told'[g] = "completed" THEN "succeed" ELSE "partial")
  /\ UNCHANGED <<appVars, target, created, diskVars, row, startVars, dropped>>

\* jobs.succeed in its two writes; when it is refused or fails the clone is
\* partial after all.  Mutant: the refusal is ignored.
Succeed_IgnoresRefusal(g) ==
  /\ At(g, "succeed")
  /\ Unlocked
  /\ \/ SucceedStatus(Op(g)) /\ Goto(g, "seal") /\ UNCHANGED dropped
     \/ ~Permits(Op(g), "succeeded") /\ UNCHANGED <<jobVars, dropped>> /\ Goto(g, "done")
  /\ UNCHANGED <<process, regVars, target, created, diskVars, row, startVars>>

Succeed(g) ==
  /\ At(g, "succeed")
  /\ Unlocked
  /\ \/ SucceedStatus(Op(g)) /\ Goto(g, "seal") /\ UNCHANGED dropped
     \/ ~Permits(Op(g), "succeeded") /\ UNCHANGED <<jobVars, dropped>> /\ Goto(g, "partial")
     \/ UNCHANGED jobVars /\ StoreFails(g, "partial")
  /\ UNCHANGED <<process, regVars, target, created, diskVars, row, startVars>>

Seal(g) ==
  /\ At(g, "seal")
  /\ \/ SucceedProgress(Op(g)) /\ Goto(g, "done") /\ UNCHANGED dropped
     \/ LoseLock /\ StoreFails(g, "partial")
  /\ UNCHANGED <<process, regVars, target, created, diskVars, row, startVars>>

-----------------------------------------------------------------------------
\* fail_before_rename: staging goes first and its marker last; whatever of it
\* fails makes the clone partial, with what is left on disk.
Undo(g) ==
  /\ At(g, "undo")
  /\ \/ staging' = staging \ {Op(g)} /\ Goto(g, "undoMarker")
     \/ Op(g) \in staging \cup marker /\ UNCHANGED staging /\ Goto(g, "partial")
  /\ UNCHANGED <<appVars, regVars, target, created, marker, final, row, startVars, dropped>>

\* Mutant: an error in removing the marker is ignored.
UndoMarker_Ignored(g) ==
  /\ At(g, "undoMarker")
  /\ marker' = marker \ {Op(g)} \/ UNCHANGED marker
  /\ Goto(g, "close")
  /\ UNCHANGED <<appVars, regVars, target, created, staging, final, row, startVars, dropped>>

UndoMarker(g) ==
  /\ At(g, "undoMarker")
  /\ \/ marker' = marker \ {Op(g)} /\ Goto(g, "close")
     \/ Op(g) \in marker /\ UNCHANGED marker /\ Goto(g, "partial")
  /\ UNCHANGED <<appVars, regVars, target, created, staging, final, row, startVars, dropped>>

\* A call that was canceled may have failed for another reason before.
Close(g) ==
  /\ At(g, "close")
  /\ \/ SetStage(g, "failed") /\ UNCHANGED dropped
     \/ g \in cancelled /\ SetStage(g, "cancelled") /\ UNCHANGED dropped
     \/ UNCHANGED row /\ dropped' = dropped \cup {g}
  /\ Goto(g, "closeJob")
  /\ UNCHANGED <<appVars, regVars, target, created, diskVars, startVars>>

\* The job follows its row, whatever became of the row; then the guard goes.
CloseJob(g) ==
  /\ At(g, "closeJob")
  /\ Unlocked
  /\ \/ Fail(Op(g)) /\ row[Op(g)].stage # "cancelled" /\ UNCHANGED dropped
     \/ /\ Cancel(Op(g)) /\ UNCHANGED dropped
        /\ g \in cancelled /\ row[Op(g)].stage # "failed"
     \/ HasStatus(Op(g), Terminal) /\ UNCHANGED <<jobVars, dropped>>
     \/ UNCHANGED jobVars /\ dropped' = dropped \cup {g}
  /\ Release(g)
  /\ Goto(g, "done")
  /\ UNCHANGED <<process, target, created, diskVars, row, startVars>>

\* partial_after_rename, and a rename that did not happen.
Partial(g) ==
  /\ At(g, "partial")
  /\ \/ SetStage(g, "partial") /\ UNCHANGED dropped
     \/ UNCHANGED row /\ dropped' = dropped \cup {g}
  /\ Goto(g, "partialJob")
  /\ UNCHANGED <<appVars, regVars, target, created, diskVars, startVars>>

PartialJob(g) ==
  /\ At(g, "partialJob")
  /\ Unlocked
  /\ \/ Fail(Op(g)) /\ UNCHANGED dropped
     \/ HasStatus(Op(g), Terminal) /\ UNCHANGED <<jobVars, dropped>>
     \/ UNCHANGED jobVars /\ dropped' = dropped \cup {g}
  /\ IF Active(g) THEN Release(g) ELSE UNCHANGED regVars
  /\ Goto(g, "done")
  /\ UNCHANGED <<process, target, created, diskVars, row, startVars>>

Call(g) ==
  \/ Bind(g) \/ Create(g) \/ Reject(g) \/ InsertRow(g) \/ InsertFails(g)
  \/ StartJob(g) \/ StartRefused(g) \/ WriteMarker(g) \/ Transfer(g) \/ TransferEnds(g)
  \/ Checkout(g) \/ Rename(g) \/ Persist(g) \/ Register(g) \/ Attach(g)
  \/ RemoveMarker(g) \/ Complete(g) \/ Finish(g) \/ Succeed(g) \/ Seal(g)
  \/ Undo(g) \/ UndoMarker(g) \/ Close(g) \/ CloseJob(g) \/ Partial(g) \/ PartialJob(g)

-----------------------------------------------------------------------------
\* The cancel command; the flag it also sets in the job changes nothing here.
CancelCommand(id) ==
  /\ Ready
  /\ \E plugin \in Plugins, domain \in Domains : CancelOwned(id, plugin, domain)
  /\ UNCHANGED <<appVars, cloneVars>>

\* The Cancel button of the Task Center.
TaskCenterCancel(id) ==
  /\ Ready
  /\ Cancel(id)
  /\ UNCHANGED <<process, regVars, cloneVars>>

\* Somebody else makes a directory at a final path.
ForeignAppears(p) ==
  /\ final[p] = None
  /\ final' = [final EXCEPT ![p] = Foreign]
  /\ UNCHANGED <<appVars, regVars, pc, target, created, staging, marker, row, startVars, dropped>>

\* git may be stopped before or after it has made its directory.
Crash ==
  /\ Die
  /\ Vanish
  /\ pc' = [g \in Guards |-> IF pc[g] \in InFlight THEN "lost" ELSE pc[g]]
  /\ unclassified' = {}
  /\ offered' = [id \in Ids |-> {}]
  /\ UNCHANGED <<target, created, diskVars, row, dropped>>

\* Start-up: the sweep of the jobs, then list_incomplete_clone_operations ...
Startup ==
  /\ Boot \/ \E id \in JobIds : Sweep(id)
  /\ unclassified' = IF process' = "up"
       THEN {id \in Ids : row[id] # NoRow /\ row[id].stage \notin Closed} ELSE {}
  /\ UNCHANGED <<regVars, pc, target, created, diskVars, row, offered, dropped>>

FinalOf(id) == {p \in Resources : \E g \in created : Op(g) = id /\ target[g] = p}

\* A directory is at the final path of the row, whoever has made it.
FinalExists(id) == \E p \in FinalOf(id) : final[p] # None

\* ... and classify_recovery_operation for each row of the list.
\* Mutant: a directory at the final path is taken for the clone.
Classification_WithoutFlag(id) ==
  CASE id \in staging /\ ~FinalExists(id) /\ id \in marker -> {"cleanupStaging", "retryClone"}
    [] id \notin staging /\ FinalExists(id) -> {"retryRegistration"}
    [] OTHER -> {"unsafePath"}

Classification(id) ==
  CASE id \in staging /\ ~FinalExists(id) /\ id \in marker -> {"cleanupStaging", "retryClone"}
    [] id \notin staging /\ FinalExists(id) /\ row[id].filesystem -> {"retryRegistration"}
    [] OTHER -> {"unsafePath"}

Interrupted(id) == id \notin staging /\ ~FinalExists(id) /\ id \in marker

Classify(id) ==
  /\ IsUp
  /\ id \in unclassified
  /\ ~Interrupted(id)
  /\ offered' = [offered EXCEPT ![id] = Classification(id)]
  /\ unclassified' = unclassified \ {id}
  /\ UNCHANGED <<appVars, regVars, pc, target, created, diskVars, row, dropped>>

\* A marker alone is removed and the row closed; its job the sweep has closed
\* already.  A failure here, which would keep the application from starting,
\* is left out.
CloseInterrupted(id) ==
  /\ IsUp
  /\ id \in unclassified
  /\ Interrupted(id)
  /\ marker' = marker \ {id}
  /\ row' = [row EXCEPT ![id].stage = "failed"]
  /\ offered' = [offered EXCEPT ![id] = {"interrupted"}]
  /\ unclassified' = unclassified \ {id}
  /\ UNCHANGED <<appVars, regVars, pc, target, created, staging, final, dropped>>

Next ==
  \/ \E g \in Guards : Begin(g) \/ Call(g)
  \/ \E id \in Ids :
       CancelCommand(id) \/ TaskCenterCancel(id) \/ Classify(id) \/ CloseInterrupted(id)
  \/ \E p \in Resources : ForeignAppears(p)
  \/ Crash
  \/ Startup

Spec == Init /\ [][Next]_vars

-----------------------------------------------------------------------------
\* What is at a final path stays: no clone is renamed over another or over
\* somebody else's directory, and a clone that was renamed is never undone.
FinalIsKept == [][\A p \in Resources : final[p] # None => final'[p] = final[p]]_vars

\* Nothing the application made on disk is without an owner: a staging
\* directory has its marker beside it, without which it could never be
\* removed safely; and a closed row, which no later start looks at, leaves
\* neither of them behind.
ClosedLeavesNothing ==
  /\ staging \subseteq marker
  /\ \A id \in Ids : row[id].stage \in Closed => id \notin staging \cup marker

\* A clone whose call returned tells one story: the job succeeded exactly if
\* the row is completed, and then the repository is at its final path, is
\* registered, and no cancel of it was accepted.  A store that failed, and a
\* process that died, may leave the two apart.
OneStory ==
  \A g \in created : pc[g] = "done" /\ g \notin dropped =>
    /\ HasStatus(Op(g), Terminal)
    /\ HasStatus(Op(g), {"succeeded"}) <=> row[Op(g)].stage = "completed"
    /\ row[Op(g)].stage = "completed" =>
         /\ final[target[g]] = Op(g) /\ row[Op(g)].repository
         /\ \A by \in Principals : <<g, by>> \notin acked

\* What a start offers for a row fits what is on disk: a cleanup only while
\* the clone is not at its final path, a registration only when it is.
OffersAreSound ==
  \A g \in created : LET id == Op(g) IN
    /\ "cleanupStaging" \in offered[id] =>
         id \in staging /\ id \in marker /\ final[target[g]] # id
    /\ "retryRegistration" \in offered[id] => final[target[g]] = id
=============================================================================
