------------------------- MODULE CloneOperationProofs -------------------------
(***************************************************************************)
(* Clone, for every set of calls, ids and final paths: disk, clone row and *)
(* job, which are written one after the other and outlive the process,     *)
(* stay in step.  As in NetworkOperationProofs, the registry and the job   *)
(* table are used only through their own operations, so what is proved of  *)
(* them alone holds here too.                                              *)
(*                                                                         *)
(* CloneInv says of each call what its step implies about all three.       *)
(* GuardOK is about the registry guard, JobOK about which calls have a job *)
(* and a row, StepOK about what is on disk and in the row at each step,    *)
(* DiskOK about what lasts when the call is over, and StoryOK about job    *)
(* and row.  None is inductive without the others: that nothing is at the  *)
(* final path while the staging directory is (DiskOK) needs StepOK before  *)
(* the rename and OneJobEach, for a second call may use the same id; that  *)
(* a closed row leaves nothing (ClosedLeavesNothing) needs StepOK at the   *)
(* steps that close one, and, for a row closed by a start, ProcessInv: no  *)
(* call is at work while a row is still to be classified.                  *)
(***************************************************************************)
EXTENDS CloneOperation, SharedTablesProofs

Steps == InFlight \cup {"idle", "done", "lost"}

\* The steps at which the guard is bound, those at which it is gone, and those
\* from the creation of the job on.
Bound     == InFlight \ {"bind", "succeed", "seal", "partial", "partialJob"}
Unguarded == {"succeed", "seal", "done", "lost"}
HasJob    == InFlight \ {"bind", "create"}

\* The steps before the first write to the disk, before the rename, behind it.
Untouched    == {"insert", "start", "marker"}
BeforeRename == Untouched \cup {"transfer", "transferring", "checkout", "rename"}
AfterRename  == {"persist", "register", "attach", "unmark", "complete", "finish",
                 "succeed", "seal"}

RowRecord == [stage : {"absent", "working", "partial"} \cup Closed,
              filesystem : BOOLEAN, repository : BOOLEAN]

\* The types of what the calls, the disk and the start-up keep.
CloneTypes ==
  /\ pc \in [Guards -> Steps]
  /\ target \in [Guards -> Resources \cup {None}]
  /\ created \subseteq Guards
  /\ staging \subseteq Ids /\ marker \subseteq Ids
  /\ final \in [Resources -> Ids \cup {None, Foreign}]
  /\ row \in [Ids -> RowRecord]
  /\ unclassified \subseteq Ids
  /\ offered \in [Ids -> SUBSET {"cleanupStaging", "retryClone", "retryRegistration",
                                 "unsafePath", "interrupted"}]
  /\ dropped \subseteq Guards

\* Something of the clone is at a final path.
AtFinal(id) == \E p \in Resources : final[p] = id

\* A call has a guard from its command on, bound to its final path from Bind
\* to its end; of a clone that became partial it may be gone before.
GuardOK(g) ==
  /\ pc[g] = "idle" <=> guard[g] = Unused
  /\ pc[g] # "idle" => target[g] \in Resources
  /\ pc[g] = "bind" => Active(g) /\ guard[g].resource = None
  /\ pc[g] \in Bound => Active(g) /\ guard[g].resource = target[g]
  /\ pc[g] \in Unguarded => guard[g].state = "gone"

\* From Create on a call has a job.
JobOK(g) ==
  /\ pc[g] \in HasJob => g \in created
  /\ g \in created => pc[g] \notin {"idle", "bind", "create"} /\ Exists(Op(g))

\* What disk and row are at each step of a call that has a job.
StepOK(g) ==
  /\ pc[g] = "insert" => row[Op(g)] = NoRow
  /\ pc[g] \in Untouched \cup {"close"} => Op(g) \notin staging \cup marker
  /\ pc[g] \in {"transfer", "undoMarker"} => Op(g) \notin staging
  /\ pc[g] \in BeforeRename \ Untouched => Op(g) \in marker
  /\ pc[g] \in {"transferring", "checkout", "rename"} => Op(g) \in staging
  /\ pc[g] \in BeforeRename => ~AtFinal(Op(g)) /\ row[Op(g)].stage \notin Closed
  /\ pc[g] \in AfterRename => final[target[g]] = Op(g)
  /\ pc[g] \in AfterRename \ {"persist", "register"} => row[Op(g)].repository
  /\ pc[g] \in {"complete", "finish", "succeed", "seal"} => Op(g) \notin marker
  /\ pc[g] \in {"finish", "succeed", "seal"} => row[Op(g)].stage = "completed"

\* What lasts: a clone at its final path is at that of its call, and nowhere
\* in the staging directory; the row is right about the two.
DiskOK(g) ==
  /\ \A p \in Resources : final[p] = Op(g) => p = target[g] /\ Op(g) \notin staging
  /\ row[Op(g)].filesystem => final[target[g]] = Op(g)
  /\ row[Op(g)].stage = "completed" => final[target[g]] = Op(g) /\ row[Op(g)].repository
  /\ offered[Op(g)] # {} => pc[g] \in {"done", "lost"}

\* A job that succeeded is that of a clone the registry completed, and but for
\* a refused write its row is completed; a call that is over closed its job.
StoryOK(g) ==
  /\ pc[g] \in {"succeed", "seal"} => told[g] = "completed"
  /\ pc[g] = "seal" => HasStatus(Op(g), {"succeeded"})
  /\ HasStatus(Op(g), {"succeeded"}) =>
       /\ told[g] = "completed"
       /\ \/ g \in dropped
          \/ pc[g] \in {"seal", "done", "lost"} /\ row[Op(g)].stage = "completed"
  /\ pc[g] = "closeJob" => g \in dropped \/ row[Op(g)].stage \in {"failed", "cancelled"}
  /\ pc[g] = "partialJob" => g \in dropped \/ row[Op(g)].stage = "partial"
  /\ pc[g] = "done" /\ g \notin dropped =>
       /\ HasStatus(Op(g), Terminal)
       /\ row[Op(g)].stage = "completed" => HasStatus(Op(g), {"succeeded"})

\* What holds of every call, and of those that have a job.
CallInv ==
  /\ \A g \in Guards : GuardOK(g) /\ JobOK(g)
  /\ \A g \in created : StepOK(g) /\ DiskOK(g) /\ StoryOK(g)

\* Two calls that created a job did so under different ids.
OneJobEach == \A g, h \in created : Op(g) = Op(h) => g = h

\* An id without a job has no row, nothing on disk, and is offered nothing.
NewIdInv ==
  \A id \in Ids : ~Exists(id) =>
    /\ row[id] = NoRow /\ id \notin staging \cup marker
    /\ offered[id] = {} /\ ~AtFinal(id)

\* No call is at work in a process that is not up, or while a row is still to
\* be classified; and such a row is open.
ProcessInv ==
  /\ process # "up" => unclassified = {}
  /\ ~Ready => \A g \in Guards : pc[g] \in {"idle", "done", "lost"}
  /\ \A id \in unclassified : row[id] # NoRow /\ row[id].stage \notin Closed

\* The inductive invariant.
CloneInv ==
  /\ JobsInv /\ process \in {"up", "down", "starting"} /\ RegInv /\ CloneTypes
  /\ CallInv /\ OneJobEach /\ NewIdInv /\ ProcessInv
  /\ ClosedLeavesNothing /\ OffersAreSound
-----------------------------------------------------------------------------
\* What a call is at each of its steps.
LEMMA CallFacts ==
  ASSUME CloneInv, NEW g \in Guards
  PROVE  /\ pc[g] \in Steps /\ GuardOK(g) /\ JobOK(g)
         /\ g \in created => StepOK(g) /\ DiskOK(g) /\ StoryOK(g)
         /\ pc[g] # "idle" => target[g] \in Resources /\ Op(g) \in Ids
         /\ guard[g] \in GuardRec /\ (Active(g) => Op(g) \in Ids)
<1>1. /\ pc[g] \in Steps /\ GuardOK(g) /\ JobOK(g)
      /\ g \in created => StepOK(g) /\ DiskOK(g) /\ StoryOK(g)
  BY DEF CloneInv, CallInv, CloneTypes
<1>2. guard[g] \in GuardRec
  BY DEF CloneInv, RegInv, RegTypeOK
<1>3. guard[g] # Unused => Op(g) \in Ids
  BY <1>2 DEF GuardRec, Unused, Op
<1> QED
  BY <1>1, <1>2, <1>3 DEF GuardOK, Active, Unused

\* What is on disk of a clone, what its row says, and what is offered for it
\* stay as they are.
SameDisk(id) ==
  /\ row'[id] = row[id] /\ offered'[id] = offered[id]
  /\ id \in staging' <=> id \in staging
  /\ id \in marker' <=> id \in marker
  /\ \A p \in Resources : final'[p] = id <=> final[p] = id

\* What a step of the call g leaves alone.
Frame(g) ==
  /\ Ready /\ process' = process /\ unclassified' = unclassified /\ offered' = offered
  /\ \A h \in Guards \ {g} : /\ pc'[h] = pc[h] /\ target'[h] = target[h]
                             /\ guard'[h] = guard[h] /\ told'[h] = told[h]
  /\ created \subseteq created' /\ created' \subseteq created \cup {g}
  /\ dropped \subseteq dropped' /\ dropped' \subseteq dropped \cup {g}
  /\ \A id \in JobIds : id # Op(g) => jobs'[id] = jobs[id]
  /\ \A id \in Ids : id # Op(g) => SameDisk(id)

\* The frame, for the command and for each step of the worker.
LEMMA BeginFrame ==
  ASSUME CloneInv, NEW g \in Guards, Begin(g)
  PROVE  Frame(g)
BY DEF CloneInv, JobsInv, JobsTypeOK, RegInv, RegTypeOK, CloneTypes, Frame, SameDisk, Begin,
       Reserve, At, Goto, appVars, jobVars, diskVars, startVars

\* The steps up to the start of the job.
LEMMA EarlyFrame ==
  ASSUME CloneInv, NEW g \in Guards,
         Bind(g) \/ Create(g) \/ Reject(g) \/ InsertRow(g) \/ InsertFails(g) \/ StartJob(g)
         \/ StartRefused(g)
  PROVE  Frame(g)
<1> USE DEF CloneInv, JobsInv, JobsTypeOK, RegInv, RegTypeOK, CloneTypes, Frame, SameDisk, At,
            Goto, Release, Consume, StoreFails, SetStage, appVars, regVars, jobVars, diskVars,
            startVars
<1>1. CASE Bind(g)
  BY <1>1 DEF Bind, BindResource
<1>2. CASE Create(g)
  BY <1>2 DEF Create, CreateWithId
<1>3. CASE Reject(g)
  BY <1>3 DEF Reject
<1>4. CASE InsertRow(g)
  BY <1>4 DEF InsertRow
<1>5. CASE InsertFails(g)
  BY <1>5 DEF InsertFails, Cancel, Transition
<1>6. CASE StartJob(g)
  BY <1>6 DEF StartJob, Start, Transition
<1>7. CASE StartRefused(g)
  BY <1>7 DEF StartRefused
<1> QED
  BY <1>1, <1>2, <1>3, <1>4, <1>5, <1>6, <1>7

\* The steps up to the rename, and those that undo them.
LEMMA DiskFrame ==
  ASSUME CloneInv, NEW g \in Guards,
         WriteMarker(g) \/ Transfer(g) \/ TransferEnds(g) \/ Checkout(g) \/ Rename(g)
         \/ Undo(g) \/ UndoMarker(g) \/ Close(g) \/ CloseJob(g)
  PROVE  Frame(g)
<1> USE DEF CloneInv, JobsInv, JobsTypeOK, RegInv, RegTypeOK, CloneTypes, Frame, SameDisk, At,
            Goto, Release, Consume, StoreFails, SetStage, appVars, regVars, jobVars, diskVars,
            startVars
<1>1. CASE WriteMarker(g)
  BY <1>1 DEF WriteMarker
<1>2. CASE Transfer(g) \/ TransferEnds(g) \/ Checkout(g)
  BY <1>2 DEF Transfer, TransferEnds, Checkout
<1>3. CASE Rename(g)
  <2>1. Op(g) \in Ids /\ target[g] \in Resources
    BY <1>3, CallFacts DEF Rename
  <2> QED
    BY <1>3, <2>1, RegistryAssumption DEF Rename
<1>4. CASE Undo(g) \/ UndoMarker(g)
  BY <1>4 DEF Undo, UndoMarker
<1>5. CASE Close(g)
  BY <1>5 DEF Close
<1>6. CASE CloseJob(g)
  BY <1>6 DEF CloseJob, Cancel, Fail, Transition
<1> QED
  BY <1>1, <1>2, <1>3, <1>4, <1>5, <1>6

\* The steps behind the rename.
LEMMA LateFrame ==
  ASSUME CloneInv, NEW g \in Guards,
         Persist(g) \/ Register(g) \/ Attach(g) \/ RemoveMarker(g) \/ Complete(g) \/ Finish(g)
         \/ Succeed(g) \/ Seal(g) \/ Partial(g) \/ PartialJob(g)
  PROVE  Frame(g)
<1> USE DEF CloneInv, JobsInv, JobsTypeOK, RegInv, RegTypeOK, CloneTypes, Frame, SameDisk, At,
            Goto, Continue, Release, Consume, StoreFails, SetStage, appVars, regVars, jobVars,
            diskVars, startVars
<1>1. CASE Persist(g) \/ Register(g)
  BY <1>1 DEF Persist, Register
<1>2. CASE Attach(g) \/ RemoveMarker(g)
  BY <1>2 DEF Attach, RemoveMarker
<1>3. CASE Complete(g) \/ Partial(g)
  BY <1>3 DEF Complete, Partial
<1>4. CASE Finish(g)
  BY <1>4 DEF Finish, FinishIfNotCancelled
<1>5. CASE Succeed(g) \/ Seal(g)
  BY <1>5 DEF Succeed, Seal, SucceedStatus, SucceedProgress, LoseLock, Transition
<1>6. CASE PartialJob(g)
  BY <1>6 DEF PartialJob, Fail, Transition
<1> QED
  BY <1>1, <1>2, <1>3, <1>4, <1>5, <1>6

\* Whatever step a call makes, it leaves the others alone.
LEMMA CallFrame ==
  ASSUME CloneInv, NEW g \in Guards, Call(g)
  PROVE  Frame(g)
BY EarlyFrame, DiskFrame, LateFrame DEF Call
-----------------------------------------------------------------------------
\* Every step of a clone is a step of the registry, or leaves it alone.
LEMMA StepOfRegistry ==
  ASSUME CloneInv, [Next]_vars
  PROVE  [RegNext]_regVars
<1>1. ASSUME NEW g \in Guards, Begin(g) \/ Call(g)
      PROVE  [RegNext]_regVars
  <2>1. CASE Begin(g)
    BY <2>1 DEF Begin, RegNext
  <2>2. CASE Bind(g)
    <3>1. target[g] \in Resources
      BY <2>2, CallFacts DEF Bind, At
    <3> QED
      BY <2>2, <3>1 DEF Bind, RegNext
  <2>3. CASE \/ Reject(g) \/ InsertFails(g) \/ StartRefused(g) \/ CloseJob(g) \/ PartialJob(g)
             \/ Finish(g)
    BY <2>3 DEF Reject, InsertFails, StartRefused, CloseJob, PartialJob, Finish, RegNext
  <2>4. CASE \/ Create(g) \/ InsertRow(g) \/ StartJob(g) \/ WriteMarker(g) \/ Transfer(g)
             \/ TransferEnds(g) \/ Checkout(g) \/ Rename(g) \/ Undo(g) \/ UndoMarker(g)
             \/ Close(g)
    BY <2>4 DEF Create, InsertRow, StartJob, WriteMarker, Transfer, TransferEnds, Checkout,
       Rename, Undo, UndoMarker, Close
  <2>5. CASE \/ Persist(g) \/ Register(g) \/ Attach(g) \/ RemoveMarker(g) \/ Complete(g)
             \/ Succeed(g) \/ Seal(g) \/ Partial(g)
    BY <2>5 DEF Persist, Register, Attach, RemoveMarker, Complete, Succeed, Seal, Partial
  <2> QED
    BY <1>1, <2>1, <2>2, <2>3, <2>4, <2>5 DEF Call
<1>2. ASSUME NEW id \in Ids,
             CancelCommand(id) \/ TaskCenterCancel(id) \/ Classify(id) \/ CloseInterrupted(id)
      PROVE  [RegNext]_regVars
  BY <1>2 DEF CancelCommand, TaskCenterCancel, Classify, CloseInterrupted, RegNext
<1>3. CASE \/ \E p \in Resources : ForeignAppears(p)
           \/ Crash \/ Startup \/ UNCHANGED vars
  BY <1>3 DEF ForeignAppears, Crash, Startup, vars, RegNext
<1> QED
  BY <1>1, <1>2, <1>3 DEF Next

\* Every step of a clone is a step of the job table, or leaves it alone.
LEMMA StepOfTable ==
  ASSUME CloneInv, [Next]_vars
  PROVE  [JobsNext]_jobVars
<1>1. ASSUME NEW g \in Guards, Call(g)
      PROVE  [JobsNext]_jobVars
  <2>1. pc[g] # "idle" => Op(g) \in JobIds
    BY CallFacts, CloneAssumption
  <2>2. CASE Create(g)
    BY <2>1, <2>2 DEF Create, At, Kinds, JobsNext, Operation
  <2>3. CASE InsertFails(g) \/ StartJob(g)
    BY <2>1, <2>3 DEF InsertFails, StartJob, At, JobsNext, Operation
  <2>4. CASE CloseJob(g) \/ PartialJob(g)
    BY <2>1, <2>4 DEF CloseJob, PartialJob, At, JobsNext, Operation
  <2>5. CASE Succeed(g) \/ Seal(g)
    BY <2>1, <2>5 DEF Succeed, Seal, At, JobsNext, Operation
  <2>6. CASE \/ Bind(g) \/ Reject(g) \/ InsertRow(g) \/ StartRefused(g) \/ WriteMarker(g)
             \/ Transfer(g) \/ TransferEnds(g) \/ Checkout(g) \/ Rename(g) \/ Undo(g)
             \/ UndoMarker(g) \/ Close(g)
    BY <2>6 DEF Bind, Reject, InsertRow, StartRefused, WriteMarker, Transfer, TransferEnds,
       Checkout, Rename, Undo, UndoMarker, Close, appVars
  <2>7. CASE \/ Persist(g) \/ Register(g) \/ Attach(g) \/ RemoveMarker(g) \/ Complete(g)
             \/ Finish(g) \/ Partial(g)
    BY <2>7 DEF Persist, Register, Attach, RemoveMarker, Complete, Finish, Partial, appVars
  <2> QED
    BY <1>1, <2>2, <2>3, <2>4, <2>5, <2>6, <2>7 DEF Call
<1>2. CASE \/ \E g \in Guards : Begin(g)
           \/ \E id \in Ids : CancelCommand(id) \/ Classify(id) \/ CloseInterrupted(id)
           \/ \E p \in Resources : ForeignAppears(p)
           \/ UNCHANGED vars
  BY <1>2 DEF Begin, CancelCommand, Classify, CloseInterrupted, ForeignAppears, appVars, vars
<1>3. ASSUME NEW id \in Ids, TaskCenterCancel(id)
      PROVE  [JobsNext]_jobVars
  BY <1>3, CloneAssumption DEF TaskCenterCancel, JobsNext, Operation
<1>4. CASE Crash
  BY <1>4 DEF Crash, Die, JobsNext
<1>5. CASE Startup
  BY <1>5 DEF Startup, Boot, Sweep, JobsNext, Operation
<1> QED
  BY <1>1, <1>2, <1>3, <1>4, <1>5 DEF Next

\* So all that is proved of the two alone holds next to everything else.
LEMMA PartsStep ==
  ASSUME CloneInv, [Next]_vars, RegistryAssumption, JobsAssumption
  PROVE  /\ RegInv' /\ JobsInv'
         /\ \A g \in Guards : guard[g] # Unused => Op(g)' = Op(g) /\ guard'[g] # Unused
<1>1. RegInv'
  BY StepOfRegistry, RegStep DEF CloneInv
<1>2. JobsInv'
  BY StepOfTable, JobsNextInv DEF CloneInv
<1>3. ASSUME NEW g \in Guards, guard[g] # Unused
      PROVE  guard'[g].id = guard[g].id /\ guard'[g] # Unused
  BY <1>3, StepOfRegistry, GuardKeepsId DEF CloneInv
<1> QED
  BY <1>1, <1>2, <1>3 DEF Op

\* While a call holds its registry guard nobody was told how it ended.
LEMMA NotYetTold ==
  ASSUME CloneInv, NEW g \in Guards, Active(g)
  PROVE  told[g] = "nothing" /\ (g \in created => ~HasStatus(Op(g), {"succeeded"}))
<1>1. told[g] = "nothing"
  BY DEF CloneInv, RegInv, VerdictInv, VerdictOK, Active
<1> QED
  BY <1>1, CallFacts DEF StoryOK

-----------------------------------------------------------------------------
\* What is said of a call holds on, if nothing of it moves but its job, and
\* that does not come to have succeeded.
LEMMA CallAtRest ==
  ASSUME CloneInv, [Next]_vars, NEW h \in created, RegistryAssumption,
         pc'[h] = pc[h], target'[h] = target[h], told'[h] = told[h],
         dropped \subseteq dropped', h \in dropped' => h \in dropped,
         SameDisk(Op(h)),
         HasStatus(Op(h), {"succeeded"})' => HasStatus(Op(h), {"succeeded"})
  PROVE  StepOK(h)' /\ DiskOK(h)' /\ StoryOK(h)'
<1>1. /\ h \in Guards /\ StepOK(h) /\ DiskOK(h) /\ StoryOK(h)
      /\ pc[h] # "idle" /\ target[h] \in Resources /\ Op(h) \in JobIds
  BY CallFacts, CloneAssumption DEF CloneInv, CloneTypes, JobOK
<1>2. Op(h)' = Op(h)
  BY <1>1, StepOfRegistry, GuardKeepsId, CallFacts DEF CloneInv, GuardOK, Op
<1>3. /\ HasStatus(Op(h), Terminal) => HasStatus(Op(h), Terminal)'
      /\ HasStatus(Op(h), {"succeeded"}) => HasStatus(Op(h), {"succeeded"})'
  <2>1. JobsInv /\ [JobsNext]_jobVars
    BY StepOfTable DEF CloneInv
  <2>2. ASSUME NEW id \in JobIds, HasStatus(id, Terminal)
        PROVE  jobs'[id].status = jobs[id].status
    BY <2>1, <2>2, TerminalStatusStays
  <2>3. HasStatus(Op(h), Terminal) => jobs'[Op(h)].status = jobs[Op(h)].status
    BY <1>1, <2>2
  <2> QED
    BY <1>2, <2>3 DEF HasStatus, Terminal
<1>4. /\ AtFinal(Op(h))' <=> AtFinal(Op(h))
      /\ (final[target[h]] = Op(h))' <=> final[target[h]] = Op(h)
  BY <1>1, <1>2 DEF SameDisk, AtFinal
<1>5. StepOK(h)'
  BY <1>1, <1>2, <1>4 DEF SameDisk, StepOK
<1>6. DiskOK(h)'
  BY <1>1, <1>2, <1>4 DEF SameDisk, DiskOK
<1>7. StoryOK(h)'
  <2>1. row'[Op(h)] = row[Op(h)] /\ (h \in dropped' <=> h \in dropped)
    BY DEF SameDisk
  <2> QED
    BY <1>1, <1>2, <1>3, <2>1 DEF StoryOK, HasStatus
<1> QED
  BY <1>5, <1>6, <1>7
-----------------------------------------------------------------------------
\* A call without a job has nothing on disk, and does nothing there.
LEMMA NothingYet ==
  ASSUME CloneInv, NEW g \in Guards, Begin(g) \/ Call(g), g \notin created
  PROVE  /\ Begin(g) \/ Bind(g) \/ Create(g) \/ Reject(g)
         /\ UNCHANGED <<diskVars, row, offered, dropped>>
<1>1. pc[g] \notin HasJob
  BY CallFacts DEF JobOK
<1>2. ~(InsertRow(g) \/ InsertFails(g) \/ StartJob(g) \/ StartRefused(g) \/ WriteMarker(g)
        \/ Transfer(g) \/ TransferEnds(g) \/ Checkout(g) \/ Rename(g) \/ Persist(g))
  BY <1>1 DEF HasJob, InFlight, At, InsertRow, InsertFails, StartJob, StartRefused, WriteMarker,
     Transfer, TransferEnds, Checkout, Rename, Persist
<1>3. ~(Register(g) \/ Attach(g) \/ RemoveMarker(g) \/ Complete(g) \/ Finish(g) \/ Succeed(g)
        \/ Seal(g) \/ Undo(g) \/ UndoMarker(g) \/ Close(g) \/ CloseJob(g) \/ Partial(g)
        \/ PartialJob(g))
  BY <1>1 DEF HasJob, InFlight, Undoing, At, Register, Attach, RemoveMarker, Complete, Finish,
     Succeed, Seal, Undo, UndoMarker, Close, CloseJob, Partial, PartialJob
<1>4. Begin(g) \/ Bind(g) \/ Create(g) \/ Reject(g)
  BY <1>2, <1>3 DEF Call
<1> QED
  BY <1>4 DEF Begin, Bind, Create, Reject, startVars

\* A call leaves row, disk and job of every other call that has a job alone,
\* whatever its id is.
LEMMA OthersStep ==
  ASSUME CloneInv, NEW g \in Guards, Begin(g) \/ Call(g), NEW h \in created, h # g,
         RegistryAssumption
  PROVE  StepOK(h)' /\ DiskOK(h)' /\ StoryOK(h)' /\ SameDisk(Op(h))
<1>1. /\ h \in Guards /\ Exists(Op(h)) /\ Op(h) \in JobIds /\ Op(h) \in Ids /\ Frame(g)
      /\ [Next]_vars
  BY CallFacts, BeginFrame, CallFrame, CloneAssumption DEF CloneInv, CloneTypes, JobOK, Next
<1>2. jobs'[Op(h)] = jobs[Op(h)] /\ SameDisk(Op(h))
  <2>1. CASE Op(h) # Op(g)
    BY <1>1, <2>1 DEF Frame
  <2>2. CASE Op(h) = Op(g)
    <3>1. g \notin created
      BY <2>2 DEF CloneInv, OneJobEach
    <3>2. /\ Begin(g) \/ Bind(g) \/ Create(g) \/ Reject(g)
          /\ UNCHANGED <<staging, marker, final, row, offered>>
      BY <3>1, NothingYet DEF diskVars
    <3>3. ~Create(g)
      BY <1>1, <2>2 DEF Create, CreateWithId
    <3>4. jobs' = jobs
      BY <3>2, <3>3 DEF Begin, Bind, Reject, appVars, jobVars
    <3> QED
      BY <3>2, <3>4 DEF SameDisk
  <2> QED
    BY <2>1, <2>2
<1>3. /\ pc'[h] = pc[h] /\ target'[h] = target[h] /\ told'[h] = told[h]
      /\ dropped \subseteq dropped' /\ (h \in dropped' => h \in dropped)
  BY <1>1 DEF Frame
<1>4. HasStatus(Op(h), {"succeeded"})' => HasStatus(Op(h), {"succeeded"})
  <2>1. Op(h)' = Op(h)
    BY <1>1 DEF Frame, Op
  <2> QED
    BY <1>2, <2>1 DEF HasStatus
<1> QED
  BY <1>1, <1>2, <1>3, <1>4, CallAtRest, RegistryAssumption

-----------------------------------------------------------------------------
\* A call that makes a step is in flight.
LEMMA AtWork ==
  ASSUME NEW g \in Guards, Call(g)
  PROVE  pc[g] \in InFlight
<1> USE DEF At, InFlight, Undoing
<1>1. CASE \/ Bind(g) \/ Create(g) \/ Reject(g) \/ InsertRow(g) \/ InsertFails(g)
           \/ StartJob(g) \/ StartRefused(g) \/ WriteMarker(g) \/ Transfer(g)
           \/ TransferEnds(g)
  BY <1>1 DEF Bind, Create, Reject, InsertRow, InsertFails, StartJob, StartRefused,
     WriteMarker, Transfer, TransferEnds
<1>2. CASE \/ Checkout(g) \/ Rename(g) \/ Persist(g) \/ Register(g) \/ Attach(g)
           \/ RemoveMarker(g) \/ Complete(g) \/ Finish(g) \/ Succeed(g) \/ Seal(g)
  BY <1>2 DEF Checkout, Rename, Persist, Register, Attach, RemoveMarker, Complete, Finish,
     Succeed, Seal
<1>3. CASE Undo(g) \/ UndoMarker(g) \/ Close(g) \/ CloseJob(g) \/ Partial(g) \/ PartialJob(g)
  BY <1>3 DEF Undo, UndoMarker, Close, CloseJob, Partial, PartialJob
<1> QED
  BY <1>1, <1>2, <1>3 DEF Call

\* What a call that has a job is, at the step that it makes.
LEMMA OwnFacts ==
  ASSUME CloneInv, NEW g \in Guards, Call(g), RegistryAssumption, JobsAssumption
  PROVE  /\ Op(g)' = Op(g) /\ Op(g) \in Ids /\ Op(g) \in JobIds
         /\ target'[g] = target[g] /\ target[g] \in Resources
         /\ offered' = offered
<1>1. pc[g] \in InFlight
  BY AtWork
<1>2. pc[g] # "idle" /\ GuardOK(g) /\ Op(g) \in Ids /\ target[g] \in Resources
  BY <1>1, CallFacts DEF InFlight, Undoing
<1>3. Op(g)' = Op(g)
  <2>1. [Next]_vars /\ guard[g] # Unused
    BY <1>2 DEF Next, GuardOK
  <2> QED
    BY <2>1, PartsStep
<1>4. target' = target
  <2>1. CASE \/ Bind(g) \/ Create(g) \/ Reject(g) \/ InsertRow(g) \/ InsertFails(g)
             \/ StartJob(g) \/ StartRefused(g) \/ WriteMarker(g) \/ Transfer(g)
             \/ TransferEnds(g)
    BY <2>1 DEF Bind, Create, Reject, InsertRow, InsertFails, StartJob, StartRefused,
       WriteMarker, Transfer, TransferEnds
  <2>2. CASE \/ Checkout(g) \/ Rename(g) \/ Persist(g) \/ Register(g) \/ Attach(g)
             \/ RemoveMarker(g) \/ Complete(g) \/ Finish(g) \/ Succeed(g) \/ Seal(g)
    BY <2>2 DEF Checkout, Rename, Persist, Register, Attach, RemoveMarker, Complete, Finish,
       Succeed, Seal
  <2>3. CASE Undo(g) \/ UndoMarker(g) \/ Close(g) \/ CloseJob(g) \/ Partial(g) \/ PartialJob(g)
    BY <2>3 DEF Undo, UndoMarker, Close, CloseJob, Partial, PartialJob
  <2> QED
    BY <2>1, <2>2, <2>3 DEF Call
<1>5. offered' = offered
  BY CallFrame DEF Frame
<1> QED
  BY <1>2, <1>3, <1>4, <1>5, CloneAssumption

\* A write to the job of a call.
LEMMA OwnTransition ==
  ASSUME CloneInv, NEW id \in JobIds, NEW status, Transition(id, status)
  PROVE  jobs'[id].status = status
BY TransitionType DEF CloneInv, JobsInv

\* All that is said of a call that has a job, and of its closed row.
Own(g) ==
  /\ StepOK(g) /\ DiskOK(g) /\ StoryOK(g)
  /\ Op(g) \in staging => Op(g) \in marker
  /\ row[Op(g)].stage \in Closed => Op(g) \notin staging \cup marker

\* It holds of a call in every state.
LEMMA OwnNow ==
  ASSUME CloneInv, NEW g \in created
  PROVE  Own(g) /\ pc[g] \in Steps /\ row[Op(g)] \in RowRecord /\ Op(g) \in Ids
         /\ target[g] \in Resources /\ GuardOK(g) /\ pc[g] \notin {"idle", "bind", "create"}
<1>1. g \in Guards
  BY DEF CloneInv, CloneTypes
<1>2. pc[g] \notin {"idle", "bind", "create"}
  BY <1>1, CallFacts DEF JobOK
<1> QED
  BY <1>1, <1>2, CallFacts DEF CloneInv, CloneTypes, ClosedLeavesNothing, Own

\* A new job has an id of its own, with nothing on disk.
LEMMA OwnCreate ==
  ASSUME CloneInv, NEW g \in Guards, Create(g), RegistryAssumption, JobsAssumption
  PROVE  Own(g)' /\ ~Exists(Op(g))
<1>1. /\ Op(g)' = Op(g) /\ Op(g) \in Ids /\ Op(g) \in JobIds /\ offered' = offered
      /\ target'[g] = target[g]
  BY OwnFacts DEF Call
<1>2. /\ pc' = [pc EXCEPT ![g] = "insert"] /\ ~Exists(Op(g))
      /\ UNCHANGED <<staging, marker, final, row>>
  BY DEF Create, Goto, CreateWithId, diskVars
<1>3. jobs'[Op(g)].status = "queued"
  BY <1>1 DEF Create, CreateWithId, CloneInv, JobsInv, JobsTypeOK
<1>4. row[Op(g)] = NoRow /\ Op(g) \notin staging \cup marker /\ offered[Op(g)] = {}
      /\ ~AtFinal(Op(g))
  BY <1>1, <1>2 DEF CloneInv, NewIdInv
<1>5. pc'[g] = "insert"
  BY <1>2 DEF CloneInv, CloneTypes
<1>6. row'[Op(g)] = NoRow /\ NoRow.stage = "absent" /\ NoRow.filesystem = FALSE
  BY <1>2, <1>4 DEF NoRow
<1>7. StepOK(g)'
  BY <1>1, <1>2, <1>4, <1>5, <1>6 DEF StepOK, Untouched, BeforeRename, AfterRename, AtFinal, Closed
<1>8. DiskOK(g)'
  BY <1>1, <1>2, <1>4, <1>5, <1>6 DEF DiskOK, AtFinal
<1>9. StoryOK(g)'
  BY <1>1, <1>3, <1>5 DEF StoryOK, HasStatus
<1> QED
  BY <1>1, <1>2, <1>4, <1>6, <1>7, <1>8, <1>9 DEF Own, Closed

\* The row is inserted, and the job is started; or the call ends before it has
\* touched the disk.
LEMMA OwnEarly ==
  ASSUME CloneInv, NEW g \in created,
         InsertRow(g) \/ InsertFails(g) \/ StartJob(g) \/ StartRefused(g),
         RegistryAssumption, JobsAssumption
  PROVE  Own(g)'
<1>0. g \in Guards /\ Call(g)
  BY DEF CloneInv, CloneTypes, Call
<1>1. /\ Op(g)' = Op(g) /\ Op(g) \in Ids /\ Op(g) \in JobIds /\ offered' = offered
      /\ target'[g] = target[g] /\ target[g] \in Resources
      /\ Own(g) /\ GuardOK(g) /\ pc \in [Guards -> Steps] /\ row \in [Ids -> RowRecord]
  BY <1>0, OwnFacts, OwnNow DEF CloneInv, CloneTypes
<1>2. /\ pc[g] \in {"insert", "start"} /\ UNCHANGED <<staging, marker, final>>
      /\ dropped \subseteq dropped'
  BY DEF InsertRow, InsertFails, StartJob, StartRefused, At, diskVars, StoreFails
<1>3. /\ Op(g) \notin staging \cup marker /\ ~AtFinal(Op(g)) /\ row[Op(g)].stage \notin Closed
      /\ ~row[Op(g)].filesystem
  BY <1>1, <1>2 DEF Own, StepOK, DiskOK, Untouched, BeforeRename, AtFinal
<1>4. ~HasStatus(Op(g), {"succeeded"})
  BY <1>0, <1>1, <1>2, NotYetTold DEF GuardOK, Bound, InFlight
<1>5. ASSUME NEW step, Goto(g, step)
      PROVE  pc'[g] = step
  BY <1>0, <1>1, <1>5 DEF Goto
<1>6. /\ \/ pc'[g] \in {"start", "marker"}
         \/ pc'[g] = "done" /\ (g \in dropped' \/ HasStatus(Op(g), Terminal)')
      /\ ~HasStatus(Op(g), {"succeeded"})'
  <2>1. CASE InsertRow(g)
    BY <1>1, <1>4, <1>5, <2>1 DEF InsertRow, appVars, jobVars, HasStatus
  <2>2. CASE InsertFails(g)
    <3>1. jobs'[Op(g)].status = "canceled" \/ UNCHANGED jobs
      BY <1>1, <2>2, OwnTransition DEF InsertFails, Cancel, jobVars
    <3> QED
      BY <1>1, <1>4, <1>5, <2>2, <3>1 DEF InsertFails, StoreFails, HasStatus
  <2>3. CASE StartJob(g)
    <3>1. jobs'[Op(g)].status = "running"
      BY <1>1, <2>3, OwnTransition DEF StartJob, Start
    <3> QED
      BY <1>1, <1>5, <2>3, <3>1 DEF StartJob, HasStatus
  <2>4. CASE StartRefused(g)
    BY <1>1, <1>4, <1>5, <2>4 DEF StartRefused, appVars, jobVars, HasStatus
  <2> QED
    BY <2>1, <2>2, <2>3, <2>4
<1>7. /\ row'[Op(g)].stage # "completed" /\ ~row'[Op(g)].filesystem
      /\ pc'[g] \in {"start", "marker"} => row'[Op(g)].stage \notin Closed
  <2>1. CASE row' = row
    BY <1>3, <2>1 DEF Closed
  <2>2. CASE InsertRow(g)
    <3>1. row'[Op(g)] = [NoRow EXCEPT !.stage = "working"]
      BY <1>1, <2>2 DEF InsertRow
    <3> QED
      BY <3>1 DEF NoRow, Closed
  <2>3. CASE StartRefused(g) /\ SetStage(g, "failed")
    <3>1. row'[Op(g)] = [row[Op(g)] EXCEPT !.stage = "failed"]
      BY <1>1, <2>3 DEF SetStage
    <3>2. row'[Op(g)].stage = "failed" /\ row'[Op(g)].filesystem = row[Op(g)].filesystem
      BY <1>1, <3>1 DEF RowRecord
    <3> QED
      BY <1>3, <1>5, <2>3, <3>2 DEF StartRefused
  <2> QED
    BY <2>1, <2>2, <2>3 DEF InsertFails, StartJob, StartRefused
<1>8. StepOK(g)'
  BY <1>1, <1>2, <1>3, <1>6, <1>7 DEF StepOK, Untouched, BeforeRename, AfterRename, AtFinal
<1>9. DiskOK(g)'
  <2>1. offered[Op(g)] = {}
    BY <1>1, <1>2 DEF Own, DiskOK
  <2> QED
    BY <1>1, <1>2, <1>3, <1>7, <2>1 DEF DiskOK, AtFinal
<1>10. StoryOK(g)'
  BY <1>1, <1>6, <1>7 DEF StoryOK, HasStatus
<1> QED
  BY <1>1, <1>2, <1>3, <1>8, <1>9, <1>10 DEF Own

\* Marker, staging directory, checkout: the row stays open and nothing is yet
\* at the final path.
LEMMA OwnTransfer ==
  ASSUME CloneInv, NEW g \in created,
         WriteMarker(g) \/ Transfer(g) \/ TransferEnds(g) \/ Checkout(g),
         RegistryAssumption, JobsAssumption
  PROVE  Own(g)'
<1>0. g \in Guards /\ Call(g)
  BY DEF CloneInv, CloneTypes, Call
<1>1. /\ Op(g)' = Op(g) /\ Op(g) \in Ids /\ offered' = offered
      /\ target'[g] = target[g] /\ target[g] \in Resources
      /\ Own(g) /\ GuardOK(g) /\ pc \in [Guards -> Steps]
  BY <1>0, OwnFacts, OwnNow DEF CloneInv, CloneTypes
<1>2. /\ UNCHANGED <<final, row, jobs, told>>
      /\ pc[g] \in {"marker", "transfer", "transferring", "checkout"}
  BY DEF WriteMarker, Transfer, TransferEnds, Checkout, At, diskVars, appVars, jobVars, regVars
<1>3. /\ ~AtFinal(Op(g)) /\ row[Op(g)].stage \notin Closed /\ ~row[Op(g)].filesystem
      /\ offered[Op(g)] = {}
  BY <1>1, <1>2 DEF Own, StepOK, DiskOK, Untouched, BeforeRename, AtFinal
<1>4. ~HasStatus(Op(g), {"succeeded"})
  BY <1>0, <1>1, <1>2, NotYetTold DEF GuardOK, Bound, InFlight
<1>5. ASSUME NEW step, Goto(g, step)
      PROVE  pc'[g] = step
  BY <1>0, <1>1, <1>5 DEF Goto
<1>6. /\ pc'[g] \in {"transfer", "transferring", "checkout", "rename", "undo"}
      /\ Op(g) \in staging' => Op(g) \in marker'
      /\ pc'[g] = "transfer" => Op(g) \notin staging'
      /\ pc'[g] \in {"transfer", "transferring", "checkout", "rename"} => Op(g) \in marker'
      /\ pc'[g] \in {"transferring", "checkout", "rename"} => Op(g) \in staging'
  <2>1. CASE WriteMarker(g)
    <3>1. pc[g] = "marker" /\ staging' = staging /\ Op(g) \notin staging
      BY <1>1, <2>1 DEF WriteMarker, At, Own, StepOK, Untouched
    <3>2. \/ marker' = marker \cup {Op(g)} /\ pc'[g] = "transfer"
          \/ pc'[g] = "undo"
      BY <1>5, <2>1 DEF WriteMarker, StoreFails
    <3> QED
      BY <3>1, <3>2
  <2>2. CASE Transfer(g) \/ TransferEnds(g) \/ Checkout(g)
    <3>1. marker' = marker /\ Op(g) \in marker
      BY <1>1, <1>2, <2>2 DEF Transfer, TransferEnds, Checkout, At, Own, StepOK, Untouched,
         BeforeRename, diskVars
    <3>2. pc[g] \in {"transferring", "checkout"} => Op(g) \in staging
      BY <1>1 DEF Own, StepOK
    <3>3. \/ pc'[g] = "undo"
          \/ pc'[g] \in {"transferring", "checkout", "rename"} /\ Op(g) \in staging'
      BY <1>5, <2>2, <3>2 DEF Transfer, TransferEnds, Checkout, At, diskVars
    <3> QED
      BY <3>1, <3>3
  <2> QED
    BY <2>1, <2>2
<1>7. StepOK(g)'
  BY <1>1, <1>2, <1>3, <1>6 DEF StepOK, Untouched, BeforeRename, AfterRename, AtFinal
<1>8. DiskOK(g)'
  BY <1>1, <1>2, <1>3 DEF DiskOK, AtFinal, Closed
<1>9. StoryOK(g)'
  BY <1>1, <1>2, <1>4, <1>6 DEF StoryOK, HasStatus
<1> QED
  BY <1>1, <1>2, <1>3, <1>6, <1>7, <1>8, <1>9 DEF Own

\* The rename moves what is in the staging directory to a path that is free.
LEMMA OwnRename ==
  ASSUME CloneInv, NEW g \in created, Rename(g), RegistryAssumption, JobsAssumption
  PROVE  Own(g)'
<1>0. g \in Guards /\ Call(g)
  BY DEF CloneInv, CloneTypes, Call
<1>1. /\ Op(g)' = Op(g) /\ Op(g) \in Ids /\ offered' = offered
      /\ target'[g] = target[g] /\ target[g] \in Resources
      /\ Own(g) /\ GuardOK(g) /\ pc \in [Guards -> Steps]
      /\ final \in [Resources -> Ids \cup {None, Foreign}]
  BY <1>0, OwnFacts, OwnNow DEF CloneInv, CloneTypes
<1>2. UNCHANGED <<marker, row, jobs, told, dropped>> /\ pc[g] = "rename"
  BY DEF Rename, At, appVars, jobVars, regVars
<1>3. /\ ~AtFinal(Op(g)) /\ row[Op(g)].stage \notin Closed /\ ~row[Op(g)].filesystem
      /\ offered[Op(g)] = {} /\ Op(g) \in marker
  BY <1>1, <1>2 DEF Own, StepOK, DiskOK, Untouched, BeforeRename, AtFinal
<1>4. ~HasStatus(Op(g), {"succeeded"})
  BY <1>0, <1>1, <1>2, NotYetTold DEF GuardOK, Bound, InFlight
<1>5. \/ /\ pc'[g] = "persist" /\ Op(g) \notin staging'
         /\ \A p \in Resources : final'[p] = Op(g) <=> p = target[g]
      \/ pc'[g] = "partial" /\ UNCHANGED <<final, staging>>
  BY <1>0, <1>1, <1>3 DEF Rename, Goto, AtFinal
<1>6. StepOK(g)'
  BY <1>1, <1>2, <1>3, <1>5 DEF StepOK, Untouched, BeforeRename, AfterRename
<1>7. DiskOK(g)'
  BY <1>1, <1>2, <1>3, <1>5 DEF DiskOK, AtFinal, Closed
<1>8. StoryOK(g)'
  BY <1>1, <1>2, <1>4, <1>5 DEF StoryOK, HasStatus
<1> QED
  BY <1>1, <1>2, <1>3, <1>6, <1>7, <1>8 DEF Own

\* A failure before the rename is undone in this order: staging, marker, row
\* and job.
LEMMA OwnUndo ==
  ASSUME CloneInv, NEW g \in created,
         Undo(g) \/ UndoMarker(g) \/ Close(g) \/ CloseJob(g),
         RegistryAssumption, JobsAssumption
  PROVE  Own(g)'
<1>0. g \in Guards /\ Call(g)
  BY DEF CloneInv, CloneTypes, Call
<1>1. /\ Op(g)' = Op(g) /\ Op(g) \in Ids /\ Op(g) \in JobIds /\ offered' = offered
      /\ target'[g] = target[g] /\ target[g] \in Resources
      /\ Own(g) /\ GuardOK(g) /\ pc \in [Guards -> Steps] /\ row \in [Ids -> RowRecord]
  BY <1>0, OwnFacts, OwnNow DEF CloneInv, CloneTypes
<1>2. /\ pc[g] \in {"undo", "undoMarker", "close", "closeJob"} /\ UNCHANGED final
      /\ dropped \subseteq dropped'
  BY DEF Undo, UndoMarker, Close, CloseJob, At, diskVars
<1>3. offered[Op(g)] = {}
  BY <1>1, <1>2 DEF Own, DiskOK
<1>4. ~HasStatus(Op(g), {"succeeded"})
  BY <1>0, <1>1, <1>2, NotYetTold DEF GuardOK, Bound, InFlight, Undoing
<1>5. ASSUME NEW step, Goto(g, step)
      PROVE  pc'[g] = step
  BY <1>0, <1>1, <1>5 DEF Goto
<1>6. CASE Undo(g) \/ UndoMarker(g)
  <2>1. /\ UNCHANGED <<row, jobs, told, dropped>> /\ pc[g] \in {"undo", "undoMarker"}
        /\ pc'[g] \in {"undoMarker", "close", "partial"}
        /\ pc'[g] = "undoMarker" => Op(g) \notin staging'
        /\ pc'[g] = "close" => Op(g) \notin staging' \cup marker'
        /\ Op(g) \in staging' => Op(g) \in staging /\ Op(g) \in marker'
        /\ Op(g) \in marker' => Op(g) \in marker
    <3>1. CASE Undo(g)
      BY <1>1, <1>5, <3>1 DEF Undo, At, Own, appVars, jobVars, regVars
    <3>2. CASE UndoMarker(g)
      <4>1. Op(g) \notin staging
        BY <1>1, <3>2 DEF UndoMarker, At, Own, StepOK
      <4> QED
        BY <1>5, <3>2, <4>1 DEF UndoMarker, At, appVars, jobVars, regVars
    <3> QED
      BY <1>6, <3>1, <3>2
  <2>2. StepOK(g)'
    BY <1>1, <2>1 DEF StepOK, Untouched, BeforeRename, AfterRename
  <2>3. DiskOK(g)'
    BY <1>1, <1>2, <1>3, <2>1 DEF Own, DiskOK
  <2>4. StoryOK(g)'
    BY <1>1, <1>4, <2>1 DEF StoryOK, HasStatus
  <2> QED
    BY <1>1, <2>1, <2>2, <2>3, <2>4 DEF Own
<1>7. CASE Close(g)
  <2>1. /\ UNCHANGED <<staging, marker, jobs, told>> /\ pc[g] = "close" /\ pc'[g] = "closeJob"
    BY <1>5, <1>7 DEF Close, At, diskVars, appVars, jobVars, regVars
  <2>2. Op(g) \notin staging \cup marker
    BY <1>1, <2>1 DEF Own, StepOK
  <2>3. \/ row'[Op(g)].stage \in {"failed", "cancelled"}
           /\ row'[Op(g)].filesystem = row[Op(g)].filesystem
        \/ row' = row /\ g \in dropped'
    BY <1>1, <1>7 DEF Close, SetStage, RowRecord
  <2>4. StepOK(g)'
    BY <1>1, <2>1 DEF StepOK, Untouched, BeforeRename, AfterRename
  <2>5. DiskOK(g)'
    BY <1>1, <1>2, <1>3, <2>1, <2>3 DEF Own, DiskOK
  <2>6. StoryOK(g)'
    BY <1>1, <1>4, <2>1, <2>3 DEF StoryOK, HasStatus
  <2> QED
    BY <1>1, <2>1, <2>2, <2>4, <2>5, <2>6 DEF Own
<1>8. CASE CloseJob(g)
  <2>1. /\ UNCHANGED <<staging, marker, row>> /\ pc[g] = "closeJob" /\ pc'[g] = "done"
    BY <1>5, <1>8 DEF CloseJob, At, diskVars
  <2>2. g \in dropped \/ row[Op(g)].stage \in {"failed", "cancelled"}
    BY <1>1, <2>1 DEF Own, StoryOK
  <2>3. /\ HasStatus(Op(g), Terminal)' \/ g \in dropped'
        /\ ~HasStatus(Op(g), {"succeeded"})'
    <3>1. CASE Fail(Op(g)) \/ Cancel(Op(g))
      <4>1. jobs'[Op(g)].status \in {"failed", "canceled"}
        BY <1>1, <3>1, OwnTransition DEF Fail, Cancel
      <4> QED
        BY <1>1, <4>1 DEF HasStatus, Terminal
    <3>2. CASE UNCHANGED jobVars /\ (HasStatus(Op(g), Terminal) \/ g \in dropped')
      BY <1>1, <1>4, <3>2 DEF HasStatus, jobVars
    <3> QED
      BY <1>8, <3>1, <3>2 DEF CloseJob
  <2>4. StepOK(g)'
    BY <1>1, <2>1 DEF StepOK, Untouched, BeforeRename, AfterRename
  <2>5. DiskOK(g)'
    BY <1>1, <1>2, <1>3, <2>1 DEF Own, DiskOK
  <2>6. StoryOK(g)'
    BY <1>1, <1>2, <2>1, <2>2, <2>3 DEF StoryOK, HasStatus
  <2> QED
    BY <1>1, <2>1, <2>4, <2>5, <2>6 DEF Own
<1> QED
  BY <1>6, <1>7, <1>8

\* Behind the rename the row, the marker and the repository follow the disk,
\* up to the completed row.
LEMMA OwnRegister ==
  ASSUME CloneInv, NEW g \in created,
         Persist(g) \/ Register(g) \/ Attach(g) \/ RemoveMarker(g) \/ Complete(g),
         RegistryAssumption, JobsAssumption
  PROVE  Own(g)'
<1>0. g \in Guards /\ Call(g)
  BY DEF CloneInv, CloneTypes, Call
<1>1. /\ Op(g)' = Op(g) /\ Op(g) \in Ids /\ offered' = offered
      /\ target'[g] = target[g] /\ target[g] \in Resources
      /\ Own(g) /\ GuardOK(g) /\ pc \in [Guards -> Steps] /\ row \in [Ids -> RowRecord]
  BY <1>0, OwnFacts, OwnNow DEF CloneInv, CloneTypes
<1>2. /\ pc[g] \in {"persist", "register", "attach", "unmark", "complete"}
      /\ UNCHANGED <<final, staging, jobs, told>> /\ dropped \subseteq dropped'
  BY DEF Persist, Register, Attach, RemoveMarker, Complete, At, StoreFails, diskVars, appVars,
     jobVars, regVars
<1>3. /\ final[target[g]] = Op(g) /\ offered[Op(g)] = {}
      /\ Op(g) \notin staging
      /\ \A p \in Resources : final[p] = Op(g) => p = target[g]
  BY <1>1, <1>2 DEF Own, StepOK, DiskOK, AfterRename
<1>4. ~HasStatus(Op(g), {"succeeded"})
  BY <1>0, <1>1, <1>2, NotYetTold DEF GuardOK, Bound, InFlight
<1>5. ASSUME NEW step, Goto(g, step)
      PROVE  pc'[g] = step
  BY <1>0, <1>1, <1>5 DEF Goto
<1>6. ASSUME NEW step, Continue(g, step)
      PROVE  pc'[g] \in {step, "partial"}
  BY <1>5, <1>6 DEF Continue
<1>7. row[Op(g)] \in RowRecord
  BY <1>1
<1>8. /\ pc'[g] \in {"register", "attach", "unmark", "complete", "finish", "partial"}
      /\ pc'[g] \in {"attach", "unmark", "complete", "finish"} => row'[Op(g)].repository
      /\ pc'[g] \in {"complete", "finish"} => Op(g) \notin marker'
      /\ pc'[g] = "finish" => row'[Op(g)].stage = "completed"
      /\ Op(g) \in marker' => Op(g) \in marker
      /\ \/ row'[Op(g)].stage = row[Op(g)].stage
         \/ row'[Op(g)].stage = "completed" /\ Op(g) \notin marker'
      /\ row[Op(g)].repository => row'[Op(g)].repository
      /\ row'[Op(g)].stage = "completed" => row'[Op(g)].repository
  <2>0. row[Op(g)].stage = "completed" => row[Op(g)].repository
    BY <1>1 DEF Own, DiskOK
  <2>1. CASE Persist(g)
    <3>1. pc'[g] \in {"register", "partial"} /\ marker' = marker
      BY <1>5, <1>6, <2>1 DEF Persist, StoreFails, diskVars
    <3>2. \/ row' = row
          \/ row'[Op(g)] = [row[Op(g)] EXCEPT !.filesystem = TRUE]
      BY <1>1, <2>1 DEF Persist
    <3>3. /\ row'[Op(g)].stage = row[Op(g)].stage
          /\ row'[Op(g)].repository = row[Op(g)].repository
      BY <1>7, <3>2 DEF RowRecord
    <3> QED
      BY <2>0, <3>1, <3>3
  <2>2. CASE Register(g)
    <3>1. marker' = marker
      BY <2>2 DEF Register, diskVars
    <3>2. \/ row' = row /\ pc'[g] = "partial"
          \/ /\ row'[Op(g)] = [row[Op(g)] EXCEPT !.repository = TRUE]
             /\ pc'[g] \in {"attach", "partial"}
      BY <1>1, <1>5, <1>6, <2>2 DEF Register
    <3>3. /\ row'[Op(g)].stage = row[Op(g)].stage
          /\ row[Op(g)].repository \/ pc'[g] = "attach" => row'[Op(g)].repository
      BY <1>7, <3>2 DEF RowRecord
    <3> QED
      BY <2>0, <3>1, <3>2, <3>3
  <2>3. CASE Attach(g) \/ RemoveMarker(g)
    <3>1. row' = row /\ row[Op(g)].repository
      BY <1>1, <2>3 DEF Attach, RemoveMarker, At, Own, StepOK, AfterRename
    <3>2. CASE Attach(g)
      BY <1>5, <1>6, <2>0, <3>1, <3>2 DEF Attach, diskVars
    <3>3. CASE RemoveMarker(g)
      BY <1>5, <1>6, <2>0, <3>1, <3>3 DEF RemoveMarker
    <3> QED
      BY <2>3, <3>2, <3>3
  <2>4. CASE Complete(g)
    <3>1. marker' = marker /\ row[Op(g)].repository /\ Op(g) \notin marker
      BY <1>1, <2>4 DEF Complete, At, Own, StepOK, AfterRename, diskVars
    <3>2. \/ row' = row /\ pc'[g] = "partial"
          \/ /\ row'[Op(g)] = [row[Op(g)] EXCEPT !.stage = "completed"]
             /\ pc'[g] = "finish"
      BY <1>1, <1>5, <2>4 DEF Complete, SetStage, StoreFails
    <3>3. /\ row'[Op(g)].repository = row[Op(g)].repository
          /\ pc'[g] = "finish" => row'[Op(g)].stage = "completed"
          /\ pc'[g] = "partial" => row'[Op(g)].stage = row[Op(g)].stage
      BY <1>7, <3>2 DEF RowRecord
    <3> QED
      BY <2>0, <3>1, <3>2, <3>3
  <2> QED
    BY <2>1, <2>2, <2>3, <2>4
<1>9. StepOK(g)'
  BY <1>1, <1>2, <1>3, <1>8 DEF StepOK, Untouched, BeforeRename, AfterRename
<1>10. DiskOK(g)'
  BY <1>1, <1>2, <1>3, <1>8 DEF DiskOK
<1>11. StoryOK(g)'
  BY <1>1, <1>2, <1>4, <1>8 DEF StoryOK, HasStatus
<1> QED
  BY <1>1, <1>2, <1>3, <1>8, <1>9, <1>10, <1>11 DEF Own

\* The verdict of the registry, and the two writes of a job that succeeds.
LEMMA OwnVerdict ==
  ASSUME CloneInv, NEW g \in created, Finish(g) \/ Succeed(g) \/ Seal(g),
         RegistryAssumption, JobsAssumption
  PROVE  Own(g)'
<1>0. g \in Guards /\ Call(g)
  BY DEF CloneInv, CloneTypes, Call
<1>1. /\ Op(g)' = Op(g) /\ Op(g) \in Ids /\ Op(g) \in JobIds /\ offered' = offered
      /\ target'[g] = target[g] /\ target[g] \in Resources
      /\ Own(g) /\ GuardOK(g) /\ pc \in [Guards -> Steps]
  BY <1>0, OwnFacts, OwnNow DEF CloneInv, CloneTypes
<1>2. /\ pc[g] \in {"finish", "succeed", "seal"} /\ UNCHANGED <<final, staging, marker, row>>
      /\ dropped \subseteq dropped'
  BY DEF Finish, Succeed, Seal, At, StoreFails, diskVars
<1>3. /\ final[target[g]] = Op(g) /\ offered[Op(g)] = {} /\ Op(g) \notin marker
      /\ row[Op(g)].stage = "completed" /\ row[Op(g)].repository
  BY <1>1, <1>2 DEF Own, StepOK, DiskOK, AfterRename
<1>4. ASSUME NEW step, Goto(g, step)
      PROVE  pc'[g] = step
  BY <1>0, <1>1, <1>4 DEF Goto
<1>5. /\ pc'[g] \in {"succeed", "seal", "partial", "done"}
      /\ pc'[g] \in {"succeed", "seal"} => told'[g] = "completed"
      /\ pc'[g] = "seal" => HasStatus(Op(g), {"succeeded"})'
      /\ HasStatus(Op(g), {"succeeded"})' =>
           told'[g] = "completed" /\ (g \in dropped' \/ pc'[g] \in {"seal", "done"})
      /\ pc'[g] = "done" => g \in dropped' \/ HasStatus(Op(g), {"succeeded"})'
  <2>1. CASE Finish(g)
    <3>1. ~HasStatus(Op(g), {"succeeded"})
      BY <1>0, <1>1, <2>1, NotYetTold DEF GuardOK, Bound, InFlight, Finish, At
    <3>2. jobs' = jobs /\ pc'[g] \in {"succeed", "partial"}
          /\ (pc'[g] = "succeed" => told'[g] = "completed")
      BY <1>4, <2>1 DEF Finish, appVars, jobVars
    <3> QED
      BY <1>1, <3>1, <3>2 DEF HasStatus
  <2>2. CASE Succeed(g)
    <3>1. told[g] = "completed" /\ told' = told
      BY <1>1, <2>2 DEF Succeed, At, Own, StoryOK, regVars
    <3>2. HasStatus(Op(g), {"succeeded"}) => g \in dropped
      BY <1>1, <2>2 DEF Succeed, At, Own, StoryOK
    <3>3. CASE SucceedStatus(Op(g)) /\ Goto(g, "seal")
      <4>1. jobs'[Op(g)].status = "succeeded"
        BY <1>1, <3>3, OwnTransition DEF SucceedStatus
      <4> QED
        BY <1>1, <1>4, <3>1, <3>3, <4>1 DEF HasStatus
    <3>4. CASE UNCHANGED jobs /\ Goto(g, "partial")
      BY <1>1, <1>2, <1>4, <3>1, <3>2, <3>4 DEF HasStatus
    <3> QED
      BY <2>2, <3>3, <3>4 DEF Succeed, StoreFails, jobVars
  <2>3. CASE Seal(g)
    <3>1. told[g] = "completed" /\ told' = told /\ HasStatus(Op(g), {"succeeded"})
      BY <1>1, <2>3 DEF Seal, At, Own, StoryOK, regVars
    <3>2. /\ pc'[g] \in {"done", "partial"}
          /\ pc'[g] = "partial" => g \in dropped'
      BY <1>4, <2>3 DEF Seal, StoreFails
    <3>3. HasStatus(Op(g), {"succeeded"})'
      <4>1. [Next]_vars /\ HasStatus(Op(g), Terminal)
        BY <1>0, <3>1 DEF Next, HasStatus, Terminal
      <4>2. JobsInv /\ [JobsNext]_jobVars
        BY <4>1, StepOfTable DEF CloneInv
      <4>3. jobs'[Op(g)].status = jobs[Op(g)].status
        BY <1>1, <4>1, <4>2, TerminalStatusStays
      <4> QED
        BY <1>1, <3>1, <4>3 DEF HasStatus
    <3> QED
      BY <3>1, <3>2, <3>3
  <2> QED
    BY <2>1, <2>2, <2>3
<1>6. StepOK(g)'
  BY <1>1, <1>2, <1>3, <1>5 DEF StepOK, Untouched, BeforeRename, AfterRename
<1>7. DiskOK(g)'
  BY <1>1, <1>2, <1>3, <1>5 DEF Own, DiskOK
<1>8. StoryOK(g)'
  <2>1. HasStatus(Op(g), {"succeeded"})' => HasStatus(Op(g), Terminal)'
    BY DEF HasStatus, Terminal
  <2> QED
    BY <1>1, <1>2, <1>3, <1>5, <2>1 DEF StoryOK
<1> QED
  BY <1>1, <1>2, <1>6, <1>7, <1>8 DEF Own

\* A clone that is kept half-way: its row is partial, and its job fails.
LEMMA OwnPartial ==
  ASSUME CloneInv, NEW g \in created, Partial(g) \/ PartialJob(g),
         RegistryAssumption, JobsAssumption
  PROVE  Own(g)'
<1>0. g \in Guards /\ Call(g)
  BY DEF CloneInv, CloneTypes, Call
<1>1. /\ Op(g)' = Op(g) /\ Op(g) \in Ids /\ Op(g) \in JobIds /\ offered' = offered
      /\ target'[g] = target[g] /\ target[g] \in Resources
      /\ Own(g) /\ GuardOK(g) /\ pc \in [Guards -> Steps] /\ row \in [Ids -> RowRecord]
  BY <1>0, OwnFacts, OwnNow DEF CloneInv, CloneTypes
<1>2. /\ pc[g] \in {"partial", "partialJob"} /\ UNCHANGED <<final, staging, marker>>
      /\ dropped \subseteq dropped'
  BY DEF Partial, PartialJob, At, diskVars
<1>3. offered[Op(g)] = {} /\ (HasStatus(Op(g), {"succeeded"}) => told[g] = "completed" /\ g \in dropped)
  BY <1>1, <1>2 DEF Own, DiskOK, StoryOK
<1>4. ASSUME NEW step, Goto(g, step)
      PROVE  pc'[g] = step
  BY <1>0, <1>1, <1>4 DEF Goto
<1>5. CASE Partial(g)
  <2>1. UNCHANGED <<jobs, told>> /\ pc'[g] = "partialJob"
    BY <1>4, <1>5 DEF Partial, appVars, jobVars, regVars
  <2>2. \/ row'[Op(g)].stage = "partial"
           /\ row'[Op(g)].filesystem = row[Op(g)].filesystem
        \/ row' = row /\ g \in dropped'
    BY <1>1, <1>5 DEF Partial, SetStage, RowRecord
  <2>3. StepOK(g)'
    BY <1>1, <2>1 DEF StepOK, Untouched, BeforeRename, AfterRename
  <2>4. DiskOK(g)'
    BY <1>1, <1>2, <1>3, <2>1, <2>2 DEF Own, DiskOK
  <2>5. StoryOK(g)'
    BY <1>1, <1>2, <1>3, <2>1, <2>2 DEF StoryOK, HasStatus
  <2> QED
    BY <1>1, <1>2, <2>2, <2>3, <2>4, <2>5 DEF Own, Closed
<1>6. CASE PartialJob(g)
  <2>1. row' = row /\ pc[g] = "partialJob" /\ pc'[g] = "done"
    BY <1>4, <1>6 DEF PartialJob, At
  <2>2. g \in dropped \/ row[Op(g)].stage = "partial"
    BY <1>1, <2>1 DEF Own, StoryOK
  <2>3. HasStatus(Op(g), {"succeeded"}) => told'[g] = "completed"
    <3>1. HasStatus(Op(g), {"succeeded"}) => ~Active(g)
      BY <1>0, NotYetTold
    <3>2. ~Active(g) => told' = told
      BY <1>6 DEF PartialJob, regVars
    <3> QED
      BY <1>3, <3>1, <3>2
  <2>4. /\ HasStatus(Op(g), Terminal)' \/ g \in dropped'
        /\ HasStatus(Op(g), {"succeeded"})' => HasStatus(Op(g), {"succeeded"})
    <3>1. CASE Fail(Op(g))
      <4>1. jobs'[Op(g)].status = "failed"
        BY <1>1, <3>1, OwnTransition DEF Fail
      <4> QED
        BY <1>1, <4>1 DEF HasStatus, Terminal
    <3>2. CASE UNCHANGED jobVars /\ (HasStatus(Op(g), Terminal) \/ g \in dropped')
      BY <1>1, <3>2 DEF HasStatus, jobVars
    <3> QED
      BY <1>6, <3>1, <3>2 DEF PartialJob
  <2>5. StepOK(g)'
    BY <1>1, <2>1 DEF StepOK, Untouched, BeforeRename, AfterRename
  <2>6. DiskOK(g)'
    BY <1>1, <1>2, <1>3, <2>1 DEF Own, DiskOK
  <2>7. StoryOK(g)'
    <3>1. HasStatus(Op(g), {"succeeded"})' => told'[g] = "completed" /\ g \in dropped'
      BY <1>2, <1>3, <2>3, <2>4
    <3> QED
      BY <1>1, <1>2, <2>1, <2>2, <2>4, <3>1 DEF StoryOK
  <2> QED
    BY <1>1, <1>2, <2>1, <2>5, <2>6, <2>7 DEF Own
<1> QED
  BY <1>5, <1>6

\* So, whatever step a call makes, all that is said of it holds behind it.
LEMMA OwnStep ==
  ASSUME CloneInv, NEW g \in Guards, Begin(g) \/ Call(g), g \in created',
         RegistryAssumption, JobsAssumption
  PROVE  Own(g)' /\ (g \notin created => ~Exists(Op(g)))
<1>1. CASE g \in created
  <2>1. ~(Begin(g) \/ Bind(g) \/ Create(g) \/ Reject(g))
    BY <1>1, OwnNow DEF Begin, Bind, Create, Reject, At
  <2> QED
    BY <1>1, <2>1, OwnEarly, OwnTransfer, OwnRename, OwnUndo, OwnRegister, OwnVerdict, OwnPartial
       DEF Call
<1>2. CASE g \notin created
  <2>1. Create(g)
    BY <1>2, NothingYet DEF Begin, Bind, Reject
  <2> QED
    BY <2>1, OwnCreate
<1> QED
  BY <1>1, <1>2
-----------------------------------------------------------------------------
\* Types: the steps of a call.
LEMMA CallTypesStep ==
  ASSUME CloneInv, NEW g \in Guards, Begin(g) \/ Call(g)
  PROVE  CloneTypes'
<1>1. /\ pc[g] # "idle" => target[g] \in Resources /\ Op(g) \in Ids
      /\ Frame(g) /\ CloneTypes
  BY CallFacts, BeginFrame, CallFrame DEF CloneInv
<1>2. ASSUME NEW step \in Steps, Goto(g, step)
      PROVE  pc' \in [Guards -> Steps]
  BY <1>1, <1>2 DEF Goto, CloneTypes
<1>3. \E step \in Steps : Goto(g, step)
  <2> USE DEF Steps, InFlight, Undoing, Continue, StoreFails
  <2>1. CASE \/ Begin(g) \/ Bind(g) \/ Create(g) \/ Reject(g) \/ InsertRow(g) \/ InsertFails(g)
             \/ StartJob(g) \/ StartRefused(g)
    BY <2>1 DEF Begin, Bind, Create, Reject, InsertRow, InsertFails, StartJob, StartRefused
  <2>2. CASE WriteMarker(g) \/ Transfer(g) \/ TransferEnds(g) \/ Checkout(g) \/ Rename(g)
    BY <2>2 DEF WriteMarker, Transfer, TransferEnds, Checkout, Rename
  <2>3. CASE Persist(g) \/ Register(g) \/ Attach(g)
    BY <2>3 DEF Persist, Register, Attach
  <2>4. CASE RemoveMarker(g) \/ Complete(g) \/ Finish(g)
    BY <2>4 DEF RemoveMarker, Complete, Finish
  <2>5. CASE Succeed(g) \/ Seal(g) \/ Undo(g) \/ UndoMarker(g) \/ Close(g) \/ CloseJob(g)
             \/ Partial(g) \/ PartialJob(g)
    BY <2>5 DEF Succeed, Seal, Undo, UndoMarker, Close, CloseJob, Partial, PartialJob
  <2> QED
    BY <2>1, <2>2, <2>3, <2>4, <2>5 DEF Call
<1>4. target' \in [Guards -> Resources \cup {None}]
  <2>1. CASE Begin(g)
    BY <1>1, <2>1 DEF Begin, CloneTypes
  <2>2. CASE target' = target
    BY <1>1, <2>2 DEF CloneTypes
  <2>3. CASE \/ Bind(g) \/ Create(g) \/ Reject(g) \/ InsertRow(g) \/ InsertFails(g)
             \/ StartJob(g) \/ StartRefused(g) \/ WriteMarker(g) \/ Transfer(g)
             \/ TransferEnds(g) \/ Checkout(g) \/ Rename(g) \/ Persist(g)
    BY <2>2, <2>3 DEF Bind, Create, Reject, InsertRow, InsertFails, StartJob, StartRefused,
       WriteMarker, Transfer, TransferEnds, Checkout, Rename, Persist
  <2>4. CASE \/ Register(g) \/ Attach(g) \/ RemoveMarker(g) \/ Complete(g) \/ Finish(g)
             \/ Succeed(g) \/ Seal(g) \/ Undo(g) \/ UndoMarker(g) \/ Close(g) \/ CloseJob(g)
             \/ Partial(g) \/ PartialJob(g)
    BY <2>2, <2>4 DEF Register, Attach, RemoveMarker, Complete, Finish, Succeed, Seal, Undo,
       UndoMarker, Close, CloseJob, Partial, PartialJob
  <2> QED
    BY <2>1, <2>3, <2>4 DEF Call
<1>5. /\ created' \subseteq Guards /\ dropped' \subseteq Guards /\ unclassified' \subseteq Ids
      /\ offered' = offered
  BY <1>1 DEF Frame, CloneTypes
<1>6. /\ staging' \subseteq Ids /\ marker' \subseteq Ids
      /\ final' \in [Resources -> Ids \cup {None, Foreign}]
      /\ row' \in [Ids -> RowRecord]
  <2> USE DEF CloneTypes
  <2>1. CASE UNCHANGED <<diskVars, row>>
    BY <1>1, <2>1 DEF diskVars
  <2>2. CASE \/ Begin(g) \/ Bind(g) \/ Create(g) \/ Reject(g) \/ InsertFails(g) \/ StartJob(g)
             \/ Checkout(g) \/ Attach(g) \/ Finish(g) \/ Succeed(g) \/ Seal(g) \/ CloseJob(g)
             \/ PartialJob(g)
    BY <2>1, <2>2 DEF Begin, Bind, Create, Reject, InsertFails, StartJob, Checkout, Attach,
       Finish, Succeed, Seal, CloseJob, PartialJob
  <2>3. CASE \/ WriteMarker(g) \/ Transfer(g) \/ TransferEnds(g) \/ Rename(g) \/ RemoveMarker(g)
             \/ Undo(g) \/ UndoMarker(g)
    <3>1. Op(g) \in Ids /\ target[g] \in Resources /\ row' = row
      BY <1>1, <2>3 DEF WriteMarker, Transfer, TransferEnds, Rename, RemoveMarker, Undo,
         UndoMarker, At
    <3> QED
      BY <1>1, <2>3, <3>1 DEF WriteMarker, Transfer, TransferEnds, Rename, RemoveMarker, Undo,
         UndoMarker
  <2>4. CASE \/ InsertRow(g) \/ StartRefused(g) \/ Persist(g) \/ Register(g) \/ Complete(g)
             \/ Close(g) \/ Partial(g)
    <3>1. UNCHANGED diskVars /\ Op(g) \in Ids
      BY <1>1, <2>4 DEF InsertRow, StartRefused, Persist, Register, Complete, Close, Partial, At
    <3>2. row[Op(g)] \in RowRecord
      BY <1>1, <3>1
    <3>3. ASSUME NEW stage \in {"working", "partial"} \cup Closed, SetStage(g, stage)
          PROVE  row' \in [Ids -> RowRecord]
      <4>1. [row[Op(g)] EXCEPT !.stage = stage] \in RowRecord
        BY <3>2 DEF RowRecord
      <4> QED
        BY <1>1, <3>1, <3>3, <4>1 DEF SetStage
    <3>4. CASE InsertRow(g)
      <4>1. [NoRow EXCEPT !.stage = "working"] \in RowRecord
        BY DEF NoRow, RowRecord
      <4> QED
        BY <1>1, <3>1, <3>4, <4>1 DEF InsertRow, diskVars
    <3>5. CASE Persist(g) \/ Register(g)
      <4>1. /\ [row[Op(g)] EXCEPT !.filesystem = TRUE] \in RowRecord
            /\ [row[Op(g)] EXCEPT !.repository = TRUE] \in RowRecord
        BY <3>2 DEF RowRecord
      <4> QED
        BY <1>1, <3>1, <3>5, <4>1 DEF Persist, Register, diskVars
    <3>6. CASE StartRefused(g) \/ Complete(g) \/ Close(g) \/ Partial(g)
      BY <1>1, <3>1, <3>3, <3>6 DEF StartRefused, Complete, Close, Partial, diskVars, Closed
    <3> QED
      BY <2>4, <3>4, <3>5, <3>6
  <2> QED
    BY <2>2, <2>3, <2>4 DEF Call
<1> QED
  BY <1>1, <1>2, <1>3, <1>4, <1>5, <1>6 DEF CloneTypes

\* The guard of a call at the step that it makes.
LEMMA CallGuard ==
  ASSUME CloneInv, NEW g \in Guards, Begin(g) \/ Call(g), RegistryAssumption, JobsAssumption
  PROVE  GuardOK(g)'
<1>1. /\ pc \in [Guards -> Steps] /\ guard \in [Guards -> GuardRec] /\ GuardOK(g)
      /\ target \in [Guards -> Resources \cup {None}]
  BY CallFacts DEF CloneInv, CloneTypes, RegInv, RegTypeOK
<1>2. ASSUME NEW step, Goto(g, step)
      PROVE  pc'[g] = step
  BY <1>1, <1>2 DEF Goto
<1>3. ASSUME NEW step, Continue(g, step)
      PROVE  pc'[g] \in {step, "partial"}
  BY <1>2, <1>3 DEF Continue
<1>4. ASSUME Call(g)
      PROVE  target'[g] = target[g] /\ target[g] \in Resources
  BY <1>4, OwnFacts
<1>5. ASSUME Call(g), guard'[g].state = "gone",
             pc'[g] \in Unguarded \cup {"partial", "partialJob"}
      PROVE  GuardOK(g)'
  <2>1. guard'[g] # Unused
    BY <1>5 DEF Unused
  <2>2. pc'[g] # "idle" /\ pc'[g] # "bind" /\ pc'[g] \notin Bound
    BY <1>5 DEF Unguarded, Bound, InFlight, Undoing
  <2> QED
    BY <1>4, <1>5, <2>1, <2>2 DEF GuardOK
<1>6. ASSUME Call(g), NEW answer, Consume(g, answer),
             pc'[g] \in Unguarded \cup {"partial", "partialJob"}
      PROVE  GuardOK(g)'
  <2>1. guard'[g].state = "gone"
    BY <1>1, <1>6 DEF Consume, GuardRec
  <2> QED
    BY <1>6, <2>1, <1>5
<1>7. CASE Begin(g)
  <2>1. /\ pc'[g] = "bind" /\ guard'[g].state = "active" /\ guard'[g].resource = None
        /\ target'[g] \in Resources
    BY <1>1, <1>2, <1>7 DEF Begin, Reserve
  <2> QED
    BY <2>1 DEF GuardOK, Active, Bound, Unguarded, Unused
<1>8. CASE Bind(g)
  <2>1. /\ pc'[g] = "create" /\ guard'[g].state = "active" /\ guard'[g].resource = target[g]
    BY <1>1, <1>2, <1>8 DEF Bind, BindResource, Active, GuardRec
  <2> QED
    BY <1>4, <1>8, <2>1 DEF Call, GuardOK, Active, Unguarded, Unused
<1>9. CASE Reject(g) \/ InsertFails(g) \/ StartRefused(g) \/ CloseJob(g)
  <2>1. pc'[g] = "done" /\ Consume(g, "released") /\ Call(g)
    BY <1>2, <1>9 DEF Reject, InsertFails, StartRefused, CloseJob, StoreFails, Release, Call
  <2> QED
    BY <1>6, <2>1 DEF Unguarded
<1>10. CASE Finish(g)
  <2>1. pc'[g] \in {"succeed", "partial"} /\ Call(g)
    BY <1>2, <1>10 DEF Finish, Call
  <2> QED
    BY <1>6, <1>10, <2>1 DEF Unguarded, Finish, FinishIfNotCancelled
<1>11. CASE PartialJob(g)
  <2>1. pc[g] = "partialJob" /\ pc'[g] = "done" /\ Call(g)
    BY <1>2, <1>11 DEF PartialJob, At, Call
  <2>2. CASE Active(g)
    BY <1>6, <1>11, <2>1, <2>2 DEF PartialJob, Release, Unguarded
  <2>3. CASE ~Active(g)
    <3>1. guard[g] # Unused /\ guard' = guard
      BY <1>1, <1>11, <2>1, <2>3 DEF PartialJob, GuardOK, regVars
    <3>2. guard[g].state = "gone"
      BY <1>1, <2>3, <3>1 DEF GuardRec, Active, Unused
    <3> QED
      BY <1>5, <2>1, <3>1, <3>2 DEF Unguarded
  <2> QED
    BY <2>2, <2>3
<1>12. ASSUME Call(g), guard' = guard, pc[g] \in Bound, pc'[g] \in Bound \cup {"partial"}
       PROVE  GuardOK(g)'
  <2>1. pc[g] # "idle" /\ pc'[g] # "idle" /\ pc'[g] # "bind" /\ pc'[g] \notin Unguarded
    BY <1>12 DEF Bound, Unguarded, InFlight, Undoing
  <2> QED
    BY <1>1, <1>4, <1>12, <2>1 DEF GuardOK, Active
<1>13. CASE \/ Create(g) \/ InsertRow(g) \/ StartJob(g) \/ WriteMarker(g) \/ Transfer(g)
            \/ TransferEnds(g) \/ Checkout(g)
  <2>1. guard' = guard /\ Call(g)
    BY <1>13 DEF Create, InsertRow, StartJob, WriteMarker, Transfer, TransferEnds, Checkout,
       regVars, Call
  <2>2. pc[g] \in Bound /\ pc'[g] \in Bound
    BY <1>2, <1>13 DEF Create, InsertRow, StartJob, WriteMarker, Transfer, TransferEnds, Checkout,
       StoreFails, At, Bound, InFlight, Undoing
  <2> QED
    BY <1>12, <2>1, <2>2
<1>14. CASE Rename(g) \/ Undo(g) \/ UndoMarker(g) \/ Close(g)
  <2>1. guard' = guard /\ Call(g)
    BY <1>14 DEF Rename, Undo, UndoMarker, Close, regVars, Call
  <2>2. pc[g] \in Bound /\ pc'[g] \in Bound \cup {"partial"}
    BY <1>2, <1>14 DEF Rename, Undo, UndoMarker, Close, At, Bound, InFlight, Undoing
  <2> QED
    BY <1>12, <2>1, <2>2
<1>15. CASE Persist(g) \/ Register(g) \/ Attach(g) \/ RemoveMarker(g) \/ Complete(g)
  <2>1. guard' = guard /\ Call(g)
    BY <1>15 DEF Persist, Register, Attach, RemoveMarker, Complete, regVars, Call
  <2>2. pc[g] \in Bound /\ pc'[g] \in Bound \cup {"partial"}
    BY <1>2, <1>3, <1>15 DEF Persist, Register, Attach, RemoveMarker, Complete, StoreFails, At,
       Bound, InFlight, Undoing
  <2> QED
    BY <1>12, <2>1, <2>2
<1>16. CASE Succeed(g) \/ Seal(g) \/ Partial(g)
  <2>1. guard' = guard /\ Call(g)
    BY <1>16 DEF Succeed, Seal, Partial, regVars, Call
  <2>2. CASE Succeed(g) \/ Seal(g)
    <3>1. /\ pc[g] \in {"succeed", "seal"} /\ pc'[g] \in {"seal", "done", "partial"}
          /\ guard[g].state = "gone"
      BY <1>1, <1>2, <2>2 DEF Succeed, Seal, StoreFails, At, GuardOK, Unguarded
    <3> QED
      BY <1>5, <2>1, <3>1 DEF Unguarded
  <2>3. CASE Partial(g)
    <3>1. pc[g] = "partial" /\ pc'[g] = "partialJob" /\ guard[g] # Unused
      BY <1>1, <1>2, <2>3 DEF Partial, At, GuardOK
    <3> QED
      BY <1>4, <2>1, <3>1 DEF GuardOK, Unguarded, Bound
  <2> QED
    BY <1>16, <2>2, <2>3
<1> QED
  BY <1>7, <1>8, <1>9, <1>10, <1>11, <1>13, <1>14, <1>15, <1>16 DEF Call

\* What is said of all calls, at a step of one of them.
LEMMA CallInvStep ==
  ASSUME CloneInv, NEW g \in Guards, Begin(g) \/ Call(g), RegistryAssumption, JobsAssumption
  PROVE  CallInv' /\ OneJobEach'
<1>1. Frame(g) /\ [Next]_vars /\ created \subseteq Guards
  BY BeginFrame, CallFrame DEF Next, CloneInv, CloneTypes
<1>2. ASSUME NEW h \in created
      PROVE  h \in Guards /\ Exists(Op(h)) /\ Exists(Op(h))' /\ Op(h)' = Op(h)
  <2>1. h \in Guards /\ Exists(Op(h)) /\ pc[h] # "idle" /\ GuardOK(h) /\ Op(h) \in JobIds
    BY <1>1, <1>2, CallFacts, CloneAssumption DEF JobOK
  <2>2. Op(h)' = Op(h)
    BY <1>1, <2>1, PartsStep DEF GuardOK
  <2>3. JobsInv /\ [JobsNext]_jobVars
    BY <1>1, StepOfTable DEF CloneInv
  <2>4. ASSUME NEW id \in JobIds, Exists(id)
        PROVE  jobs'[id] # Absent
    BY <2>3, <2>4, RowStays DEF Exists
  <2> QED
    BY <2>1, <2>2, <2>4 DEF Exists
<1>3. ASSUME NEW h \in Guards
      PROVE  GuardOK(h)' /\ JobOK(h)'
  <2>1. CASE h # g
    <3>1. GuardOK(h) /\ JobOK(h)
      BY CallFacts
    <3>2. /\ pc'[h] = pc[h] /\ target'[h] = target[h] /\ guard'[h] = guard[h]
          /\ h \in created' <=> h \in created
      BY <1>1, <2>1 DEF Frame
    <3>3. GuardOK(h)'
      BY <3>1, <3>2 DEF GuardOK, Active
    <3>4. JobOK(h)'
      BY <1>2, <3>1, <3>2 DEF JobOK
    <3> QED
      BY <3>3, <3>4
  <2>2. CASE h = g
    <3>1. GuardOK(g)'
      BY CallGuard
    <3>2. JobOK(g)'
      <4>1. ASSUME NEW step, Goto(g, step)
            PROVE  pc'[g] = step
        BY <4>1 DEF Goto, CloneInv, CloneTypes
      <4>2. CASE g \notin created
        <5>1. CASE Begin(g) \/ Bind(g) \/ Reject(g)
          BY <4>1, <4>2, <5>1 DEF Begin, Bind, Reject, JobOK, HasJob, InFlight, Undoing
        <5>2. CASE Create(g)
          <6>1. pc'[g] = "insert" /\ created' = created \cup {g} /\ Op(g)' = Op(g)
                /\ Op(g) \in JobIds
            BY <4>1, <5>2, OwnFacts DEF Create, Call
          <6>2. jobs'[Op(g)] # Absent
            <7>1. jobs'[Op(g)].status = "queued"
              BY <5>2, <6>1 DEF Create, CreateWithId, CloneInv, JobsInv, JobsTypeOK
            <7> QED
              BY <7>1 DEF Absent
          <6> QED
            BY <6>1, <6>2 DEF JobOK, Exists
        <5> QED
          BY <4>2, <5>1, <5>2, NothingYet
      <4>3. CASE g \in created
        <5>1. ~(Begin(g) \/ Bind(g) \/ Create(g) \/ Reject(g))
          BY <4>3, OwnNow DEF Begin, Bind, Create, Reject, At
        <5>2. ASSUME NEW step, Continue(g, step)
              PROVE  pc'[g] \in {step, "partial"}
          BY <4>1, <5>2 DEF Continue
        <5>3. pc'[g] \notin {"idle", "bind", "create"}
          <6>1. CASE \/ InsertRow(g) \/ InsertFails(g) \/ StartJob(g) \/ StartRefused(g)
                     \/ WriteMarker(g) \/ Transfer(g) \/ TransferEnds(g) \/ Checkout(g)
            BY <4>1, <6>1 DEF InsertRow, InsertFails, StartJob, StartRefused, WriteMarker,
               Transfer, TransferEnds, Checkout, StoreFails
          <6>2. CASE \/ Rename(g) \/ Succeed(g) \/ Seal(g) \/ Undo(g) \/ UndoMarker(g) \/ Close(g)
                     \/ CloseJob(g) \/ Partial(g) \/ PartialJob(g)
            BY <4>1, <6>2 DEF Rename, Succeed, Seal, Undo, UndoMarker, Close, CloseJob, Partial,
               PartialJob, StoreFails
          <6>3. CASE \/ Persist(g) \/ Register(g) \/ Attach(g) \/ RemoveMarker(g) \/ Complete(g)
                     \/ Finish(g)
            BY <4>1, <5>2, <6>3 DEF Persist, Register, Attach, RemoveMarker, Complete, Finish,
               StoreFails
          <6> QED
            BY <5>1, <6>1, <6>2, <6>3 DEF Call
        <5>4. g \in created'
          BY <1>1, <4>3 DEF Frame
        <5> QED
          BY <1>2, <4>3, <5>3, <5>4 DEF JobOK
      <4> QED
        BY <4>2, <4>3
    <3> QED
      BY <2>2, <3>1, <3>2
  <2> QED
    BY <2>1, <2>2
<1>4. ASSUME NEW h \in created'
      PROVE  StepOK(h)' /\ DiskOK(h)' /\ StoryOK(h)'
  <2>1. CASE h # g
    BY <1>1, <2>1, OthersStep DEF Frame
  <2>2. CASE h = g
    BY <2>2, OwnStep DEF Own
  <2> QED
    BY <2>1, <2>2
<1>5. OneJobEach'
  <2> SUFFICES ASSUME NEW h \in created', NEW k \in created', Op(h)' = Op(k)'
               PROVE  h = k
    BY DEF OneJobEach
  <2>1. CASE h \in created /\ k \in created
    BY <1>2, <2>1 DEF CloneInv, OneJobEach
  <2>2. ASSUME NEW i \in created, g \notin created, g \in created'
        PROVE  Op(i)' # Op(g)'
    <3>1. Create(g)
      BY <2>2, NothingYet DEF Begin, Bind, Reject
    <3>2. Op(g)' = Op(g) /\ ~Exists(Op(g))
      BY <2>2, <3>1, OwnFacts, OwnCreate DEF Call
    <3> QED
      BY <1>2, <3>2
  <2> QED
    BY <1>1, <2>1, <2>2 DEF Frame
<1> QED
  BY <1>3, <1>4, <1>5 DEF CallInv

\* What is said of the disk as a whole, at a step of a call.
LEMMA CallDiskStep ==
  ASSUME CloneInv, NEW g \in Guards, Begin(g) \/ Call(g), RegistryAssumption, JobsAssumption
  PROVE  NewIdInv' /\ ProcessInv' /\ ClosedLeavesNothing' /\ OffersAreSound'
<1>1. Frame(g) /\ [Next]_vars /\ created \subseteq Guards /\ CloneTypes'
  BY BeginFrame, CallFrame, CallTypesStep DEF Next, CloneInv, CloneTypes
<1>2. \A id \in JobIds : Exists(id) => Exists(id)'
  <2>1. JobsInv /\ [JobsNext]_jobVars
    BY <1>1, StepOfTable DEF CloneInv
  <2> QED
    BY <2>1, RowStays
<1>3. g \notin created => \A id \in Ids : SameDisk(id)
  BY NothingYet DEF SameDisk, diskVars
<1>4. g \in created => Exists(Op(g))
  BY CallFacts DEF JobOK
<1>5. ASSUME NEW id \in Ids
      PROVE  SameDisk(id) \/ (g \in created /\ id = Op(g))
  BY <1>1, <1>3 DEF Frame
<1>6. NewIdInv'
  <2> SUFFICES ASSUME NEW id \in Ids, ~Exists(id)'
               PROVE  /\ row'[id] = NoRow /\ id \notin staging' \cup marker'
                      /\ offered'[id] = {} /\ ~AtFinal(id)'
    BY DEF NewIdInv
  <2>1. ~Exists(id) /\ SameDisk(id)
    BY <1>2, <1>4, <1>5, CloneAssumption DEF CloneAssumption
  <2> QED
    BY <2>1 DEF CloneInv, NewIdInv, SameDisk, AtFinal
<1>7. ProcessInv'
  BY <1>1 DEF Frame, Ready, IsUp, CloneInv, ProcessInv
<1>8. ASSUME g \in created
      PROVE  Own(g)' /\ Op(g)' = Op(g)
  <2>1. g \in created' /\ Call(g)
    BY <1>1, <1>8, OwnNow DEF Frame, Begin, At
  <2> QED
    BY <2>1, OwnStep, OwnFacts
<1>9. ClosedLeavesNothing'
  <2>1. ASSUME NEW id \in Ids
        PROVE  /\ id \in staging' => id \in marker'
               /\ row'[id].stage \in Closed => id \notin staging' \cup marker'
    <3>1. CASE SameDisk(id)
      BY <3>1 DEF SameDisk, CloneInv, ClosedLeavesNothing
    <3>2. CASE g \in created /\ id = Op(g)
      BY <1>8, <3>2 DEF Own
    <3> QED
      BY <1>5, <3>1, <3>2
  <2> QED
    BY <1>1, <2>1 DEF ClosedLeavesNothing, CloneTypes
<1>10. OffersAreSound'
  <2> SUFFICES ASSUME NEW h \in created', offered'[Op(h)'] # {}
               PROVE  /\ "cleanupStaging" \in offered'[Op(h)'] =>
                           /\ Op(h)' \in staging' /\ Op(h)' \in marker'
                           /\ final'[target'[h]] # Op(h)'
                      /\ "retryRegistration" \in offered'[Op(h)'] => final'[target'[h]] = Op(h)'
    BY DEF OffersAreSound
  <2>1. CASE h # g
    <3>1. /\ h \in created /\ SameDisk(Op(h)) /\ Op(h)' = Op(h) /\ target'[h] = target[h]
          /\ target[h] \in Resources
      BY <1>1, <2>1, OthersStep, OwnNow DEF Frame, Op
    <3> QED
      BY <3>1 DEF SameDisk, CloneInv, OffersAreSound
  <2>2. CASE h = g
    <3>1. ASSUME g \in created
          PROVE  offered'[Op(g)'] = {}
      <4>1. pc[g] \notin {"done", "lost"}
        <5>1. Call(g)
          BY <3>1, OwnNow DEF Begin, At
        <5> QED
          BY <5>1, AtWork DEF InFlight, Undoing
      <4> QED
        BY <1>1, <1>8, <3>1, <4>1, OwnNow DEF Own, DiskOK, Frame
    <3>2. ASSUME g \notin created
          PROVE  offered'[Op(g)'] = {}
      <4>1. Create(g)
        BY <2>2, <3>2, NothingYet DEF Begin, Bind, Reject
      <4>2. ~Exists(Op(g)) /\ Op(g)' = Op(g) /\ Op(g) \in Ids
        BY <4>1, OwnCreate, OwnFacts DEF Call
      <4> QED
        BY <1>1, <4>2 DEF Frame, CloneInv, NewIdInv
    <3> QED
      BY <2>2, <3>1, <3>2
  <2> QED
    BY <2>1, <2>2
<1> QED
  BY <1>6, <1>7, <1>9, <1>10

\* Every step of a call keeps the invariant.
LEMMA CallStep ==
  ASSUME CloneInv, NEW g \in Guards, Begin(g) \/ Call(g), RegistryAssumption, JobsAssumption
  PROVE  CloneInv'
<1>1. [Next]_vars
  BY DEF Next
<1>2. RegInv' /\ JobsInv'
  BY <1>1, PartsStep
<1>3. process' \in {"up", "down", "starting"}
  BY BeginFrame, CallFrame DEF Frame, CloneInv
<1> QED
  BY <1>2, <1>3, CallTypesStep, CallInvStep, CallDiskStep DEF CloneInv
-----------------------------------------------------------------------------
\* What a step of nobody's call leaves alone: where the calls are and what they
\* know.  The jobs it may close, but not make succeed.
Aside ==
  /\ UNCHANGED <<pc, target, created, dropped, guard, told>>
  /\ \A id \in JobIds : Mild(id)

\* Behind such a step the calls are where they were.
LEMMA AsideCalls ==
  ASSUME CloneInv, [Next]_vars, Aside
  PROVE  /\ \A g \in Guards : GuardOK(g)' /\ JobOK(g)'
         /\ OneJobEach'
         /\ \A id \in JobIds : HasStatus(id, {"succeeded"})' => HasStatus(id, {"succeeded"})
         /\ \A id \in JobIds : Exists(id) => Exists(id)'
<1>1. /\ \A g \in Guards : Op(g)' = Op(g)
      /\ UNCHANGED <<pc, target, created, dropped, guard, told>>
  BY DEF Aside, Op
<1>2. \A id \in JobIds : HasStatus(id, {"succeeded"})' => HasStatus(id, {"succeeded"})
  BY DEF Aside, Mild, HasStatus
<1>3. \A id \in JobIds : Exists(id) => Exists(id)'
  BY DEF Aside, Mild, Exists
<1>4. ASSUME NEW g \in Guards
      PROVE  GuardOK(g)' /\ JobOK(g)'
  <2>1. GuardOK(g) /\ JobOK(g) /\ (pc[g] # "idle" => Op(g) \in JobIds)
    BY CallFacts, CloneAssumption
  <2>2. GuardOK(g)'
    BY <1>1, <2>1 DEF GuardOK, Active
  <2>3. Exists(Op(g)) /\ pc[g] # "idle" => jobs'[Op(g)] # Absent
    BY <1>3, <2>1 DEF Exists
  <2>4. JobOK(g)'
    BY <1>1, <2>1, <2>3 DEF JobOK, Exists
  <2> QED
    BY <2>2, <2>4
<1>5. OneJobEach'
  BY <1>1 DEF CloneInv, CloneTypes, OneJobEach
<1> QED
  BY <1>2, <1>3, <1>4, <1>5

\* If it leaves the disk alone too, then what is said of that holds on.
LEMMA AsideDisk ==
  ASSUME CloneInv, [Next]_vars, Aside, CloneTypes', \A id \in Ids : SameDisk(id),
         RegistryAssumption
  PROVE  CallInv' /\ OneJobEach' /\ NewIdInv' /\ ClosedLeavesNothing' /\ OffersAreSound'
<1>1. UNCHANGED <<pc, target, created, dropped, guard, told>>
  BY DEF Aside
<1>2. ASSUME NEW h \in created
      PROVE  /\ StepOK(h)' /\ DiskOK(h)' /\ StoryOK(h)'
             /\ Op(h)' = Op(h) /\ Op(h) \in Ids /\ target[h] \in Resources
  <2>1. Op(h) \in Ids /\ Op(h) \in JobIds /\ Op(h)' = Op(h) /\ target[h] \in Resources
    BY <1>1, OwnNow, CloneAssumption DEF Op
  <2>2. HasStatus(Op(h), {"succeeded"})' => HasStatus(Op(h), {"succeeded"})
    <3>1. jobs'[Op(h)].status = "succeeded" => jobs[Op(h)].status = "succeeded"
      BY <2>1, AsideCalls DEF HasStatus
    <3> QED
      BY <2>1, <3>1 DEF HasStatus
  <2> QED
    BY <1>1, <2>1, <2>2, CallAtRest, RegistryAssumption
<1>3. CallInv' /\ OneJobEach'
  BY <1>1, <1>2, AsideCalls DEF CallInv
<1>4. NewIdInv'
  BY AsideCalls, CloneAssumption DEF CloneInv, NewIdInv, SameDisk, AtFinal
<1>5. ClosedLeavesNothing'
  BY DEF CloneInv, CloneTypes, ClosedLeavesNothing, SameDisk
<1>6. OffersAreSound'
  <2> SUFFICES ASSUME NEW h \in created'
               PROVE  /\ "cleanupStaging" \in offered'[Op(h)'] =>
                           /\ Op(h)' \in staging' /\ Op(h)' \in marker'
                           /\ final'[target'[h]] # Op(h)'
                      /\ "retryRegistration" \in offered'[Op(h)'] => final'[target'[h]] = Op(h)'
    BY DEF OffersAreSound
  <2>1. h \in created /\ SameDisk(Op(h)) /\ target'[h] = target[h]
    BY <1>1, <1>2
  <2> QED
    BY <1>2, <2>1 DEF SameDisk, CloneInv, OffersAreSound
<1> QED
  BY <1>3, <1>4, <1>5, <1>6

\* Cancels, and directories of somebody else.
LEMMA OutsideStep ==
  ASSUME CloneInv, RegistryAssumption, JobsAssumption,
         \/ \E id \in Ids : CancelCommand(id) \/ TaskCenterCancel(id)
         \/ \E p \in Resources : ForeignAppears(p)
         \/ UNCHANGED vars
  PROVE  CloneInv'
<1>1. [Next]_vars /\ CloneTypes
  BY DEF Next, CloneInv
<1>2. RegInv' /\ JobsInv'
  BY <1>1, PartsStep
<1>3. /\ UNCHANGED <<pc, target, created, dropped, guard, told>>
      /\ UNCHANGED <<process, unclassified, offered, staging, marker, row>>
  BY DEF CancelCommand, TaskCenterCancel, ForeignAppears, CancelOwned, appVars, jobVars, regVars,
     cloneVars, diskVars, startVars, vars
<1>4. \A id \in JobIds : Mild(id)
  <2>1. ASSUME NEW id \in Ids, TaskCenterCancel(id)
        PROVE  \A i \in JobIds : Mild(i)
    BY <2>1, CancelIsMild, CloneAssumption DEF TaskCenterCancel, CloneInv
  <2>2. UNCHANGED jobs => \A i \in JobIds : Mild(i)
    BY DEF Mild
  <2> QED
    BY <2>1, <2>2 DEF CancelCommand, ForeignAppears, appVars, jobVars, vars
<1>5. /\ final' \in [Resources -> Ids \cup {None, Foreign}]
      /\ \A id \in Ids, p \in Resources : final'[p] = id <=> final[p] = id
  <2>1. ASSUME NEW p \in Resources, ForeignAppears(p)
        PROVE  /\ final' \in [Resources -> Ids \cup {None, Foreign}]
               /\ \A id \in Ids, q \in Resources : final'[q] = id <=> final[q] = id
    BY <1>1, <2>1, CloneAssumption, RegistryAssumption
       DEF ForeignAppears, CloneTypes, CloneAssumption, RegistryAssumption
  <2>2. CASE final' = final
    BY <1>1, <2>2 DEF CloneTypes
  <2> QED
    BY <2>1, <2>2 DEF CancelCommand, TaskCenterCancel, cloneVars, diskVars, vars
<1>6. CloneTypes' /\ Aside /\ \A id \in Ids : SameDisk(id)
  BY <1>1, <1>3, <1>4, <1>5 DEF CloneTypes, Aside, SameDisk
<1>7. CallInv' /\ OneJobEach' /\ NewIdInv' /\ ClosedLeavesNothing' /\ OffersAreSound'
  BY <1>1, <1>6, AsideDisk, RegistryAssumption
<1>8. ProcessInv' /\ process' \in {"up", "down", "starting"}
  BY <1>3 DEF CloneInv, ProcessInv, Ready, IsUp
<1> QED
  BY <1>2, <1>6, <1>7, <1>8 DEF CloneInv

\* A start fails the jobs that are running, and lists the rows that are open.
LEMMA StartupStep ==
  ASSUME CloneInv, Startup, RegistryAssumption, JobsAssumption
  PROVE  CloneInv'
<1>1. [Next]_vars /\ CloneTypes
  BY DEF Next, CloneInv
<1>2. RegInv' /\ JobsInv'
  BY <1>1, PartsStep
<1>3. UNCHANGED <<pc, target, created, dropped, guard, told, offered, staging, marker, final, row>>
  BY DEF Startup, regVars, diskVars
<1>4. /\ \A id \in JobIds : Mild(id)
      /\ process # "up" /\ process' \in {"up", "starting"}
  <2>1. CASE Boot
    BY <2>1 DEF Boot, FailRunningList, jobVars, Mild
  <2>2. ASSUME NEW id \in JobIds, Sweep(id)
        PROVE  /\ \A i \in JobIds : Mild(i)
               /\ process # "up" /\ process' \in {"up", "starting"}
    BY <2>2, CancelIsMild DEF Sweep, CloneInv
  <2> QED
    BY <2>1, <2>2 DEF Startup
<1>5. /\ unclassified' \subseteq Ids
      /\ process' # "up" => unclassified' = {}
      /\ \A id \in unclassified' : row[id] # NoRow /\ row[id].stage \notin Closed
  BY DEF Startup
<1>6. CloneTypes' /\ Aside /\ \A id \in Ids : SameDisk(id)
  BY <1>1, <1>3, <1>4, <1>5 DEF CloneTypes, Aside, SameDisk
<1>7. CallInv' /\ OneJobEach' /\ NewIdInv' /\ ClosedLeavesNothing' /\ OffersAreSound'
  BY <1>1, <1>6, AsideDisk, RegistryAssumption
<1>8. ProcessInv'
  <2>1. \A g \in Guards : pc[g] \in {"idle", "done", "lost"}
    BY <1>4 DEF CloneInv, ProcessInv, Ready, IsUp
  <2> QED
    BY <1>3, <1>5, <2>1 DEF ProcessInv
<1> QED
  BY <1>2, <1>4, <1>6, <1>7, <1>8 DEF CloneInv

\* The process dies: every call at work is lost, and the disk stays as it is.
LEMMA CrashStep ==
  ASSUME CloneInv, Crash, RegistryAssumption, JobsAssumption
  PROVE  CloneInv'
<1>1. [Next]_vars /\ CloneTypes /\ guard \in [Guards -> GuardRec]
  BY DEF Next, CloneInv, RegInv, RegTypeOK
<1>2. RegInv' /\ JobsInv'
  BY <1>1, PartsStep
<1>3. /\ UNCHANGED <<jobs, target, created, dropped, told, staging, marker, final, row>>
      /\ process' = "down" /\ unclassified' = {} /\ offered' = [id \in Ids |-> {}]
      /\ guard' = [g \in Guards |->
            IF Active(g) THEN [guard[g] EXCEPT !.state = "gone"] ELSE guard[g]]
      /\ pc' = [g \in Guards |-> IF pc[g] \in InFlight THEN "lost" ELSE pc[g]]
  BY DEF Crash, Die, LoseLock, Vanish, diskVars
<1>4. \A g \in Guards : pc'[g] \in {"idle", "done", "lost"}
  BY <1>1, <1>3 DEF CloneTypes, Steps
<1>5. CloneTypes'
  BY <1>1, <1>3, <1>4 DEF CloneTypes, Steps
<1>6. ASSUME NEW g \in Guards
      PROVE  /\ GuardOK(g)' /\ JobOK(g)' /\ Op(g)' = Op(g)
             /\ pc'[g] = IF pc[g] \in InFlight THEN "lost" ELSE pc[g]
  <2>1. GuardOK(g) /\ JobOK(g) /\ pc[g] \in Steps /\ guard[g] \in GuardRec
    BY CallFacts
  <2>2. pc'[g] = IF pc[g] \in InFlight THEN "lost" ELSE pc[g]
    BY <1>3
  <2>3. /\ Active(g) => guard'[g].state = "gone" /\ guard'[g].id = guard[g].id
        /\ ~Active(g) => guard'[g] = guard[g]
    BY <1>1, <1>3 DEF Active, GuardRec
  <2>4. Op(g)' = Op(g)
    BY <2>3 DEF Op
  <2>5. GuardOK(g)'
    <3>1. CASE pc[g] = "idle"
      <4>1. pc'[g] = "idle" /\ guard[g] = Unused
        BY <2>1, <2>2, <3>1 DEF GuardOK, InFlight, Undoing
      <4>2. guard'[g] = Unused
        BY <2>3, <4>1 DEF Active, Unused
      <4> QED
        BY <4>1, <4>2 DEF GuardOK, Bound, InFlight, Undoing, Unguarded
    <3>2. CASE pc[g] # "idle"
      <4>1. pc'[g] \in {"done", "lost"} /\ guard[g] # Unused /\ target'[g] \in Resources
        BY <1>3, <1>4, <2>1, <2>2, <3>2 DEF GuardOK
      <4>2. guard'[g].state = "gone"
        <5>1. Active(g) \/ guard[g].state = "gone"
          BY <2>1, <4>1 DEF GuardRec, Unused, Active
        <5> QED
          BY <2>3, <5>1
      <4>3. guard'[g] # Unused
        BY <4>2 DEF Unused
      <4> QED
        BY <4>1, <4>2, <4>3 DEF GuardOK, Bound, InFlight, Undoing
    <3> QED
      BY <3>1, <3>2
  <2>6. JobOK(g)'
    <3>1. pc'[g] \notin HasJob
      BY <1>4 DEF HasJob, InFlight, Undoing
    <3>2. g \in created' => pc'[g] \notin {"idle", "bind", "create"}
      BY <1>3, <1>4, <2>1, <2>2 DEF JobOK
    <3>3. Exists(Op(g))' <=> Exists(Op(g))
      BY <1>3, <2>4 DEF Exists
    <3> QED
      BY <1>3, <2>1, <3>1, <3>2, <3>3 DEF JobOK
  <2> QED
    BY <2>2, <2>4, <2>5, <2>6
<1>7. ASSUME NEW h \in created
      PROVE  StepOK(h)' /\ DiskOK(h)' /\ StoryOK(h)'
  <2>1. /\ h \in Guards /\ DiskOK(h) /\ StoryOK(h) /\ Op(h)' = Op(h) /\ Op(h) \in Ids
        /\ pc'[h] = IF pc[h] \in InFlight THEN "lost" ELSE pc[h]
        /\ pc'[h] \in {"done", "lost"}
    BY <1>1, <1>4, <1>6, OwnNow DEF CloneTypes, Own, InFlight, Undoing
  <2>2. StepOK(h)'
    BY <2>1 DEF StepOK, Untouched, BeforeRename, AfterRename
  <2>3. DiskOK(h)'
    BY <1>3, <2>1 DEF DiskOK
  <2>4. StoryOK(h)'
    BY <1>3, <2>1 DEF StoryOK, HasStatus, InFlight, Undoing
  <2> QED
    BY <2>2, <2>3, <2>4
<1>8. CallInv' /\ OneJobEach'
  BY <1>1, <1>3, <1>6, <1>7 DEF CallInv, CloneInv, CloneTypes, OneJobEach
<1>9. NewIdInv' /\ ProcessInv' /\ ClosedLeavesNothing'
  BY <1>3, <1>4 DEF CloneInv, NewIdInv, Exists, AtFinal, ProcessInv, ClosedLeavesNothing
<1>10. OffersAreSound'
  <2>1. ASSUME NEW h \in created'
        PROVE  offered'[Op(h)'] = {}
    BY <1>1, <1>3, <1>6, <2>1, OwnNow DEF CloneTypes
  <2> QED
    BY <2>1 DEF OffersAreSound
<1> QED
  BY <1>2, <1>3, <1>5, <1>8, <1>9, <1>10 DEF CloneInv

\* What the classification of a row may say, and when.
LEMMA ClassificationFacts ==
  ASSUME NEW id
  PROVE  /\ "cleanupStaging" \in Classification(id) =>
              id \in staging /\ id \in marker /\ ~FinalExists(id)
         /\ "retryRegistration" \in Classification(id) => FinalExists(id) /\ row[id].filesystem
         /\ Classification(id) \subseteq {"cleanupStaging", "retryClone", "retryRegistration",
                                          "unsafePath"}
<1>1. \/ /\ id \in staging /\ ~FinalExists(id) /\ id \in marker
         /\ Classification(id) = {"cleanupStaging", "retryClone"}
      \/ /\ id \notin staging /\ FinalExists(id) /\ row[id].filesystem
         /\ Classification(id) = {"retryRegistration"}
      \/ Classification(id) = {"unsafePath"}
  BY DEF Classification
<1> QED
  BY <1>1

\* The start looks at a row that is open: it offers what fits the disk, or
\* removes a marker that is alone and closes the row.
LEMMA ClassifyStep ==
  ASSUME CloneInv, NEW id \in Ids, Classify(id) \/ CloseInterrupted(id),
         RegistryAssumption, JobsAssumption
  PROVE  CloneInv'
<1>1. [Next]_vars /\ CloneTypes
  BY DEF Next, CloneInv
<1>2. RegInv' /\ JobsInv'
  BY <1>1, PartsStep
<1>3. /\ UNCHANGED <<pc, target, created, dropped, guard, told, process, jobs, staging, final>>
      /\ id \in unclassified /\ unclassified' = unclassified \ {id}
      /\ ~Ready
      /\ \E actions \in SUBSET {"cleanupStaging", "retryClone", "retryRegistration",
                                "unsafePath", "interrupted"} :
           offered' = [offered EXCEPT ![id] = actions]
  BY ClassificationFacts DEF Classify, CloseInterrupted, appVars, jobVars, regVars, diskVars, Ready
<1>4. row[id] # NoRow /\ row[id].stage \notin Closed /\ row[id] \in RowRecord
  BY <1>1, <1>3 DEF CloneInv, ProcessInv, CloneTypes
<1>5. \/ marker' = marker /\ row' = row
      \/ /\ id \notin staging /\ marker' = marker \ {id}
         /\ row' = [row EXCEPT ![id].stage = "failed"]
  BY DEF Classify, CloseInterrupted, diskVars, Interrupted
<1>6. /\ row'[id].filesystem = row[id].filesystem
      /\ \/ row'[id] = row[id]
         \/ row'[id].stage = "failed" /\ id \notin marker' /\ id \notin staging
      /\ \A other \in Ids : other # id => row'[other] = row[other]
  BY <1>1, <1>4, <1>5 DEF CloneTypes, RowRecord
<1>7. CloneTypes'
  <2>1. [row[id] EXCEPT !.stage = "failed"] \in RowRecord
    BY <1>4 DEF RowRecord, Closed
  <2>2. row' \in [Ids -> RowRecord]
    BY <1>1, <1>5, <2>1 DEF CloneTypes
  <2>3. offered' \in [Ids -> SUBSET {"cleanupStaging", "retryClone", "retryRegistration",
                                    "unsafePath", "interrupted"}]
    <3>1. PICK actions \in SUBSET {"cleanupStaging", "retryClone", "retryRegistration",
                                   "unsafePath", "interrupted"} :
            offered' = [offered EXCEPT ![id] = actions]
      BY <1>3
    <3> QED
      BY <1>1, <3>1 DEF CloneTypes
  <2>4. marker' \subseteq Ids
    BY <1>1, <1>5 DEF CloneTypes
  <2> QED
    BY <1>1, <1>3, <2>2, <2>3, <2>4 DEF CloneTypes
<1>8. \A other \in Ids : other # id => SameDisk(other)
  BY <1>1, <1>3, <1>5, <1>6 DEF SameDisk, CloneTypes
<1>9. Aside
  BY <1>3 DEF Aside, Mild
<1>10. ASSUME NEW h \in created
       PROVE  /\ Op(h)' = Op(h) /\ Op(h) \in Ids /\ target[h] \in Resources
              /\ pc[h] \in {"done", "lost"} /\ Own(h)
  <2>1. pc[h] \in {"idle", "done", "lost"} /\ pc[h] # "idle"
    BY <1>1, <1>3, <1>10, OwnNow DEF CloneInv, ProcessInv, CloneTypes
  <2> QED
    BY <1>3, <1>10, <2>1, OwnNow DEF Op
<1>11. ASSUME NEW h \in created
       PROVE  StepOK(h)' /\ DiskOK(h)' /\ StoryOK(h)'
  <2>1. CASE Op(h) # id
    <3>1. SameDisk(Op(h)) /\ (HasStatus(Op(h), {"succeeded"})' => HasStatus(Op(h), {"succeeded"}))
      BY <1>3, <1>8, <1>10, <2>1 DEF HasStatus
    <3> QED
      BY <1>1, <1>3, <3>1, CallAtRest, RegistryAssumption
  <2>2. CASE Op(h) = id
    <3>1. StepOK(h)'
      BY <1>3, <1>10 DEF StepOK, Untouched, BeforeRename, AfterRename
    <3>2. DiskOK(h)'
      <4>1. DiskOK(h) /\ row'[id].filesystem = row[id].filesystem
            /\ (row'[id].stage = "completed" => row'[id] = row[id])
        BY <1>6, <1>10 DEF Own
      <4> QED
        BY <1>3, <1>10, <2>2, <4>1 DEF DiskOK
    <3>3. StoryOK(h)'
      <4>1. StoryOK(h) /\ row[id].stage # "completed" /\ row'[id].stage # "completed"
        BY <1>4, <1>6, <1>10 DEF Own, Closed
      <4> QED
        BY <1>3, <1>10, <2>2, <4>1 DEF StoryOK, HasStatus
    <3> QED
      BY <3>1, <3>2, <3>3
  <2> QED
    BY <2>1, <2>2
<1>12. CallInv' /\ OneJobEach'
  BY <1>1, <1>3, <1>9, <1>11, AsideCalls DEF CallInv
<1>13. NewIdInv'
  <2>1. Exists(id)
    BY <1>4 DEF CloneInv, NewIdInv
  <2> QED
    BY <1>3, <1>8, <2>1 DEF CloneInv, NewIdInv, SameDisk, AtFinal, Exists
<1>14. ProcessInv'
  BY <1>1, <1>3, <1>6 DEF CloneInv, ProcessInv, CloneTypes
<1>15. ClosedLeavesNothing'
  <2>1. staging \subseteq marker'
    BY <1>5 DEF CloneInv, ClosedLeavesNothing
  <2>2. ASSUME NEW other \in Ids, row'[other].stage \in Closed
        PROVE  other \notin staging' \cup marker'
    BY <1>3, <1>4, <1>6, <1>8, <2>2 DEF SameDisk, CloneInv, ClosedLeavesNothing
  <2> QED
    BY <1>3, <2>1, <2>2 DEF ClosedLeavesNothing
<1>16. OffersAreSound'
  <2> SUFFICES ASSUME NEW h \in created'
               PROVE  /\ "cleanupStaging" \in offered'[Op(h)'] =>
                           /\ Op(h)' \in staging' /\ Op(h)' \in marker'
                           /\ final'[target'[h]] # Op(h)'
                      /\ "retryRegistration" \in offered'[Op(h)'] => final'[target'[h]] = Op(h)'
    BY DEF OffersAreSound
  <2>1. h \in created /\ Op(h)' = Op(h) /\ Op(h) \in Ids /\ target[h] \in Resources /\ Own(h)
    BY <1>3, <1>10
  <2>2. CASE Op(h) # id
    BY <1>3, <1>8, <2>1, <2>2 DEF SameDisk, CloneInv, OffersAreSound
  <2>3. CASE Op(h) = id /\ Classify(id)
    <3>1. offered'[id] = Classification(id) /\ marker' = marker
      BY <1>1, <2>3 DEF Classify, CloneTypes, diskVars
    <3>2. final[target[h]] # None => FinalExists(id)
      BY <2>1, <2>3 DEF FinalExists, FinalOf
    <3>3. id # None
      BY RegistryAssumption DEF RegistryAssumption
    <3>4. row[id].filesystem => final[target[h]] = id
      BY <2>1, <2>3 DEF Own, DiskOK
    <3> QED
      BY <1>3, <2>1, <2>3, <3>1, <3>2, <3>3, <3>4, ClassificationFacts
  <2>4. CASE Op(h) = id /\ CloseInterrupted(id)
    <3>1. offered'[id] = {"interrupted"}
      BY <1>1, <2>4 DEF CloseInterrupted, CloneTypes
    <3> QED
      BY <2>1, <2>4, <3>1
  <2> QED
    BY <2>2, <2>3, <2>4
<1> QED
  BY <1>2, <1>3, <1>7, <1>12, <1>13, <1>14, <1>15, <1>16 DEF CloneInv

\* Every step keeps the invariant.
LEMMA CloneStep ==
  ASSUME CloneInv, [Next]_vars, RegistryAssumption, JobsAssumption
  PROVE  CloneInv'
BY CallStep, OutsideStep, CrashStep, StartupStep, ClassifyStep, RegistryAssumption,
   JobsAssumption DEF Next

-----------------------------------------------------------------------------
\* CloneInv holds in every behaviour of the clones.
THEOREM CloneInvariant == Spec => []CloneInv
<1>1. Init => CloneInv
  <2> SUFFICES ASSUME Init
               PROVE  CloneInv
    OBVIOUS
  <2>1. RegInv /\ JobsInv /\ process = "up"
    BY RegInitInv, JobsInitInv DEF Init, AppInit
  <2>2. CloneTypes
    BY DEF Init, CloneTypes, Steps, NoRow, RowRecord
  <2>3. CallInv /\ OneJobEach
    <3>1. /\ created = {}
          /\ \A g \in Guards : pc[g] = "idle" /\ guard[g] = Unused /\ g \notin created
      BY DEF Init, RegInit
    <3> QED
      BY <3>1 DEF CallInv, OneJobEach, GuardOK, JobOK, HasJob, Bound, InFlight, Undoing, Unguarded
  <2>4. NewIdInv
    BY RegistryAssumption DEF Init, NewIdInv, AtFinal, RegistryAssumption
  <2>5. ProcessInv /\ ClosedLeavesNothing /\ OffersAreSound
    BY DEF Init, ProcessInv, ClosedLeavesNothing, OffersAreSound
  <2> QED
    BY <2>1, <2>2, <2>3, <2>4, <2>5 DEF CloneInv
<1>2. CloneInv /\ [Next]_vars => CloneInv'
  BY CloneStep, RegistryAssumption, JobsAssumption
<1> QED
  BY <1>1, <1>2, PTL DEF Spec

\* Nothing the application made on disk is without an owner, and a closed row,
\* which no later start looks at, leaves nothing behind (clone.rs,
\* fail_before_rename and classify_incomplete_recovery).
THEOREM ClosedAlwaysLeavesNothing == Spec => []ClosedLeavesNothing
BY CloneInvariant, PTL DEF CloneInv

\* A clone whose call returned tells one story: the job succeeded exactly if
\* the row is completed, and then the repository is at its final path, is
\* registered, and no cancel of it was accepted.
THEOREM AlwaysOneStory == Spec => []OneStory
<1>1. CloneInv => OneStory
  <2> SUFFICES ASSUME CloneInv, NEW g \in created, pc[g] = "done", g \notin dropped
               PROVE  /\ HasStatus(Op(g), Terminal)
                      /\ HasStatus(Op(g), {"succeeded"}) <=> row[Op(g)].stage = "completed"
                      /\ row[Op(g)].stage = "completed" =>
                           /\ final[target[g]] = Op(g) /\ row[Op(g)].repository
                           /\ \A by \in Principals : <<g, by>> \notin acked
    BY DEF OneStory
  <2>1. g \in Guards /\ DiskOK(g) /\ StoryOK(g)
    BY OwnNow DEF Own, CloneInv, CloneTypes
  <2>2. told[g] = "completed" => g \notin cancelled
    BY <2>1 DEF CloneInv, RegInv, VerdictInv, VerdictOK
  <2>3. told[g] = "completed" => \A by \in Principals : <<g, by>> \notin acked
    BY <2>2 DEF CloneInv, RegInv, RegTypeOK
  <2> QED
    BY <2>1, <2>3 DEF DiskOK, StoryOK
<1> QED
  BY <1>1, CloneInvariant, PTL

\* What a start offers for a row fits what is on disk (recover_incomplete and
\* classify_incomplete_recovery).
THEOREM OffersAreAlwaysSound == Spec => []OffersAreSound
BY CloneInvariant, PTL DEF CloneInv

\* What is at a final path stays: no clone is renamed over another one or over
\* somebody else's directory, and none is undone once it was renamed.
THEOREM FinalIsAlwaysKept == Spec => FinalIsKept
<1> DEFINE Kept == \A p \in Resources : final[p] # None => final'[p] = final[p]
<1>1. ASSUME CloneInv, [Next]_vars
      PROVE  Kept
  <2>1. CloneTypes
    BY <1>1 DEF CloneInv
  <2>2. ASSUME NEW g \in Guards, Rename(g)
        PROVE  Kept
    BY <2>1, <2>2 DEF Rename, CloneTypes
  <2>3. ASSUME NEW p \in Resources, ForeignAppears(p)
        PROVE  Kept
    BY <2>1, <2>3 DEF ForeignAppears, CloneTypes
  <2>4. UNCHANGED final => Kept
    OBVIOUS
  <2>5. ASSUME NEW g \in Guards, Begin(g) \/ Call(g), ~Rename(g)
        PROVE  UNCHANGED final
    <3>1. CASE \/ Begin(g) \/ Bind(g) \/ Create(g) \/ Reject(g) \/ InsertRow(g) \/ InsertFails(g)
               \/ StartJob(g) \/ StartRefused(g) \/ WriteMarker(g) \/ Transfer(g)
               \/ TransferEnds(g) \/ Checkout(g)
      BY <3>1 DEF Begin, Bind, Create, Reject, InsertRow, InsertFails, StartJob, StartRefused,
         WriteMarker, Transfer, TransferEnds, Checkout, diskVars
    <3>2. CASE \/ Persist(g) \/ Register(g) \/ Attach(g) \/ RemoveMarker(g) \/ Complete(g)
               \/ Finish(g) \/ Succeed(g) \/ Seal(g) \/ Undo(g) \/ UndoMarker(g) \/ Close(g)
               \/ CloseJob(g) \/ Partial(g) \/ PartialJob(g)
      BY <3>2 DEF Persist, Register, Attach, RemoveMarker, Complete, Finish, Succeed, Seal, Undo,
         UndoMarker, Close, CloseJob, Partial, PartialJob, diskVars
    <3> QED
      BY <2>5, <3>1, <3>2 DEF Call
  <2>6. ASSUME NEW id \in Ids,
               CancelCommand(id) \/ TaskCenterCancel(id) \/ Classify(id) \/ CloseInterrupted(id)
        PROVE  UNCHANGED final
    BY <2>6 DEF CancelCommand, TaskCenterCancel, Classify, CloseInterrupted, cloneVars, diskVars
  <2>7. CASE Crash \/ Startup \/ UNCHANGED vars
    BY <2>4, <2>7 DEF Crash, Startup, vars, cloneVars, diskVars
  <2> HIDE DEF Kept
  <2> QED
    BY <1>1, <2>2, <2>3, <2>4, <2>5, <2>6, <2>7 DEF Next
<1>2. CloneInv /\ [Next]_vars => [Kept]_vars
  BY <1>1
<1> QED
  BY <1>2, CloneInvariant, PTL DEF Spec, FinalIsKept

-----------------------------------------------------------------------------
\* The clones use registry and job table as they are meant to be used: every
\* behaviour of theirs is one of either alone, so it implements ResourceLease
\* and JobLifecycle, and a job that is finished stays as it is.
THEOREM CloneImplementsBoth ==
  Spec => RegSpec /\ ImplementsLease /\ JobsSpec /\ TerminalRowsAreFrozen /\ ImplementsLifecycle
<1>1. Init => RegInit /\ JobsInit
  BY DEF Init, AppInit
<1>2. CloneInv /\ [Next]_vars => [RegNext]_regVars
  BY StepOfRegistry
<1>3. CloneInv /\ [Next]_vars => [JobsNext]_jobVars
  BY StepOfTable
<1>4. Spec => RegSpec
  BY <1>1, <1>2, CloneInvariant, PTL DEF Spec, RegSpec
<1>5. Spec => JobsSpec
  BY <1>1, <1>3, CloneInvariant, PTL DEF Spec, JobsSpec
<1> QED
  BY <1>4, <1>5, RegistryImplementsLease, TerminalRowsStayFrozen, TableImplementsLifecycle
=============================================================================
