------------------------------ MODULE Repositories ------------------------------
(***************************************************************************)
(* The repositories of a project in git/service.rs: the scan with its      *)
(* workers, refreshing, changes and diffs, staging and committing, and the *)
(* snapshots and relations they leave in the database (git/repository.rs). *)
(*                                                                         *)
(* A repository has a lock, the gate lets ReadLimit reading gits run, and  *)
(* the project has a lock that the scan holds.  A thread is a call of the  *)
(* user or a worker of the scan.  git is a step: it may fail, a writing    *)
(* git may fail with its work done, and a message that is too long and not *)
(* ASCII makes the thread panic, which poisons the lock it holds.          *)
(* A repository is the directory the walk found, and its row is not        *)
(* modelled.  Not in the code: `touched`, the repositories that have       *)
(* changed since they were read, or whose refresh could not be stored, or  *)
(* was stored behind a row of a clock that has been set back since.        *)
(***************************************************************************)
EXTENDS GitOutput, ProjectWalk

CONSTANTS
  Calls, Workers,
  Roots,        \* directories a project may be at
  Disks,        \* what may be on the disk
  Trees,        \* what a repository may be like at first
  Opened,       \* bound: the repositories that the user works in
  Edits,        \* what the user does there: <<path, index, working tree>>
  Requests,     \* the sets of paths a call may ask for, {} for all
  ReadLimit,
  MaxCalls, MaxScans, \* bounds
  MaxEdits,     \* bound: what the user does to a repository beside the program
  MaxTicks      \* bound: what the clock of the machine may say

VARIABLES
  disk,         \* root -> what it has
  project,      \* the root of the project, or Gone
  relations,    \* the repositories related to it
  trusted,
  tree,         \* repository -> its files
  rows,         \* repository -> its snapshots, in the order they were stored
  lock,         \* repository -> who holds its lock, Free or Poisoned
  reading,      \* the threads with a permit of the gate
  thread,
  scan,
  calls, scans, edits,
  touched

disks   == <<disk, tree, edits>>
stored  == <<rows, touched>>
run     == <<calls, scans>>
repositoryVars == <<disk, project, relations, trusted, tree, rows, lock, reading,
                    thread, scan, calls, scans, edits, touched>>

Gone     == "gone"
Free     == "free"
Poisoned == "poisoned"
Threads  == Calls \cup Workers
\* "refresh": get_repository_snapshot and get_changes too.
Ops      == {"refresh", "diff", "stage", "unstage", "commit"}
Writes   == {"stage", "unstage", "commit"}

ASSUME RepositoriesAssumption ==
  /\ Roots \subseteq Dirs /\ Opened \subseteq Dirs
  /\ Calls \cap Workers = {} /\ Threads \cap {Free, Poisoned} = {}
  /\ Trees # {} /\ Trees \subseteq TreeStates
  /\ Edits \subseteq Paths \X IndexContents \X FileContents
  /\ {} \in Requests /\ Requests \subseteq SUBSET Paths
  /\ ReadLimit \in Nat \ {0} /\ Cardinality(Workers) = ReadLimit
  /\ {MaxCalls, MaxScans, MaxEdits, MaxTicks} \subseteq Nat

\* What a disk has for a project at a root: what the walk finds and reports,
\* and what it should find.
Has(d, root) ==
  [found |-> Walk(d, root).found, failures |-> Walk(d, root).failures, wanted |-> Wanted(d, root)]

\* What a scan relies on: the walk finds nothing else than it should, and what
\* it does not find it reports.
WalkIsComplete ==
  \A d \in Disks, root \in Roots :
    LET has == Has(d, root)
    IN has.found \subseteq has.wanted /\ has.wanted \subseteq has.found \cup has.failures

\* A thread that has done nothing yet.
Call(at, op, dir, want, staged, all) ==
  [at |-> at, op |-> op, dir |-> dir, want |-> want, staged |-> staged, all |-> all,
   read |-> CHOOSE t \in Trees : TRUE, wrote |-> FALSE, ok |-> TRUE, same |-> TRUE, listed |-> {}]

Idle   == Call("idle", "none", Gone, {}, FALSE, FALSE)
NoScan == [at |-> "idle", root |-> Gone, ready |-> {}, queue |-> {}, records |-> {},
           failures |-> {}, dead |-> {}]

RepositoriesInit ==
  /\ \E d \in Disks : disk = [root \in Roots |-> Has(d, root)]
  /\ project \in Roots /\ relations = {} /\ trusted = {}
  /\ \E t \in Trees : tree = [r \in UNION {disk[root].found \cup disk[root].wanted : root \in Roots} |-> t]
  /\ rows = [r \in DOMAIN tree |-> <<>>]
  /\ lock = [r \in DOMAIN tree |-> Free] /\ reading = {}
  /\ thread = [t \in Threads |-> Idle]
  /\ scan = NoScan
  /\ calls = 0 /\ scans = 0 /\ edits = 0
  /\ touched = DOMAIN tree

-----------------------------------------------------------------------------
\* The snapshots.  latest_for_repository orders by time and then by row: the
\* newest of some rows.  Mutant: by time alone, which leaves the first of two
\* in a tick.
Newest_FirstInTick(s, among) ==
  s[CHOOSE i \in among : \A j \in among :
      s[j].time < s[i].time \/ (s[j].time = s[i].time /\ i <= j)]

Newest(s, among) ==
  s[CHOOSE i \in among : \A j \in among :
      s[j].time < s[i].time \/ (s[j].time = s[i].time /\ j <= i)]

Latest(s)     == Newest(s, DOMAIN s)
Successful(s) == {i \in DOMAIN s : ~s[i].error}

\* Of all rows only the newest success and the newest row are ever looked at.
Keep(s) == <<Newest(s, IF Successful(s) = {} THEN DOMAIN s ELSE Successful(s)), Latest(s)>>

\* The time of the machine when a row is written.  It need not be later than at
\* the row before: the clock may have been set back.
Now == 0..MaxTicks

\* A row is ahead of the clock, and hides what is stored now.
Ahead(s, now) == \E i \in DOMAIN s : now < s[i].time

Row(t, now) == [time |-> now, counts |-> Count(Parse(Status(t))), error |-> FALSE]
NoCounts == Count({})

\* record_refresh_failure_locked: the last success, with the error.
Failure(s, now) ==
  IF Successful(s) = {} THEN [time |-> now, counts |-> NoCounts, error |-> TRUE]
  ELSE [Newest(s, Successful(s)) EXCEPT !.error = TRUE]

\* The counters as the tree itself has them.
Tally(t) ==
  LET pairs    == Renames(t, Paths)
      conflict == {p \in Paths : t[p].index = Unmerged}
      moved    == {p \in Paths : t[p].head # t[p].index}
      edited   == {p \in Paths : Tracked(t, p) /\ t[p].index # t[p].work}
  IN [staged |-> Cardinality(moved) - Cardinality(pairs),
      unstaged |-> Cardinality(edited \cup conflict),
      untracked |-> Cardinality({p \in Paths : Untracked(t, p)}),
      conflicted |-> Cardinality(conflict)]

-----------------------------------------------------------------------------
\* What the steps of a thread have in common.
Continue(t, at) == thread' = [thread EXCEPT ![t].at = at]
Unlock(r)  == lock' = [lock EXCEPT ![r] = Free]
Done(t)     == thread' = [thread EXCEPT ![t] = Idle]

\* A call is over, or a worker has a record of its repository.
Report(t, ok) ==
  IF t \in Workers
  THEN scan' = [scan EXCEPT !.records = @ \cup {[dir |-> thread[t].dir, ok |-> ok]},
                            !.failures = IF ok THEN @ ELSE @ \cup {thread[t].dir}]
  ELSE UNCHANGED scan

End(t, ok) == Unlock(thread[t].dir) /\ Report(t, ok) /\ Done(t)

\* sanitize_git_stderr cuts at byte 512, which may be within a character.
Panic(t) ==
  /\ lock' = [r \in DOMAIN lock |-> IF lock[r] = t THEN Poisoned ELSE lock[r]]
  /\ scan' = IF t \in Workers THEN [scan EXCEPT !.dead = @ \cup {t}] ELSE scan
  /\ reading' = reading \ {t}
  /\ Done(t)

\* The reads of the database before the lock: membership, and trust for a
\* write.
Begin(t) ==
  /\ t \in Calls /\ thread[t].at = "idle" /\ calls < MaxCalls
  /\ \E op \in Ops, r \in relations \cap Opened, want \in Requests, staged, all \in BOOLEAN :
       /\ op \in Writes => r \in trusted
       /\ op \in {"refresh", "commit"} => want = {} /\ ~staged /\ ~all
       /\ op \in {"stage", "unstage"} => ~staged /\ (all <=> want = {}) /\ (all => op = "stage")
       /\ op = "diff" => ~all
       /\ thread' = [thread EXCEPT ![t] = Call("lock", op, r, want, staged, all)]
  /\ calls' = calls + 1
  /\ UNCHANGED <<disks, stored, project, relations, trusted, lock, reading, scan, scans>>

Lock(t) ==
  /\ thread[t].at = "lock"
  /\ \/ lock[thread[t].dir] = Free
        /\ lock' = [lock EXCEPT ![thread[t].dir] = t]
        /\ Continue(t, "gate") /\ UNCHANGED <<reading, scan>>
     \/ lock[thread[t].dir] = Poisoned /\ Panic(t)
  /\ UNCHANGED <<disks, stored, project, relations, trusted, run>>

\* ReadGate::acquire.
Acquire(t, from, to) ==
  /\ thread[t].at = from
  /\ Cardinality(reading) < ReadLimit
  /\ reading' = reading \cup {t}
  /\ Continue(t, to)
  /\ UNCHANGED <<disks, stored, project, relations, trusted, lock, scan, run>>

\* read_status: one permit for the names of the filters, if the repository is
\* not trusted, and for the status.  Mutant: an error does not give
\* it back.
ReadStatus_KeepsPermit(t) ==
  /\ thread[t].at = "status"
  /\ \/ /\ thread' = [thread EXCEPT ![t].at = "publish", ![t].read = tree[thread[t].dir]]
        /\ touched' = touched \ {thread[t].dir}
        /\ reading' = reading \ {t}
        /\ UNCHANGED <<lock, scan>>
     \/ /\ Continue(t, "record")
        /\ UNCHANGED <<reading, lock, scan, touched>>
     \/ Panic(t) /\ UNCHANGED touched
  /\ UNCHANGED <<disks, rows, project, relations, trusted, run>>

ReadStatus(t) ==
  /\ thread[t].at = "status"
  /\ \/ /\ thread' = [thread EXCEPT ![t].at = "publish", ![t].read = tree[thread[t].dir]]
        /\ touched' = touched \ {thread[t].dir}
        /\ reading' = reading \ {t}
        /\ UNCHANGED <<lock, scan>>
     \/ /\ Continue(t, "record")
        /\ reading' = reading \ {t}
        /\ UNCHANGED <<lock, scan, touched>>
     \/ Panic(t) /\ UNCHANGED touched
  /\ UNCHANGED <<disks, rows, project, relations, trusted, run>>

\* refresh_remotes, whose error is dropped, and the new snapshot.
Publish(t) ==
  LET r == thread[t].dir
  IN /\ thread[t].at = "publish"
     /\ Cardinality(reading) < ReadLimit
     /\ \/ /\ \E now \in Now :
                /\ rows' = [rows EXCEPT ![r] = Keep(Append(@, Row(thread[t].read, now)))]
                /\ touched' = IF Ahead(rows[r], now) THEN touched \cup {r} ELSE touched
           /\ Continue(t, "refreshed") /\ UNCHANGED <<lock, scan, reading>>
        \/ Continue(t, "record") /\ UNCHANGED <<stored, lock, scan, reading>>
        \/ Panic(t) /\ UNCHANGED stored
     /\ UNCHANGED <<disks, project, relations, trusted, run>>

\* record_refresh_failure_locked, and the end of what could not be refreshed.
RecordFailure(t) ==
  LET r == thread[t].dir
  IN /\ thread[t].at = "record"
     /\ \/ /\ \E now \in Now : rows' = [rows EXCEPT ![r] = Keep(Append(@, Failure(@, now)))]
           /\ UNCHANGED touched
        \/ touched' = touched \cup {r} /\ UNCHANGED rows
     /\ End(t, FALSE)
     /\ UNCHANGED <<disks, project, relations, trusted, reading, run>>

-----------------------------------------------------------------------------
\* After the refresh.  The checks on what it has read; a diff goes on without
\* the lock.
Accepted(t) ==
  LET changes == Parse(Status(thread[t].read))
  IN CASE thread[t].op = "commit" -> Count(changes).staged > 0
       [] thread[t].op \in {"stage", "unstage", "diff"} -> thread[t].want \subseteq Allowed(changes)
       [] thread[t].op \in {"refresh", "none"} -> FALSE

Refreshed(t) ==
  /\ thread[t].at = "refreshed"
  /\ \/ /\ ~Accepted(t) \/ thread[t].wrote
        /\ End(t, thread[t].ok) /\ UNCHANGED reading
     \/ thread[t].wrote /\ ~thread[t].ok /\ Panic(t)
     \/ /\ Accepted(t) /\ ~thread[t].wrote /\ thread[t].op \in Writes
        /\ Continue(t, "git") /\ UNCHANGED <<lock, reading, scan>>
     \/ /\ Accepted(t) /\ thread[t].op = "diff"
        /\ Unlock(thread[t].dir)
        /\ Continue(t, "summary") /\ UNCHANGED <<reading, scan>>
  /\ UNCHANGED <<disks, stored, project, relations, trusted, run>>

\* git add, git restore --staged and git commit, which wants something to
\* commit and no conflict.
Written(t) ==
  LET r  == thread[t].dir
      to == IF thread[t].all THEN Paths ELSE thread[t].want
  IN CASE thread[t].op = "stage"   ->
            [p \in Paths |-> IF p \in to THEN [tree[r][p] EXCEPT !.index = tree[r][p].work] ELSE tree[r][p]]
       [] thread[t].op = "unstage" ->
            [p \in Paths |-> IF p \in to THEN [tree[r][p] EXCEPT !.index = tree[r][p].head] ELSE tree[r][p]]
       [] thread[t].op = "commit"  ->
            [p \in Paths |-> [tree[r][p] EXCEPT !.head = tree[r][p].index]]

Writable(t) ==
  thread[t].op = "commit" => \A p \in Paths : tree[thread[t].dir][p].index # Unmerged

\* The git of a write, and refresh_after_write, whatever git has said.
\* Mutant: only if git has succeeded.
RunGit_RefreshIfOk(t) ==
  LET r == thread[t].dir
  IN /\ thread[t].at = "git"
     /\ \E did, ok \in BOOLEAN :
          /\ did => Writable(t)
          /\ ok => did
          /\ tree' = IF did THEN [tree EXCEPT ![r] = Written(t)] ELSE tree
          /\ IF ok
             THEN thread' = [thread EXCEPT ![t].at = "gate", ![t].wrote = TRUE] /\ UNCHANGED lock
             ELSE Done(t) /\ Unlock(r)
     /\ UNCHANGED <<disk, stored, project, relations, trusted, reading,
                    scan, run, edits>>

RunGit(t) ==
  LET r == thread[t].dir
  IN /\ thread[t].at = "git"
     /\ \E did, ok \in BOOLEAN :
          /\ did => Writable(t)
          /\ ok => did
          /\ tree' = IF did THEN [tree EXCEPT ![r] = Written(t)] ELSE tree
          /\ thread' = [thread EXCEPT ![t].at = "gate", ![t].wrote = TRUE, ![t].ok = ok]
     /\ UNCHANGED <<disk, stored, project, relations, trusted, lock, reading,
                    scan, run, edits>>

-----------------------------------------------------------------------------
\* get_diff after its refresh.
Chosen(t) == Selected(Parse(Status(thread[t].read)), thread[t].want, thread[t].staged)
Safe(t)   == SafeSummary(Parse(Status(thread[t].read)), thread[t].want, thread[t].staged)

\* git is not started in a repository that is not trusted, nor for untracked
\* files alone.
Summarise(t) ==
  /\ thread[t].at = "summary"
  /\ thread' = [thread EXCEPT ![t] =
       IF @.dir \in trusted /\ (Chosen(t) = {} \/ \E e \in Chosen(t) : e.kind # "untracked")
       THEN [@ EXCEPT !.at = "diffgate"]
       ELSE [@ EXCEPT !.at = "listed", !.listed = Safe(t)]]
  /\ UNCHANGED <<disks, stored, project, relations, trusted, lock, reading, scan, run>>

\* Without the patch if it is too long.
RunDiff(t) ==
  LET now == tree[thread[t].dir]
      parsed == ParsePatch(Patch(now, thread[t].want, thread[t].staged))
  IN /\ thread[t].at = "diff"
     /\ \/ /\ \E listed \in {Merge(parsed, Safe(t)), Safe(t)} :
                thread' = [thread EXCEPT ![t].at = "listed", ![t].listed = listed,
                                         ![t].same = (now = thread[t].read)]
           /\ reading' = reading \ {t} /\ UNCHANGED <<lock, scan>>
        \/ Done(t) /\ reading' = reading \ {t} /\ UNCHANGED <<lock, scan>>
        \/ Panic(t)
     /\ UNCHANGED <<disks, stored, project, relations, trusted, run>>

EndDiff(t) ==
  /\ thread[t].at = "listed" /\ Done(t)
  /\ UNCHANGED <<disks, stored, project, relations, trusted, lock, reading, scan, run>>

-----------------------------------------------------------------------------
\* scan_project_with_progress_limit, which holds the lock of the project.
BeginScan ==
  /\ scan.at = "idle" /\ scans < MaxScans
  /\ project # Gone
  /\ scan' = [NoScan EXCEPT !.at = "walked", !.root = project,
                             !.failures = disk[project].failures]
  /\ scans' = scans + 1
  /\ UNCHANGED <<disks, stored, project, relations, trusted, lock, reading, thread, calls>>

\* get_or_create and add_to_project, candidate by candidate.
Relate ==
  /\ scan.at = "walked"
  /\ \E ready \in SUBSET disk[scan.root].found :
       /\ project = Gone => ready = {}
       /\ relations' = relations \cup ready
       /\ scan' = [scan EXCEPT !.at = "refresh", !.ready = ready, !.queue = ready,
                               !.failures = @ \cup (disk[scan.root].found \ ready)]
  /\ UNCHANGED <<disks, stored, project, trusted, lock, reading, thread, run>>

Take(w) ==
  /\ scan.at = "refresh"
  /\ w \in Workers \ scan.dead /\ thread[w].at = "idle"
  /\ \E r \in scan.queue :
       /\ scan' = [scan EXCEPT !.queue = @ \ {r}]
       /\ thread' = [thread EXCEPT ![w] = Call("lock", "none", r, {}, FALSE, FALSE)]
  /\ UNCHANGED <<disks, stored, project, relations, trusted, lock, reading, run>>

\* thread::scope: it waits for all workers, and panics if one has.
Join ==
  /\ scan.at = "refresh"
  /\ \A w \in Workers : thread[w].at = "idle"
  /\ scan.queue = {} \/ Workers \subseteq scan.dead
  /\ scan' = [scan EXCEPT !.at = IF scan.dead = {} THEN "done" ELSE "poisoned"]
  /\ UNCHANGED <<disks, stored, project, relations, trusted, lock, reading, thread, run>>

Return ==
  /\ scan.at = "done"
  /\ scan' = NoScan
  /\ UNCHANGED <<disks, stored, project, relations, trusted, lock, reading, thread, run>>

-----------------------------------------------------------------------------
\* update_project with a new root, and delete_project, under the lock of the
\* project.  Mutant: without it.
Move_Unlocked ==
  /\ project # Gone
  /\ project' \in (Roots \cup {Gone}) \ {project}
  /\ relations' = {}
  /\ UNCHANGED <<disks, stored, trusted, lock, reading, thread, scan, run>>

Move ==
  /\ project # Gone /\ scan.at = "idle"
  /\ project' \in (Roots \cup {Gone}) \ {project}
  /\ relations' = {}
  /\ UNCHANGED <<disks, stored, trusted, lock, reading, thread, scan, run>>

\* trust_repository.  Nothing takes trust back.
Trust ==
  /\ \E r \in (relations \cap Opened) \ trusted : trusted' = trusted \cup {r}
  /\ UNCHANGED <<disks, stored, project, relations, lock, reading, thread, scan, run>>

\* The user, beside the program, a file at a time.
Edit ==
  /\ edits < MaxEdits
  /\ edits' = edits + 1
  /\ \E r \in relations \cap Opened, edit \in Edits :
       /\ tree' = [tree EXCEPT ![r][edit[1]] = [@ EXCEPT !.index = edit[2], !.work = edit[3]]]
       /\ touched' = touched \cup {r}
  /\ UNCHANGED <<disk, rows, project, relations, trusted, lock, reading, thread, scan, run>>

Step(t) ==
  \/ Lock(t) \/ Acquire(t, "gate", "status") \/ ReadStatus(t) \/ Publish(t) \/ RecordFailure(t)
  \/ Refreshed(t) \/ RunGit(t)
  \/ Summarise(t) \/ Acquire(t, "diffgate", "diff") \/ RunDiff(t) \/ EndDiff(t)

ScanStep == Relate \/ (\E w \in Workers : Take(w)) \/ Join \/ Return

RepositoriesNext ==
  \/ \E t \in Threads : Begin(t) \/ Step(t)
  \/ BeginScan \/ ScanStep
  \/ Move \/ Trust \/ Edit

RepositoriesSpec == RepositoriesInit /\ [][RepositoriesNext]_repositoryVars

-----------------------------------------------------------------------------
\* The snapshot the overview shows is the state of the repository, or says
\* that it could not be read: unless somebody else has changed it since, the
\* database has refused, a panic has poisoned the lock, or the clock is behind
\* that of an earlier snapshot, which is then shown in its place
\* (refresh_repository_inner_locked, record_refresh_failure_locked,
\* latest_for_repository).
StoredIsCurrent ==
  \A r \in DOMAIN rows :
    lock[r] = Free /\ r \notin touched /\ rows[r] # <<>> =>
      LET row == Latest(rows[r]) IN row.error \/ row.counts = Tally(tree[r])

\* A diff names every change that was selected by the status, though git has
\* run later and without the lock; and if nothing has changed in between, it
\* names nothing else, but for a line of a file that looks like a header
\* (get_diff, parse_diff_summary).
DiffNamesTheSelection ==
  \A t \in Calls :
    thread[t].at = "listed" =>
      LET names == {f.path : f \in thread[t].listed}
      IN /\ {e.path : e \in Chosen(t)} \subseteq names
         /\ thread[t].same => names \ {Phantom} \subseteq Allowed(Chosen(t))

\* A scan that returns has a record of every repository of the project that
\* could be stored, and a failure of every other; and whatever moves or is
\* deleted, only repositories of the project are related to it.
ScanIsComplete ==
  LET wanted == IF project = Gone THEN {} ELSE disk[project].wanted
  IN /\ relations \subseteq wanted
     /\ scan.at = "done" =>
          /\ {x.dir : x \in scan.records} = scan.ready
          /\ Cardinality(scan.records) = Cardinality(scan.ready)
          /\ \A r \in wanted : [dir |-> r, ok |-> TRUE] \in scan.records \/ r \in scan.failures

\* Nobody waits for somebody who waits for him: a permit is with a thread
\* whose git runs, which waits for nothing, and the lock of a repository with
\* one that has it as its only lock and waits for a permit at most.  So every
\* call ends and every scan joins its workers, also when one has panicked
\* (ReadGate, write_lock, the guards and scopes that hold them).
HoldersAreAtWork ==
  /\ \A t \in reading : thread[t].at \in {"status", "diff"}
  /\ \A r \in DOMAIN lock :
       lock[r] \in Threads =>
         /\ thread[lock[r]].dir = r
         /\ thread[lock[r]].at \in {"gate", "status", "publish", "record", "refreshed", "git"}
=============================================================================
