------------------------------ MODULE ProjectWalk ------------------------------
(***************************************************************************)
(* How a scan finds the repositories of a project: the walk of             *)
(* scan_project_with_progress_limit (git/service.rs) and detect_repository *)
(* (git/parser.rs).  Directories are a tree; a disk says what is in each   *)
(* of them:                                                                *)
(*   "plain"     nothing of git                                            *)
(*   "normal"    a .git directory that is complete                         *)
(*   "worktree"  a .git file that leads to a git directory                 *)
(*   "broken"    a .git file that leads nowhere                            *)
(*   "bare"      the files of a git directory itself                       *)
(*   "closed"    a directory that cannot be read                           *)
(* A .git directory that is not complete is as good as none.  Links and    *)
(* files are never entered and are no directories here, so that no         *)
(* directory is met twice.                                                 *)
(***************************************************************************)
EXTENDS Naturals, Sequences, FiniteSets, SequencesExt

CONSTANTS
  Dirs,
  Children,     \* directory -> its directories, in the order of their names
  Excluded,     \* directories whose name or path an exclude pattern matches
  ScanDepth,
  EntryLimit    \* how many directories a scan looks at

ASSUME ProjectWalkAssumption ==
  /\ IsFiniteSet(Dirs) /\ Excluded \subseteq Dirs
  /\ ScanDepth \in Nat /\ EntryLimit \in Nat
  /\ Children \in [Dirs -> Seq(Dirs)]

Below(d) == ToSet(Children[d])

\* d and what is above it, nearest first; n is more than the tree is deep.
Above[d \in Dirs, n \in 0..Cardinality(Dirs)] ==
  LET parents == {e \in Dirs : d \in Below(e)}
  IN IF n = 0 \/ parents = {} THEN <<d>>
     ELSE <<d>> \o Above[CHOOSE e \in parents : TRUE, n - 1]

Chain(d) == Above[d, Cardinality(Dirs)]
Within(root, d) == root \in ToSet(Chain(d))

-----------------------------------------------------------------------------
\* detect_repository: the nearest .git decides, and only without any is the
\* directory itself looked at.  The empty set: no repository.
Detect(disk, d) ==
  LET marks == SelectSeq(Chain(d), LAMBDA e : disk[e] \in {"normal", "worktree", "broken"})
  IN CASE marks # <<>> -> {Head(marks)} \ {e \in Dirs : disk[e] = "broken"}
       [] marks = <<>> -> {d} \cap {e \in Dirs : disk[e] = "bare"}

\* One round of the loop: the directory on top of the stack.
Visit(disk, root, s) ==
  LET d      == Head(s.stack).dir
      depth  == Head(s.stack).depth
      inside == {e \in Detect(disk, d) : Within(root, e)}
      beyond == Detect(disk, d) \ inside
      enters == inside = {} /\ depth < ScanDepth
      into   == IF ~enters \/ disk[d] = "closed" THEN <<>>
                ELSE SelectSeq(Children[d], LAMBDA e : e \notin Excluded)
  IN [stack    |-> [i \in DOMAIN into |-> [dir |-> into[i], depth |-> depth + 1]] \o Tail(s.stack),
      found    |-> s.found \cup inside,
      outside  |-> s.outside \cup beyond,
      failures |-> s.failures
                     \cup (IF beyond \subseteq s.outside THEN {} ELSE {d})
                     \cup (IF enters /\ disk[d] = "closed" THEN {d} ELSE {})]

\* The walk, after n rounds; found: the candidates, failures: the directories
\* that are reported.
Walk(disk, root) ==
  LET start == [stack |-> <<[dir |-> root, depth |-> 0]>>, found |-> {}, outside |-> {}, failures |-> {}]
      after[n \in 0..EntryLimit] ==
        IF n = 0 THEN start
        ELSE LET before == after[n - 1]
             IN IF before.stack = <<>> THEN before ELSE Visit(disk, root, before)
      last == after[EntryLimit]
  IN IF last.stack = <<>> THEN last
     ELSE [last EXCEPT !.failures = @ \cup {Head(last.stack).dir}]

-----------------------------------------------------------------------------
\* What a scan should find: a directory with a .git or, where no .git is above
\* it, a bare one, that is reached from the root by readable directories that
\* are neither excluded nor repositories themselves.
Repository(disk, d) == d \in Detect(disk, d)

OnTheWay(root, d) ==
  {e \in ToSet(Chain(d)) : Within(root, e)} \ {d}

Reachable(disk, root, d) ==
  /\ Within(root, d)
  /\ Cardinality(OnTheWay(root, d)) <= ScanDepth
  /\ \A e \in OnTheWay(root, d) : ~Repository(disk, e) /\ disk[e] # "closed"
  /\ \A e \in (OnTheWay(root, d) \cup {d}) \ {root} : e \notin Excluded

Wanted(disk, root) == {d \in Dirs : Reachable(disk, root, d) /\ Repository(disk, d)}
=============================================================================
