------------------------------- MODULE GitOutput -------------------------------
(***************************************************************************)
(* What git prints of a repository, and what git/parser.rs and the helpers *)
(* of git/service.rs make of it: the status and the patch of a diff.       *)
(*                                                                         *)
(* A repository is a tree: for each path the content HEAD, the index and   *)
(* the working tree have of it.  A record of the status and a line of a    *)
(* patch are records of what the parser tells apart; their bytes, the      *)
(* quoting of paths, branch headers and the formats of git that the        *)
(* program does not ask for are left out.  Files whose name or content is  *)
(* not UTF-8 or that are too long are among the failures of the caller.    *)
(***************************************************************************)
EXTENDS Integers, Sequences, FiniteSets, SequencesExt

CONSTANTS
  Paths,
  Contents,     \* the contents of a file
  Dashed        \* those with a line that begins with "-- " or "++ "

Missing  == 0
Unmerged == -1            \* the index has two or three versions of it
NoPath   == "/dev/null"
Phantom  == "line"        \* what the parser takes for a path in a line of a file

ASSUME GitOutputAssumption ==
  /\ IsFiniteSet(Paths) /\ NoPath \notin Paths
  /\ Contents \subseteq Nat \ {0}
  /\ Dashed \subseteq Contents

FileContents  == Contents \cup {Missing}
IndexContents == FileContents \cup {Unmerged}
TreeStates    == [Paths -> [head: FileContents, index: IndexContents, work: FileContents]]

Tracked(t, p)   == t[p].index # Missing
Untracked(t, p) == ~Tracked(t, p) /\ t[p].work # Missing

Code(from, to) ==
  CASE from = to -> "."
    [] from # to /\ to = Unmerged -> "U"
    [] from # to /\ from = Missing -> "A"
    [] from # to /\ to = Missing -> "D"
    [] from # to /\ to # Unmerged /\ from # Missing /\ to # Missing -> "M"

IndexCode(f) == Code(f.head, f.index)
WorkCode(f) ==
  CASE f.index = Unmerged -> "U"
    [] f.index = Missing -> "."
    [] f.index \notin {Unmerged, Missing} -> Code(f.index, f.work)

\* Among `within`, the pairs that git reports as one renaming: each path is in
\* one of them at most, and no more can be paired.
Renamable(t, within) ==
  {r \in within \X within : /\ t[r[1]].head # Missing /\ t[r[1]].index = Missing
                            /\ t[r[2]].head = Missing /\ t[r[2]].index = t[r[1]].head}

Matching(pairs) == \A r, s \in pairs : r = s \/ (r[1] # s[1] /\ r[2] # s[2])

Renames(t, within) ==
  LET candidates == Renamable(t, within)
  IN CHOOSE pairs \in SUBSET candidates :
       /\ Matching(pairs)
       /\ \A r \in candidates \ pairs : ~Matching(pairs \cup {r})

Record(mark, index, work, path, orig) ==
  [mark |-> mark, index |-> index, work |-> work, path |-> path, orig |-> orig]

\* git status --porcelain=v2: a path can have two records, one for what the
\* index has removed and one for what has no place in it.
Status(t) ==
  LET renames == Renames(t, Paths)
      paired  == UNION {{r[1], r[2]} : r \in renames}
  IN     {Record("2", "R", WorkCode(t[r[2]]), r[2], r[1]) : r \in renames}
    \cup {Record("1", IndexCode(t[p]), WorkCode(t[p]), p, NoPath) :
            p \in {q \in Paths \ paired : /\ t[q].index # Unmerged
                                          /\ <<IndexCode(t[q]), WorkCode(t[q])>> # <<".", ".">>}}
    \cup {Record("u", "U", "U", p, NoPath) : p \in {q \in Paths : t[q].index = Unmerged}}
    \cup {Record("?", "?", "?", p, NoPath) : p \in {q \in Paths : Untracked(t, q)}}

-----------------------------------------------------------------------------
\* kind_from_status: the index goes first.
KindOf(code) ==
  CASE code = "A" -> "added"
    [] code = "D" -> "deleted"
    [] code = "M" -> "modified"
    [] code = "R" -> "renamed"
    [] code = "U" -> "conflicted"
    [] code = "." -> "unknown"

Kind(r) ==
  CASE r.mark = "?" -> "untracked"
    [] r.mark = "u" -> "conflicted"
    [] r.mark = "2" -> "renamed"
    [] r.mark = "1" -> KindOf(IF r.index # "." THEN r.index ELSE r.work)

\* ChangeEntry::status_entry and ChangeEntry::untracked.
ChangeEntry(r) ==
  [path |-> r.path, orig |-> r.orig, kind |-> Kind(r), index |-> r.index, work |-> r.work,
   staged     |-> r.index \notin {".", "?"},
   unstaged   |-> r.work # ".",
   conflicted |-> r.mark = "u"]

\* parse_status_v2: the changes, and what the snapshot says of them.
Parse(records) == {ChangeEntry(r) : r \in records}

\* Mutant: an untracked file is an unstaged change.
Count_UntrackedTwice(changes) ==
  [staged     |-> Cardinality({e \in changes : e.staged}),
   unstaged   |-> Cardinality({e \in changes : e.unstaged}),
   untracked  |-> Cardinality({e \in changes : e.kind = "untracked"}),
   conflicted |-> Cardinality({e \in changes : e.conflicted})]

Count(changes) ==
  [staged     |-> Cardinality({e \in changes : e.staged}),
   unstaged   |-> Cardinality({e \in changes : e.unstaged /\ e.kind # "untracked"}),
   untracked  |-> Cardinality({e \in changes : e.kind = "untracked"}),
   conflicted |-> Cardinality({e \in changes : e.conflicted})]

\* validate_change_paths, without the limit on their number.
Allowed(changes) ==
  ({e.path : e \in changes} \cup {e.orig : e \in changes}) \ {NoPath}

-----------------------------------------------------------------------------
\* selected_diff_changes, and the first half of safe_diff_summary.
Selected(changes, requested, staged) ==
  {e \in changes : /\ IF staged THEN e.staged ELSE e.unstaged
                   /\ requested = {} \/ {e.path, e.orig} \cap requested # {}}

SideKind(e, staged) ==
  LET code == IF staged THEN e.index ELSE e.work
  IN CASE e.conflicted -> "conflicted"
       [] ~e.conflicted /\ code \in {"A", "M", "D", "R", "U"} -> KindOf(code)
       [] ~e.conflicted /\ code \notin {"A", "M", "D", "R", "U"} -> e.kind

DiffFile(path, old, new) == [path |-> path, old |-> old, new |-> new]

\* safe_diff_summary: what the status alone says of a diff.
SafeFile(e, staged) ==
  LET kind == SideKind(e, staged)
  IN CASE kind \in {"added", "untracked"} -> DiffFile(e.path, NoPath, e.path)
       [] kind = "deleted" -> DiffFile(e.path, e.path, NoPath)
       [] kind = "renamed" -> DiffFile(e.path, e.orig, e.path)
       [] kind \in {"modified", "conflicted", "unknown"} -> DiffFile(e.path, e.path, e.path)

SafeSummary(changes, requested, staged) ==
  {SafeFile(e, staged) : e \in Selected(changes, requested, staged)}

\* git diff [--cached] -- requested: the lines the parser looks at.
Side(t, p, staged) ==
  IF staged THEN <<t[p].head, t[p].index>> ELSE <<t[p].index, t[p].work>>

Line(kind, a, b) == [kind |-> kind, old |-> a, new |-> b]

Hunk(from, to) ==
     (IF from \in Dashed THEN <<Line("---", Phantom, NoPath)>> ELSE <<>>)
  \o (IF to \in Dashed THEN <<Line("+++", NoPath, Phantom)>> ELSE <<>>)

\* A file with several versions in the index has a combined patch, whose
\* header is not "diff --git".
Section(t, p, staged) ==
  LET side == Side(t, p, staged)
      name(c) == IF c = Missing THEN NoPath ELSE p
  IN (IF side[1] = Unmerged THEN <<>> ELSE <<Line("diff --git", p, p)>>)
     \o <<Line("---", name(side[1]), NoPath), Line("+++", NoPath, name(side[2]))>>
     \o Hunk(side[1], side[2])

RenameSection(old, new) ==
  <<Line("diff --git", old, new), Line("rename from", old, NoPath),
    Line("rename to", NoPath, new)>>

Patch(t, requested, staged) ==
  LET within  == IF requested = {} THEN Paths ELSE requested
      renames == IF staged THEN Renames(t, within) ELSE {}
      paired  == UNION {{r[1], r[2]} : r \in renames}
      changed == {p \in within \ paired :
                    /\ Side(t, p, staged)[1] # Side(t, p, staged)[2]
                    /\ Side(t, p, staged)[2] # Unmerged
                    /\ staged \/ Tracked(t, p)}
  IN FlattenSeq(SetToSeq({Section(t, p, staged) : p \in changed}
                         \cup {RenameSection(r[1], r[2]) : r \in renames}))

\* parse_diff_summary: every line is looked at, those of the files too.
Retitle(file, line) ==
  CASE line.kind \in {"---", "rename from"} -> [file EXCEPT !.old = line.old]
    [] line.kind \in {"+++", "rename to"} /\ line.new = NoPath -> file
    [] line.kind \in {"+++", "rename to"} /\ line.new # NoPath ->
         [file EXCEPT !.path = line.new, !.new = line.new]

ParseLine(files, line) ==
  CASE line.kind = "diff --git" -> Append(files, DiffFile(line.new, line.old, line.new))
    [] line.kind # "diff --git" /\ files # <<>> ->
         [files EXCEPT ![Len(files)] = Retitle(@, line)]
    [] line.kind = "---" /\ line.old # NoPath /\ files = <<>> ->
         <<DiffFile(line.old, NoPath, line.old)>>
    [] OTHER -> files

ParsePatch(lines) ==
  LET after[n \in 0..Len(lines)] ==
        IF n = 0 THEN <<>> ELSE ParseLine(after[n - 1], lines[n])
  IN after[Len(lines)]

\* merge_diff_summaries of git/service.rs.  Mutant: the patch alone.
Merge_PatchOnly(parsed, safe) == ToSet(parsed)

Merge(parsed, safe) == ToSet(parsed) \cup safe
=============================================================================
