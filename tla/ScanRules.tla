------------------------------ MODULE ScanRules ------------------------------
(***************************************************************************)
(* The rules on names and paths: which directories of a project a scan     *)
(* enters and which paths a call may name (git/service.rs), where a clone  *)
(* may go (git/transport/clone.rs).                                        *)
(*                                                                         *)
(* A name, a pattern and the text of a path are sequences of characters,   *)
(* and a path of directories is a sequence of names.  The program matches  *)
(* bytes: a character outside ASCII takes more than one "?".  The limits   *)
(* on lengths are left out but for MaxDepth, and so are zero bytes.        *)
(***************************************************************************)
EXTENDS Integers, Sequences, SequencesExt

CONSTANTS
  DefaultExcludes,  \* the names that are never entered; the clone has them too
  Devices,          \* the names Windows keeps for itself, in upper case
  Letters,
  Upper,            \* function: a letter -> in upper case
  MaxDepth

ASSUME ScanRulesAssumption ==
  /\ MaxDepth \in Nat
  /\ Letters \subseteq DOMAIN Upper

Refused == <<"refused">>

Slash(c) == IF c = "\\" THEN "/" ELSE c
Slashed(text) == [i \in DOMAIN text |-> Slash(text[i])]

\* A path of directories as text.
Joined(path) == Tail(FlattenSeq([i \in DOMAIN path |-> <<"/">> \o path[i]]))

\* The names between the slashes.
Split(text) ==
  LET cuts == SetToSortSeq({0, Len(text) + 1} \cup {i \in DOMAIN text : text[i] = "/"}, <)
  IN [k \in 1..(Len(cuts) - 1) |-> SubSeq(text, cuts[k] + 1, cuts[k + 1] - 1)]

-----------------------------------------------------------------------------
\* glob_match: the lengths of the beginnings of value that the pattern has
\* matched so far, token by token.
Advance(value, reached, token) ==
  IF token = "*"
  THEN {i \in 0..Len(value) : \E j \in reached : j <= i}
  ELSE {i \in DOMAIN value : i - 1 \in reached /\ token \in {"?", value[i]}}

GlobMatch(pattern, value) ==
  Len(value) \in FoldLeft(LAMBDA reached, token : Advance(value, reached, token), {0}, pattern)

\* validate_excludes: the patterns without the blanks at their ends.
Trimmed(text) ==
  LET solid == {i \in DOMAIN text : text[i] # " "}
  IN IF solid = {} THEN <<>>
     ELSE SubSeq(text, CHOOSE i \in solid : \A j \in solid : i <= j,
                       CHOOSE i \in solid : \A j \in solid : j <= i)

ValidExcludes(patterns) ==
  IF \E p \in patterns : Trimmed(p) = <<>> THEN {Refused} ELSE {Trimmed(p) : p \in patterns}

ValidScanDepth(depth) == depth \in 0..MaxDepth

\* is_excluded: a pattern is for the name or for the whole path.
IsExcluded(path, patterns) ==
  \/ Last(path) \in DefaultExcludes
  \/ \E p \in patterns :
       GlobMatch(Slashed(p), Last(path)) \/ GlobMatch(Slashed(p), Joined(path))

-----------------------------------------------------------------------------
\* clone.rs has a matcher of its own, the same to the letter.
ClonePathIsExcluded(path, patterns) == IsExcluded(path, patterns)

\* validate_existing_project_destination, for the path below the root of the
\* project.
DestinationAllowed(depth, patterns, path) ==
  /\ Len(path) <= depth
  /\ \A i \in DOMAIN path : ~ClonePathIsExcluded(SubSeq(path, 1, i), patterns)

\* validate_clone_folder_name.
Stem(name) == Head(Split([i \in DOMAIN name |-> IF name[i] = "." THEN "/" ELSE name[i]]))

FolderNameAllowed(name) ==
  /\ name \notin {<<>>, <<".">>, <<".", ".">>}
  /\ Last(name) \notin {".", " "}
  /\ {"/", "\\"} \cap ToSet(name) = {}
  /\ [i \in DOMAIN Stem(name) |->
        IF Stem(name)[i] \in DOMAIN Upper THEN Upper[Stem(name)[i]] ELSE Stem(name)[i]] \notin Devices

-----------------------------------------------------------------------------
\* validate_relative_path: the path a stage, an unstage or a diff names.
Drive(text) ==
  /\ Len(text) >= 2 /\ text[1] \in Letters /\ text[2] = ":"
  /\ Len(text) = 2 \/ text[3] \in {"/", "\\"}

RelativePath(text) ==
  IF \/ text = <<>> \/ text[1] \in {"/", "\\"} \/ Drive(text)
     \/ \E name \in ToSet(Split(Slashed(text))) :
          name \in {<<>>, <<".">>, <<".", ".">>} \/ ":" \in ToSet(name)
  THEN Refused ELSE Slashed(text)
=============================================================================
