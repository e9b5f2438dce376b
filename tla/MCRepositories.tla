---------------------------- MODULE MCRepositories ----------------------------
(***************************************************************************)
(* Repositories on two disks.  One has two repositories side by side, one  *)
(* inside another, a .git file that leads nowhere and a repository that is *)
(* excluded; on the other the project itself lies in a repository.         *)
(***************************************************************************)
EXTENDS Repositories, ScanRules, PatchLimits, TLC

MCChildren == ("outer" :> <<"home">>) @@ ("home" :> <<"a", "b", "d", "e">>) @@ ("a" :> <<"c">>)
              @@ ("b" :> <<>>) @@ ("c" :> <<>>) @@ ("d" :> <<>>) @@ ("e" :> <<>>)

Disk(outer, a, b, c, d) ==
  [dir \in Dirs |-> CASE dir = "outer" -> outer [] dir = "home" -> "plain" [] dir = "a" -> a
                      [] dir = "b" -> b [] dir = "c" -> c [] dir = "d" -> d
                      [] dir = "e" -> "normal"]

MCDisks == {Disk("plain", "normal", "bare", "normal", "broken"),
            Disk("normal", "worktree", "bare", "plain", "plain")}

\* f is in HEAD, g is not.
File(index, work, head) == [head |-> head, index |-> index, work |-> work]
Tree(f, g) == [p \in {"f", "g"} |-> IF p = "f" THEN File(f[1], f[2], 1) ELSE File(g[1], g[2], 0)]

\* f untouched; renamed to g, and then edited with a line like a header.
MCTrees == {Tree(<<1, 1>>, <<0, 0>>), Tree(<<0, 0>>, <<1, 2>>)}

\* f is taken out of the index, or in conflict; g is new.
MCEdits == {<<"f", 0, 1>>, <<"f", -1, 1>>, <<"g", 0, 1>>}

\* The walk finds what it should on every disk of these, whatever is in the
\* project itself, in two directories of it and in one below.
ASSUME WalkFindsWhatIsWanted ==
  \A outer \in {"plain", "normal"}, home, a, b, c \in {"plain", "normal", "broken", "bare", "closed"} :
    LET layout == [Disk(outer, a, b, c, "plain") EXCEPT !["home"] = home]
    IN Walk(layout, "home").found = Wanted(layout, "home")

ASSUME WalkIsCompleteHere == WalkIsComplete

-----------------------------------------------------------------------------
\* What the rules on names and paths promise, on short texts.
Texts(chars, n) == UNION {[1..k -> chars] : k \in 0..n}

MCUpper == [c \in {"n", "u"} |-> IF c = "n" THEN "N" ELSE "U"]
MCDevices == {<<"N", "U">>}
MCDefaultExcludes == {<<"d">>, <<".", "g", "i", "t">>}

\* A pattern matches a name if it can be cut into pieces, one for each token,
\* where a * stands for any piece and another token for one character.
Denotes(pattern, value) ==
  \E cut \in [0..Len(pattern) -> 0..Len(value)] :
    /\ cut[0] = 0 /\ cut[Len(pattern)] = Len(value)
    /\ \A k \in DOMAIN pattern :
         \/ pattern[k] = "*" /\ cut[k - 1] <= cut[k]
         \/ /\ pattern[k] # "*" /\ cut[k] = cut[k - 1] + 1
            /\ pattern[k] \in {"?", value[cut[k]]}

ASSUME GlobsDenoteWhatTheySay ==
  \A pattern \in Texts({"a", "/", "*", "?"}, 3), value \in Texts({"a", "b", "/"}, 3) :
    GlobMatch(pattern, value) <=> Denotes(pattern, value)

\* Wherever a clone into a project may go, the scans of the project find it;
\* and they find nothing that a clone may not be put at.
PathOf == ("a" :> <<<<"a">>>>) @@ ("b" :> <<<<"b">>>>) @@ ("c" :> <<<<"a">>, <<"c">>>>)
          @@ ("d" :> <<<<"d">>>>) @@ ("e" :> <<<<"e">>>>)

Rules(depth, patterns) ==
  INSTANCE ProjectWalk WITH
    ScanDepth <- depth,
    Excluded <- {dir \in DOMAIN PathOf : IsExcluded(PathOf[dir], patterns)}

ASSUME ClonesAreScanned ==
  \A depth \in {x \in 0..3 : ValidScanDepth(x)}, dir \in DOMAIN PathOf,
     patterns \in {ValidExcludes(ps) :
                     ps \in SUBSET {<<" ">>, <<"a">>, <<" ", "c">>, <<"a", "\\", "?">>, <<"*", "/", "*">>}} \ {{Refused}} :
    LET layout == [x \in Dirs |-> IF x = dir THEN "normal" ELSE "plain"]
    IN DestinationAllowed(depth, patterns, PathOf[dir])
         <=> dir \in Rules(depth, patterns)!Walk(layout, "home").found

\* A path that is accepted stays below the repository, and reads the same when
\* it is given again; and a path that git lists is accepted as it is, unless a
\* name in it has a colon or a backslash.
Names(path) == ToSet(Split(path))
ASSUME PathsAreConfined ==
  \A text \in Texts({"n", "/", "\\", ".", ":"}, 5) :
    LET path == RelativePath(text)
    IN /\ path # Refused =>
            /\ RelativePath(path) = path /\ "\\" \notin ToSet(path)
            /\ {<<>>, <<".">>, <<".", ".">>} \cap Names(path) = {}
       /\ {<<>>, <<".">>, <<".", ".">>} \cap Names(text) = {} =>
            (path = text <=> {":", "\\"} \cap ToSet(text) = {})

\* The folder of a clone is one name, which the rules on paths accept too
\* unless it has a colon; but no device of Windows, whatever follows it.
ASSUME FoldersAreNames ==
  /\ \A name \in Texts({"n", "u", "/", "\\", ".", ":", " "}, 4) :
       FolderNameAllowed(name) =>
         Split(Slashed(name)) = <<name>> /\ (RelativePath(name) = name <=> ":" \notin ToSet(name))
  /\ ~FolderNameAllowed(<<"n", "U">>) /\ ~FolderNameAllowed(<<"n", "u", ".", "u">>)

-----------------------------------------------------------------------------
\* What the text of a diff promises: it is within the limits; it is called
\* truncated if and only if it would not have been, or a file was not read
\* whole; without that and without a reason it has every file whole; and a
\* file that is not text leaves no patch, unless the limit came before it.
MCHeader == <<1, 1>>
MCFiles == {[kind |-> "text", text |-> t] : t \in {<<>>, <<1>>, <<2, 2>>, <<5>>}}
           \cup {[kind |-> "other", text |-> <<>>], [kind |-> "nothing", text |-> <<>>]}

ASSUME PatchesAreHonest ==
  \A ran \in BOOLEAN, printed \in Texts({1, 3}, 3), files \in UNION {[1..n -> MCFiles] : n \in 0..3} :
    LET diff  == Diff(ran, printed, files)
        kinds == {files[i].kind : i \in DOMAIN files}
        texts == SelectSeq(files, LAMBDA f : f.kind = "text")
        whole == (IF ran THEN printed ELSE <<>>)
                   \o FlattenSeq([i \in DOMAIN texts |->
                        MCHeader \o [j \in DOMAIN texts[i].text |-> 1 + texts[i].text[j]]])
    IN /\ diff.size <= MaxBytes
       /\ diff.patch /\ "other" \notin kinds =>
            (diff.truncated <=> Size(whole) > MaxBytes \/ Len(whole) > MaxLines)
       /\ diff.patch /\ ~diff.truncated /\ diff.reason = "none" =>
            diff.size = Size(whole) /\ kinds \subseteq {"text"}
       /\ "other" \in kinds => ~diff.patch \/ diff.truncated
=============================================================================
