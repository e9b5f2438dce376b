----------------------------- MODULE PatchLimits -----------------------------
(***************************************************************************)
(* The text of a diff (git/service.rs, get_diff): what git has printed and *)
(* a patch of its own for every untracked file, cut off at MaxLines lines  *)
(* and MaxBytes bytes.                                                     *)
(*                                                                         *)
(* A text is the sequence of the lengths of its lines.  A file is what     *)
(* reading it gives: a text, or bytes that are none, or nothing, when it   *)
(* is gone, a link or outside the repository.  A cut in the middle of a    *)
(* character, which loses up to three bytes more, is left out.             *)
(***************************************************************************)
EXTENDS Integers, Sequences, SequencesExt

CONSTANTS
  MaxLines, MaxBytes,
  Header        \* the lengths of the lines before the content of a new file

ASSUME PatchLimitsAssumption == MaxLines \in Nat \ {0} /\ MaxBytes \in Nat \ {0}

Size(text) == FoldLeft(+, 0, text)

Empty == [size |-> 0, lines |-> 0, truncated |-> FALSE]

\* PatchAccumulator::append, a line; nothing follows what has been cut.
AppendLine(acc, length) ==
  LET room == MaxBytes - acc.size
  IN CASE acc.truncated -> acc
       [] ~acc.truncated /\ (acc.lines >= MaxLines \/ room = 0) -> [acc EXCEPT !.truncated = TRUE]
       [] ~acc.truncated /\ acc.lines < MaxLines /\ room > 0 ->
            [size |-> acc.size + (IF length <= room THEN length ELSE room),
             lines |-> acc.lines + 1, truncated |-> length > room]

AppendText(acc, text) == FoldLeft(AppendLine, acc, text)

\* synthesize_untracked_patch: the lines that are read, with a + before each.
Cut(text) == Size(text) > MaxBytes
Read(text) ==
  LET whole == {n \in 0..Len(text) : Size(SubSeq(text, 1, n)) <= MaxBytes}
      n     == CHOOSE m \in whole : \A k \in whole : k <= m
      rest  == MaxBytes - Size(SubSeq(text, 1, n))
  IN SubSeq(text, 1, n) \o (IF n < Len(text) /\ rest > 0 THEN <<rest>> ELSE <<>>)

UntrackedPatch(text) == Header \o [i \in DOMAIN Read(text) |-> 1 + Read(text)[i]]

\* One untracked file; what is not text ends it, and so does a full patch,
\* which is looked at behind each file.
AddFile(s, file) ==
  LET text == IF file.kind = "text" THEN AppendText(s.text, UntrackedPatch(file.text)) ELSE s.text
  IN IF s.full \/ s.reason # "none" THEN s
     ELSE [text    |-> text,
           has     |-> s.has \/ file.kind = "text",
           cut     |-> s.cut \/ (file.kind = "text" /\ Cut(file.text)),
           missing |-> s.missing \/ file.kind = "nothing",
           reason  |-> IF file.kind = "other" THEN "other" ELSE "none",
           full    |-> text.truncated]

\* The end of get_diff; ran: git has been run, and printed this text.
Diff(ran, printed, files) ==
  LET start == [text |-> IF ran THEN AppendText(Empty, printed) ELSE Empty, has |-> ran,
                cut |-> FALSE, missing |-> FALSE, reason |-> "none", full |-> FALSE]
      last  == FoldLeft(AddFile, start, files)
  IN CASE last.reason # "none" -> [patch |-> FALSE, size |-> 0, truncated |-> FALSE, reason |-> last.reason]
       [] last.reason = "none" ->
            [patch |-> last.has, size |-> last.text.size,
             truncated |-> last.text.truncated \/ last.cut,
             reason |-> IF last.missing THEN "missing" ELSE "none"]
=============================================================================
