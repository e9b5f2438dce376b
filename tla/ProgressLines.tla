---------------------------- MODULE ProgressLines ----------------------------
(***************************************************************************)
(* What git says of its progress (git/transport/progress.rs), and what the *)
(* job and the window hear of it (ProgressBridge of                        *)
(* git/transport/service.rs).                                              *)
(*                                                                         *)
(* A stream is a sequence of characters, of which the prefix of a phase    *)
(* ("Receiving objects:") is one and "remote: " is another; blanks and the *)
(* counts of objects and bytes, which are only shown, are left out.        *)
(***************************************************************************)
EXTENDS Integers, Sequences, SequencesExt

CONSTANTS
  Ends,         \* the characters that end a line: return and line feed
  Digit,        \* function: a digit -> its value
  MaxLine       \* MAX_INCOMPLETE_LINE_BYTES

ASSUME ProgressAssumption ==
  MaxLine \in Nat /\ \A c \in DOMAIN Digit : Digit[c] \in 0..9

Phase   == "phase"
Remote  == "remote"
NoEvent == -1

\* parse_progress_line: the number before the first %, of which there is at
\* least one digit, up to 100.
Body(line) == IF line # <<>> /\ Head(line) = Remote THEN Tail(line) ELSE line

Digits(text) ==
  LET others == {i \in DOMAIN text : text[i] \notin DOMAIN Digit}
      last   == IF others = {} THEN 0 ELSE CHOOSE i \in others : \A j \in others : j <= i
  IN SubSeq(text, last + 1, Len(text))

Percent(line) ==
  LET body   == Body(line)
      marks  == {i \in DOMAIN body : body[i] = "%"}
      before == SubSeq(body, 2, (CHOOSE i \in marks : \A j \in marks : i <= j) - 1)
      number == FoldLeft(LAMBDA n, c : 10 * n + Digit[c], 0, Digits(before))
  IN IF body = <<>> \/ Head(body) # Phase \/ marks = {} THEN NoEvent
     ELSE IF Digits(before) = <<>> \/ number > 100 THEN NoEvent ELSE number

\* GitProgressParser::push, a character; a line that is too long is dropped
\* up to its end.
Parser == [pending |-> <<>>, dropping |-> FALSE, events |-> <<>>]

PushByte(s, c) ==
  CASE c \in Ends ->
         [pending |-> <<>>, dropping |-> FALSE,
          events  |-> IF s.dropping \/ s.pending = <<>> \/ Percent(s.pending) = NoEvent
                      THEN s.events ELSE Append(s.events, Percent(s.pending))]
    [] c \notin Ends /\ s.dropping -> s
    [] c \notin Ends /\ ~s.dropping /\ Len(s.pending) = MaxLine ->
         [s EXCEPT !.pending = <<>>, !.dropping = TRUE]
    [] c \notin Ends /\ ~s.dropping /\ Len(s.pending) < MaxLine ->
         [s EXCEPT !.pending = Append(@, c)]

Push(s, chunk) == FoldLeft(PushByte, s, chunk)

\* ProgressBridge::stderr_chunk: the window is told every event, and the job
\* only what is more than ever before.
Bridge == [maximum |-> 0, job |-> <<>>, window |-> <<>>]

Report(b, event) ==
  [maximum |-> IF event > b.maximum THEN event ELSE b.maximum,
   job     |-> IF event > b.maximum THEN Append(b.job, event) ELSE b.job,
   window  |-> Append(b.window, event)]

Reported(events) == FoldLeft(Report, Bridge, events)
=============================================================================
