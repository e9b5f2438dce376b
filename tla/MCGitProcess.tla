---------------------------- MODULE MCGitProcess ----------------------------
(***************************************************************************)
(* One run with pipes of one chunk: an output of two chunks fills its pipe *)
(* and breaks its limit of one, and an input of two has to wait for git.   *)
(***************************************************************************)
EXTENDS GitProcess, ProgressLines, TLC

MCDigit == ("0" :> 0) @@ ("1" :> 1)

Characters == {"phase", "1", "0", "%", "x", "cr"}
Streams == UNION {[1..n -> Characters] : n \in 0..5}
           \cup {<<"remote", "phase">> \o t \o <<"cr">> : t \in UNION {[1..n -> {"1", "0", "%"}] : n \in 0..4}}

\* The complete lines of a stream.
Lines(stream) ==
  LET ends == SetToSortSeq({0} \cup {i \in DOMAIN stream : stream[i] \in Ends}, <)
  IN [k \in 1..(Len(ends) - 1) |-> SubSeq(stream, ends[k] + 1, ends[k + 1] - 1)]

\* The events are those of the complete lines that are not too long, however
\* the stream was cut into chunks; the buffer is never longer than a line; the
\* fractions are what set_progress accepts, and those of a job rise up to the
\* greatest.
ASSUME EventsAreThoseOfTheLines ==
  \A stream \in Streams :
    LET whole  == Push(Parser, stream)
        lines  == SelectSeq(Lines(stream), LAMBDA l : Len(l) <= MaxLine /\ Percent(l) # NoEvent)
        bridge == Reported(whole.events)
    IN /\ whole.events = [i \in DOMAIN lines |-> Percent(lines[i])]
       /\ Len(whole.pending) <= MaxLine
       /\ \A n \in 0..Len(stream) :
            Push(Push(Parser, SubSeq(stream, 1, n)), SubSeq(stream, n + 1, Len(stream))) = whole
       /\ ToSet(whole.events) \subseteq 0..100 /\ bridge.window = whole.events
       /\ \A i, j \in DOMAIN bridge.job : i < j => bridge.job[i] < bridge.job[j]
       /\ \A e \in ToSet(whole.events) : e <= bridge.maximum
=============================================================================
