------------------------------ MODULE GitProcess ------------------------------
(***************************************************************************)
(* One git process under the runner of git/engine.rs: the thread that has  *)
(* called run and polls, a reader for each output stream, a writer for the *)
(* input, git itself, and a helper git has started (ssh, a credential      *)
(* helper) that inherits some of the pipes and may leave git's process     *)
(* group.  Nothing is assumed of git and of the helper: they read, write   *)
(* and end when they like, or never.                                       *)
(*                                                                         *)
(* A pipe holds PipeSize chunks.  The clock is three events: the timeout   *)
(* of the whole run, the one of a silent network, and the two seconds that *)
(* the clean-up waits for a thread.  A signal to a process group reaches   *)
(* all of it at once; the fallbacks of Windows for a job object that is    *)
(* refused are left out.                                                   *)
(***************************************************************************)
EXTENDS Naturals, FiniteSets

CONSTANTS
  PipeSize,
  OutputLimit,  \* max_stdout_bytes and max_stderr_bytes, in chunks
  InputSize,    \* chunks a run with an input has to write
  MaxChunks     \* bound: how much is ever written to an output stream

ASSUME GitProcessAssumption ==
  /\ PipeSize \in Nat \ {0} /\ OutputLimit \in Nat
  /\ InputSize \in Nat /\ MaxChunks \in Nat

VARIABLES
  runner,       \* where the calling thread is, and how its wait has ended
  result,       \* what run returned
  git,          \* "none", "alive", "exited" (a zombie), "reaped" or "killed"
  helper,       \* its state, the pipes it holds, whether it is in git's group
  pipe,         \* stream -> chunks in the pipe
  written,      \* output stream -> chunks ever written to it
  kept,         \* output stream -> chunks its reader has kept
  limited,      \* the streams whose limit was exceeded
  reading,      \* the streams whose reader has not seen the end
  input,        \* the chunks still to be written, and whether the writer is at it
  cancelled, expired,
  network,      \* a run with network timeouts
  silent        \* no progress for as long as the network timeouts allow

runVars  == <<runner, result>>
procVars == <<git, helper, pipe, written>>
readVars == <<kept, limited, reading, silent>>
flags    == <<cancelled, expired, network>>
processVars == <<runVars, procVars, readVars, input, flags>>

Outputs == {"out", "err"}
Pipes   == Outputs \cup {"in"}
NoInput == [left |-> 0, writing |-> FALSE]
Idle    == [at |-> "ready", ended |-> "not yet"]
NoHelper == [state |-> "none", holds |-> {}, grouped |-> TRUE]

\* Who has an end of a pipe in the child's half.
Held(s) == git = "alive" \/ (helper.state = "alive" /\ s \in helper.holds)

ProcessInit ==
  /\ runner = Idle /\ result = "none"
  /\ git = "none" /\ helper = NoHelper
  /\ pipe = [s \in Pipes |-> 0]
  /\ written = [s \in Outputs |-> 0] /\ kept = [s \in Outputs |-> 0]
  /\ limited = {} /\ reading = {} /\ input = NoInput
  /\ cancelled \in BOOLEAN /\ expired = FALSE
  /\ network \in BOOLEAN /\ silent = FALSE

-----------------------------------------------------------------------------
\* run_internal, up to the threads.  A git that cannot be attached to a
\* process tree is killed on the spot.
Refuse ==
  /\ runner.at = "ready"
  /\ runner' = [runner EXCEPT !.at = "returned"]
  /\ result' \in IF cancelled THEN {"Canceled"} ELSE {"Git"}
  /\ UNCHANGED <<procVars, readVars, input, flags>>

Spawn ==
  /\ runner.at = "ready" /\ ~cancelled
  /\ runner' = [runner EXCEPT !.at = "waiting"]
  /\ git' = "alive"
  /\ reading' = Outputs
  /\ input' \in {NoInput, [left |-> InputSize, writing |-> TRUE]}
  /\ UNCHANGED <<result, helper, pipe, written, kept, limited, silent, flags>>

\* ProcessTree::terminate and terminate_and_reap: git, and who is with it in
\* its group.  Mutant: git alone.
KillTree_GitOnly ==
  /\ git' = IF git \in {"alive", "exited"} THEN "killed" ELSE git
  /\ UNCHANGED helper

KillTree ==
  /\ git' = IF git \in {"alive", "exited"} THEN "killed" ELSE git
  /\ helper' = IF helper.grouped /\ helper.state = "alive"
               THEN [helper EXCEPT !.state = "gone"] ELSE helper

Kill(why) ==
  /\ KillTree
  /\ runner' = [at |-> "collecting", ended |-> why]

\* wait_bounded, one round: its checks, in their order.  The timeouts are asked
\* last and end alike.
Poll ==
  /\ runner.at = "waiting"
  /\ \/ limited # {} /\ Kill("exited")
     \/ /\ limited = {} /\ git = "exited"
        /\ git' = "reaped"
        /\ runner' = [at |-> "collecting", ended |-> "exited"]
        /\ UNCHANGED helper
     \/ limited = {} /\ git # "exited" /\ cancelled /\ Kill("canceled")
     \/ /\ limited = {} /\ git # "exited" /\ ~cancelled
        /\ expired \/ (network /\ silent)
        /\ Kill("timed out")
  /\ UNCHANGED <<result, pipe, written, readVars, input, flags>>

\* collect_output_bounded: both outputs, or two seconds.  Mutant: however
\* long it takes.
Collect_Unbounded ==
  /\ runner.at = "collecting" /\ reading = {}
  /\ runner' = [runner EXCEPT !.at = "finishing"]
  /\ UNCHANGED <<result, procVars, readVars, input, flags>>

Collect ==
  /\ runner.at = "collecting"
  /\ runner' = IF reading = {} THEN [runner EXCEPT !.at = "finishing"]
               ELSE [at |-> "finishing", ended |-> "late"]
  /\ UNCHANGED <<result, procVars, readVars, input, flags>>

\* finish_stdin_writer, finish_io_before_disarm and the end of run_internal.
\* Who keeps a pipe open behind an exited git is killed with its group.
Late == runner.ended = "late" \/ input.writing

\* Mutant: the limit is only a reason to kill, and not to fail.
Verdict_Unlimited ==
  CASE Late -> "Timeout"
    [] ~Late /\ runner.ended = "timed out" -> "Timeout"
    [] ~Late /\ runner.ended = "canceled" -> "Canceled"
    [] ~Late /\ runner.ended = "exited" -> "Ok"

Verdict ==
  CASE Late -> "Timeout"
    [] ~Late /\ runner.ended = "timed out" -> "Timeout"
    [] ~Late /\ runner.ended = "canceled" -> "Canceled"
    [] ~Late /\ runner.ended = "exited" -> IF limited # {} THEN "OutputLimit" ELSE "Ok"

Finish ==
  /\ runner.at = "finishing"
  /\ result' = Verdict
  /\ IF Late THEN KillTree ELSE UNCHANGED <<git, helper>>
  /\ runner' = [runner EXCEPT !.at = "returned"]
  /\ UNCHANGED <<pipe, written, readVars, input, flags>>

-----------------------------------------------------------------------------
\* spawn_reader: what is beyond the limit is read and thrown away, so that
\* git never waits for a full pipe.  A chunk of progress on stderr shows that
\* the network is alive.
Read(s) ==
  /\ s \in reading /\ pipe[s] > 0
  /\ pipe' = [pipe EXCEPT ![s] = @ - 1]
  /\ IF kept[s] < OutputLimit
     THEN kept' = [kept EXCEPT ![s] = @ + 1] /\ UNCHANGED limited
     ELSE limited' = limited \cup {s} /\ UNCHANGED kept
  /\ silent' \in IF s = "err" THEN {silent, FALSE} ELSE {silent}
  /\ UNCHANGED <<runVars, git, helper, written, reading, input, flags>>

EndOfOutput(s) ==
  /\ s \in reading /\ pipe[s] = 0 /\ ~Held(s)
  /\ reading' = reading \ {s}
  /\ UNCHANGED <<runVars, procVars, kept, limited, silent, input, flags>>

\* spawn_stdin_writer: a pipe nobody reads any more ends it too.
WriteInput ==
  /\ input.writing
  /\ \/ /\ input.left > 0 /\ Held("in") /\ pipe["in"] < PipeSize
        /\ pipe' = [pipe EXCEPT !["in"] = @ + 1]
        /\ input' = [input EXCEPT !.left = @ - 1]
     \/ /\ input.left = 0 \/ ~Held("in")
        /\ input' = NoInput /\ UNCHANGED pipe
  /\ UNCHANGED <<runVars, git, helper, written, readVars, flags>>

-----------------------------------------------------------------------------
\* git and the helper.
Output(s) ==
  /\ Held(s)
  /\ pipe[s] < PipeSize /\ written[s] < MaxChunks
  /\ pipe' = [pipe EXCEPT ![s] = @ + 1]
  /\ written' = [written EXCEPT ![s] = @ + 1]
  /\ UNCHANGED <<runVars, git, helper, readVars, input, flags>>

TakeInput ==
  /\ Held("in") /\ pipe["in"] > 0
  /\ pipe' = [pipe EXCEPT !["in"] = @ - 1]
  /\ UNCHANGED <<runVars, git, helper, written, readVars, input, flags>>

StartHelper ==
  /\ git = "alive" /\ helper.state = "none"
  /\ \E holds \in SUBSET Pipes, grouped \in BOOLEAN :
       helper' = [state |-> "alive", holds |-> holds, grouped |-> grouped]
  /\ UNCHANGED <<runVars, git, pipe, written, readVars, input, flags>>

GitExits ==
  /\ git = "alive"
  /\ git' = "exited"
  /\ UNCHANGED <<runVars, helper, pipe, written, readVars, input, flags>>

HelperExits ==
  /\ helper.state = "alive"
  /\ helper' = [helper EXCEPT !.state = "gone"]
  /\ UNCHANGED <<runVars, git, pipe, written, readVars, input, flags>>

Programs ==
  \/ \E s \in Outputs : Output(s)
  \/ TakeInput \/ StartHelper \/ GitExits \/ HelperExits

\* The clock, and the user.
Expire ==
  /\ runner.at = "waiting" /\ ~expired
  /\ expired' = TRUE
  /\ UNCHANGED <<runVars, procVars, readVars, input, cancelled, network>>

FallSilent ==
  /\ runner.at = "waiting" /\ network /\ ~silent
  /\ silent' = TRUE
  /\ UNCHANGED <<runVars, procVars, kept, limited, reading, input, flags>>

Cancel ==
  /\ ~cancelled
  /\ cancelled' = TRUE
  /\ UNCHANGED <<runVars, procVars, readVars, input, expired, network>>

Runner == Poll \/ Collect \/ Finish
ProcessNext ==
  \/ Refuse \/ Spawn \/ Runner
  \/ \E s \in Outputs : Read(s) \/ EndOfOutput(s)
  \/ WriteInput \/ Programs
  \/ Expire \/ FallSilent \/ Cancel

\* The calling thread runs and the clock goes on; nobody else need do
\* anything.
Fairness == WF_processVars(Runner) /\ WF_processVars(Expire)

ProcessSpec == ProcessInit /\ [][ProcessNext]_processVars /\ Fairness

-----------------------------------------------------------------------------
\* When run has returned git is gone, and after a cancellation or a timeout
\* so is everybody in its group, whoever was killed when (wait_bounded,
\* finish_io_before_disarm, ChildGuard).
ReturnsAlone ==
  runner.at = "returned" =>
    /\ git \notin {"alive", "exited"}
    /\ result \in {"Canceled", "Timeout"} => ~(helper.state = "alive" /\ helper.grouped)

\* A run that succeeds has the whole output of a git that has ended by
\* itself, to the last chunk of the last process that had the pipe.
SuccessIsWhole ==
  result = "Ok" => git = "reaped" /\ kept = written

\* Every run ends, whatever git and its helper do with their pipes.
EveryRunEnds == runner.at = "waiting" ~> runner.at = "returned"
=============================================================================
