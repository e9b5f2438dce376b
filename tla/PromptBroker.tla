---------------------------- MODULE PromptBroker ----------------------------
(***************************************************************************)
(* The dialogs of the host: the queue of network confirmations             *)
(* (src/apps/desktop/src/git-transport/promptBroker.ts), the credential    *)
(* and account forms (src/apps/desktop/src/providers/promptBroker.ts), and *)
(* the gate that lets only one of all these be open.                       *)
(*                                                                         *)
(* A broker is a record: the owner of the gate, the confirmation that is   *)
(* active, those that wait for it, and the form that is active.  Each      *)
(* operator is one synchronous piece of JavaScript.                        *)
(***************************************************************************)
EXTENDS Integers, Sequences, FiniteSets, Functions

CONSTANT None

(* What is left of a sequence without some of its elements, in its order.  *)
Without(q, gone) ==
  LET kept == {i \in DOMAIN q : q[i] \notin gone}
      Rank(i) == Cardinality({j \in kept : j <= i})
  IN [n \in 1..Cardinality(kept) |-> q[CHOOSE i \in kept : Rank(i) = n]]

Prompts(b) == {b.shown} \cup Range(b.queue)

NothingAsked == [owner |-> None, shown |-> None, queue |-> <<>>, form |-> None]

(* activate: the broker shows a confirmation whose id has the gate.  For    *)
(* the first one the caller has seen to it that the gate is free.          *)
Activate(b, id) == [b EXCEPT !.owner = id, !.shown = id]

(* advance: the next confirmation, or none.  That the gate is free is not  *)
(* asked here: PromptsAreWaitedFor says that it is, so that nobody in the  *)
(* queue is turned away as busy.                                           *)
Advance(b) ==
  IF b.queue = <<>> THEN b
  ELSE Activate([b EXCEPT !.queue = Tail(b.queue)], Head(b.queue))

(* settle: the active confirmation goes, the gate is let go of, and the    *)
(* next one is shown.  Mutant: without the next one.                       *)
Settle_Only(b) == [b EXCEPT !.owner = None, !.shown = None]

Settle(b) == Advance([b EXCEPT !.owner = None, !.shown = None])

(* confirm, for a request that is not refused: shown at once or queued. *)
Enqueue(b, id) ==
  IF b.shown # None \/ b.queue # <<>>
    THEN [b EXCEPT !.queue = Append(b.queue, id)]
    ELSE Activate(b, id)

(* cancelOperation: the confirmations of an operation go, wherever they    *)
(* are.  Mutant: the next one is not shown when the active one goes.       *)
Withdraw_Halts(b, ids) ==
  LET rest == [b EXCEPT !.queue = Without(b.queue, ids)]
  IN IF b.shown \in ids THEN Settle_Only(rest) ELSE rest

Withdraw(b, ids) ==
  LET rest == [b EXCEPT !.queue = Without(b.queue, ids)]
  IN IF b.shown \in ids THEN Settle(rest) ELSE rest

(* rejectAll: whoever was asked and whoever was to be asked goes. *)
RejectAll(b) == [b EXCEPT !.owner = None, !.shown = None, !.queue = <<>>]

(* request and clear of the provider brokers: no queue.  *)
OpenForm(b, id) == [b EXCEPT !.owner = id, !.form = id]

CloseForm(b) == [b EXCEPT !.owner = None, !.form = None]
=============================================================================
