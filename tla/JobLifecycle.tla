---------------------------- MODULE JobLifecycle ----------------------------
(***************************************************************************)
(* What the job table promises its readers (the Task Center, the plugins,  *)
(* the next start of the application), with no mention of locks, database  *)
(* writes or crashes: every job walks one way through its life, a terminal *)
(* job is settled for good, and a request to cancel is never taken back.   *)
(***************************************************************************)

CONSTANT JobIds

VARIABLES stage,      \* where each job is in its life
          requested   \* the jobs whose cancellation was asked for

lifeVars == <<stage, requested>>

LifeInit ==
  /\ stage = [id \in JobIds |-> "absent"]
  /\ requested = {}

Move(id, from, to) ==
  /\ stage[id] \in from
  /\ stage' = [stage EXCEPT ![id] = to]

Admit(id)  == Move(id, {"absent"}, "queued")             /\ UNCHANGED requested
Begin(id)  == Move(id, {"queued"}, "running")            /\ UNCHANGED requested
Settle(id) == Move(id, {"running"}, "succeeded")         /\ UNCHANGED requested
Break(id)  == Move(id, {"running"}, "failed")            /\ UNCHANGED requested
Abort(id)  == Move(id, {"queued", "running"}, "canceled")
              /\ requested' = requested \cup {id}
Ask(id)    == /\ stage[id] \in {"queued", "running"}
              /\ requested' = requested \cup {id}
              /\ UNCHANGED stage

LifeNext == \E id \in JobIds :
  Admit(id) \/ Begin(id) \/ Settle(id) \/ Break(id) \/ Abort(id) \/ Ask(id)

LifeSpec == LifeInit /\ [][LifeNext]_lifeVars
=============================================================================
