---------------------------- MODULE ResourceLease ----------------------------
(***************************************************************************)
(* What the registry of network operations promises, with no mention of    *)
(* operation ids, tables or flags: an operation is opened by a principal,  *)
(* takes at most one resource, which is then its own until it closes, and  *)
(* closes with one verdict.  Only its principal can cancel it, only while  *)
(* it is open, and an operation that was canceled does not complete.       *)
(***************************************************************************)

CONSTANTS Operations, Resources, Principals, Nobody

VARIABLES
  owner,     \* who opened each operation
  holder,    \* which operation has each resource
  canceled,  \* the operations canceled, with the principal that did
  verdict    \* "none", "open", or how the operation closed

leaseVars == <<owner, holder, canceled, verdict>>

LeaseInit ==
  /\ owner = [o \in Operations |-> Nobody]
  /\ holder = [r \in Resources |-> Nobody]
  /\ canceled = {}
  /\ verdict = [o \in Operations |-> "none"]

Close(o, how) ==
  /\ verdict[o] = "open"
  /\ verdict' = [verdict EXCEPT ![o] = how]
  /\ holder' = [r \in Resources |-> IF holder[r] = o THEN Nobody ELSE holder[r]]
  /\ UNCHANGED <<owner, canceled>>

WasCanceled(o) == \E p \in Principals : <<o, p>> \in canceled

OpenLease(o, p) ==
  /\ verdict[o] = "none"
  /\ verdict' = [verdict EXCEPT ![o] = "open"]
  /\ owner' = [owner EXCEPT ![o] = p]
  /\ UNCHANGED <<holder, canceled>>

TakeLease(o, r) ==
  /\ verdict[o] = "open"
  /\ ~WasCanceled(o)
  /\ holder[r] = Nobody
  /\ \A s \in Resources : holder[s] # o
  /\ holder' = [holder EXCEPT ![r] = o]
  /\ UNCHANGED <<owner, canceled, verdict>>

CancelLease(o) ==
  /\ verdict[o] = "open"
  /\ canceled' = canceled \cup {<<o, owner[o]>>}
  /\ UNCHANGED <<owner, holder, verdict>>

Complete(o) == ~WasCanceled(o) /\ Close(o, "completed")
Refuse(o)   == WasCanceled(o) /\ Close(o, "canceled")
GiveUp(o)   == Close(o, "released")

LoseAll ==
  /\ verdict' = [o \in Operations |-> IF verdict[o] = "open" THEN "lost" ELSE verdict[o]]
  /\ holder' = [r \in Resources |-> Nobody]
  /\ UNCHANGED <<owner, canceled>>

LeaseNext ==
  \/ \E o \in Operations :
       \/ \E p \in Principals : OpenLease(o, p)
       \/ \E r \in Resources : TakeLease(o, r)
       \/ CancelLease(o) \/ Complete(o) \/ Refuse(o) \/ GiveUp(o)
  \/ LoseAll

LeaseSpec == LeaseInit /\ [][LeaseNext]_leaseVars
=============================================================================
