-------------------------- MODULE OperationRegistry --------------------------
(***************************************************************************)
(* TransportOperationRegistry and its guards (git/transport/operation.rs): *)
(* the table, behind one mutex, of the network operations in flight.  An   *)
(* operation is reserved under its id when its command arrives and bound   *)
(* later, by the worker that holds its guard, to the resource (repository  *)
(* or clone destination) it needs for itself.  Cancel commands find it by  *)
(* id; completion and cancellation are decided under the same mutex.       *)
(*                                                                         *)
(* Every critical section is one action.  A guard is named by the          *)
(* cancellation token (Arc<AtomicBool>) that reserve makes for it, so a    *)
(* guard is used once.  `reserver`, `told` and `acked` are what the        *)
(* callers know: who reserved a guard, what its consumption returned, and  *)
(* which cancel calls returned true.                                       *)
(*                                                                         *)
(* bind_resource has two more branches, for a guard whose entry is gone or *)
(* is not its own; IndexesAgree says that no guard can meet them.          *)
(***************************************************************************)

CONSTANTS
  Ids,         \* operation ids
  Resources,   \* resource keys: "repository:<id>" and "clone:<final path>"
  Plugins,     \* plugins that own operations
  Domains,     \* TransportAuthorizationDomain
  Guards,      \* guards, each with its own cancellation token
  None         \* no resource, no guard, no principal

ASSUME RegistryAssumption ==
  /\ None \notin Ids
  /\ None \notin Resources
  /\ None \notin Guards

VARIABLES
  operations,  \* id -> entry
  resources,   \* resource -> id of its owner
  guard,       \* guard -> the worker's side of it
  cancelled,   \* tokens whose flag is raised
  reserver,    \* guard -> the plugin and domain it was reserved for
  told,        \* guard -> what its consumption returned
  acked        \* <<token, principal>> of the cancel calls that returned true

regVars == <<operations, resources, guard, cancelled, reserver, told, acked>>

Principals    == Plugins \X Domains
MaybeResource == Resources \cup {None}
Entry    == [resource : MaybeResource, by : Principals, token : Guards]
NoEntry  == [token |-> None]
GuardRec == [state : {"unused"}, id : {None}, resource : {None}]
            \cup [state : {"active", "gone"}, id : Ids, resource : MaybeResource]
Unused   == [state |-> "unused", id |-> None, resource |-> None]

Listed(id) == operations[id] # NoEntry
Active(g)  == guard[g].state = "active"

RegInit ==
  /\ operations = [id \in Ids |-> NoEntry]
  /\ resources = [r \in Resources |-> None]
  /\ guard = [g \in Guards |-> Unused]
  /\ cancelled = {}
  /\ reserver = [g \in Guards |-> None]
  /\ told = [g \in Guards |-> "nothing"]
  /\ acked = {}

-----------------------------------------------------------------------------
\* reserve: an id that is in the table is busy.
Reserve(g, id, plugin, domain) ==
  /\ guard[g] = Unused
  /\ ~Listed(id)
  /\ operations' = [operations EXCEPT ![id] =
        [resource |-> None, by |-> <<plugin, domain>>, token |-> g]]
  /\ guard' = [guard EXCEPT ![g] = [state |-> "active", id |-> id, resource |-> None]]
  /\ reserver' = [reserver EXCEPT ![g] = <<plugin, domain>>]
  /\ UNCHANGED <<resources, cancelled, told, acked>>

\* bind_resource, when it binds; refusing, or binding again, changes nothing.
BindResource(g, r) ==
  /\ Active(g)
  /\ g \notin cancelled
  /\ operations[guard[g].id].resource = None
  /\ resources[r] = None
  /\ resources' = [resources EXCEPT ![r] = guard[g].id]
  /\ operations' = [operations EXCEPT ![guard[g].id].resource = r]
  /\ guard' = [guard EXCEPT ![g].resource = r]
  /\ UNCHANGED <<cancelled, reserver, told, acked>>

\* remove_registration(operation id, resource key of the guard).
RemoveRegistration(id, r) ==
  /\ operations' = [operations EXCEPT ![id] =
        IF Listed(id) /\ @.resource = r THEN NoEntry ELSE @]
  /\ resources' = [s \in Resources |->
        IF s = r /\ resources[s] = id THEN None ELSE resources[s]]

Consume(g, answer) ==
  /\ Active(g)
  /\ RemoveRegistration(guard[g].id, guard[g].resource)
  /\ guard' = [guard EXCEPT ![g].state = "gone"]
  /\ told' = [told EXCEPT ![g] = answer]
  /\ UNCHANGED <<cancelled, reserver, acked>>

\* finish_if_not_cancelled reads its verdict under the mutex that also
\* removes the entry.  Mutant: nobody looks at the flag.
FinishIfNotCancelled_Blind(g) == Consume(g, "completed")

FinishIfNotCancelled(g) ==
  Consume(g, IF g \in cancelled THEN "canceled" ELSE "completed")

\* finish, or the guard is dropped on an early return.
Release(g) == Consume(g, "released")

\* cancel_owned: false for an id that is not listed, PermissionDenied for an
\* operation of somebody else, and otherwise the flag is raised.
CancelOwned(id, plugin, domain) ==
  /\ Listed(id)
  /\ operations[id].by = <<plugin, domain>>
  /\ cancelled' = cancelled \cup {operations[id].token}
  /\ acked' = acked \cup {<<operations[id].token, <<plugin, domain>> >>}
  /\ UNCHANGED <<operations, resources, guard, reserver, told>>

\* The registry and the guards live in memory only: all of it goes at once.
Vanish ==
  /\ operations' = [id \in Ids |-> NoEntry]
  /\ resources' = [r \in Resources |-> None]
  /\ guard' = [g \in Guards |->
        IF Active(g) THEN [guard[g] EXCEPT !.state = "gone"] ELSE guard[g]]
  /\ UNCHANGED <<cancelled, reserver, told, acked>>

RegNext ==
  \/ \E g \in Guards :
       \/ \E id \in Ids, plugin \in Plugins, domain \in Domains : Reserve(g, id, plugin, domain)
       \/ \E r \in Resources : BindResource(g, r)
       \/ FinishIfNotCancelled(g)
       \/ Release(g)
  \/ \E id \in Ids, plugin \in Plugins, domain \in Domains : CancelOwned(id, plugin, domain)
  \/ Vanish

RegSpec == RegInit /\ [][RegNext]_regVars

-----------------------------------------------------------------------------
\* The two tables, the guards, and what their callers were told; a cancel
\* that returned true has raised its flag.
RegTypeOK ==
  /\ operations \in [Ids -> Entry \cup {NoEntry}]
  /\ resources \in [Resources -> Ids \cup {None}]
  /\ guard \in [Guards -> GuardRec]
  /\ cancelled \subseteq Guards
  /\ reserver \in [Guards -> Principals \cup {None}]
  /\ told \in [Guards -> {"nothing", "completed", "canceled", "released"}]
  /\ acked \subseteq cancelled \X Principals

\* Each guard that a worker holds has an entry of its own under its id, with
\* its token, its principal and its resource, and there are no other entries.
GuardsOwnTheirEntries ==
  /\ \A g \in Guards : Active(g) =>
       operations[guard[g].id] = [resource |-> guard[g].resource, by |-> reserver[g], token |-> g]
  /\ \A id \in Ids : Listed(id) =>
       Active(operations[id].token) /\ guard[operations[id].token].id = id

\* The two tables are inverse to each other: no resource is held for an
\* operation that is gone, and no operation has lost its resource.
TablesAreInverse ==
  \A r \in Resources, id \in Ids :
    resources[r] = id <=> Listed(id) /\ operations[id].resource = r

\* The indexes agree, whatever order ids are reused, guards dropped and
\* resources bound in: remove_registration, which goes by id and resource
\* and never compares tokens, cannot remove what another guard stands on.
IndexesAgree == GuardsOwnTheirEntries /\ TablesAreInverse

\* Two workers never hold the same resource.
HoldersExclude ==
  \A g, h \in Guards : Active(g) /\ Active(h) /\ guard[g].resource = guard[h].resource
    /\ guard[g].resource # None => g = h

\* A cancel call that returned true and a completion never both happen to
\* the same operation, in whichever order the two reach the registry.
OneWinner == \A g \in Guards, p \in Principals :
  told[g] = "completed" => <<g, p>> \notin acked

\* The registry implements exclusive leases with one verdict each.
Lease == INSTANCE ResourceLease WITH
  Operations <- Guards,
  Nobody     <- None,
  owner      <- reserver,
  canceled   <- acked,
  holder     <- [r \in Resources |->
                  IF resources[r] = None THEN None ELSE operations[resources[r]].token],
  verdict    <- [g \in Guards |->
                  CASE guard[g].state = "unused" -> "none"
                    [] guard[g].state = "active" -> "open"
                    [] OTHER ->
                         IF told[g] = "nothing" THEN "lost" ELSE told[g]]

ImplementsLease == Lease!LeaseSpec
=============================================================================
