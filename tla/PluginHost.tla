----------------------------- MODULE PluginHost -----------------------------
(***************************************************************************)
(* The way of a plugin's request through the host: the frame it comes from *)
(* (PluginFrame.tsx, App.tsx), the router that limits and authorizes it    *)
(* (rpcRouter.ts), the dialogs the user answers (hostApi.ts with the       *)
(* prompt brokers), the Rust command behind it (commands.rs) with the      *)
(* operation registry and the clone intents (git/transport/clone.rs), and  *)
(* the navigation an opened intent leads to (cloneNavigationBroker.ts).    *)
(*                                                                         *)
(* JavaScript runs to its next await in one step; each authorization, each *)
(* listing, the directory dialog and each command is awaited.  Commands    *)
(* that are sent may be executed in any order: some run on the main        *)
(* thread, some are handed to a pool.  A confirmation is known by its call *)
(* and its number; a form has number 0.                                    *)
(***************************************************************************)
EXTENDS PluginRoutes, PromptBroker, Integers, FiniteSets

CONSTANTS
  Calls,          \* requests, each made once, in the order of their numbers
  Methods,        \* call -> the methods it may be a request of
  Ids,            \* operation ids
  Intents,        \* clone intents, numbered in the order of their creation
  Manifests,      \* plugin -> the <<capability, resource>> of its manifest
  NetworkLimit,   \* network requests a plugin may have in flight
  MaxPending,     \* confirmations asked for at a time
  MaxPerPlugin,   \* ... by one plugin
  MaxRemembered,  \* cancellations the broker keeps
  MaxIntents      \* clone intents the registry keeps

ASSUME PluginHostAssumption ==
  /\ Calls \subseteq Nat /\ Intents \subseteq Nat
  /\ Methods \in [Calls -> SUBSET DOMAIN Route]
  /\ DOMAIN Manifests = {GitClient, ProviderCenter}
  /\ {NetworkLimit, MaxPending, MaxPerPlugin, MaxRemembered, MaxIntents} \subseteq Nat \ {0}
  /\ None \notin Calls \cup Ids \cup Intents /\ None \notin Calls \X Nat

VARIABLES
  call,        \* call -> its request and the step it is at
  slots,       \* plugin -> network requests the limiter counts
  prompts,     \* the prompt brokers
  seen,        \* the prompt on the screen, which is rendered later
  yes,         \* the prompts that the user, with them on the screen, agreed to
  remembered,  \* cancellations the broker keeps, <<plugin, id>>, oldest first
  stopped,     \* the calls these cancellations found before they were sent
  grants,      \* <<plugin, capability, resource>> in the database
  table,       \* operation id -> entry of the operation registry
  intents,     \* clone intent -> where it is
  spent,       \* <<call, plugin, intent, what it was>> of the intents consumed
  frame,       \* the plugin frame on the screen, its route, and if it is ready
  navigation   \* the clone intents to be shown, the first one under way

vars == <<call, slots, prompts, seen, yes, remembered, stopped, grants, table,
          intents, spent, frame, navigation>>

hostVars == <<slots, prompts, seen, yes, remembered, stopped, frame, navigation>>
coreVars == <<grants, table, intents, spent>>

Plugins == DOMAIN Manifests

Idle == [at |-> "idle", plugin |-> None, method |-> None, id |-> None, intent |-> None,
         next |-> 0, dialogs |-> <<>>, result |-> None]

NoEntry == [plugin |-> None, domain |-> None, canceled |-> FALSE]

Init ==
  /\ call = [c \in Calls |-> Idle]
  /\ slots = [p \in Plugins |-> 0]
  /\ prompts = NothingAsked
  /\ seen = None
  /\ yes = {}
  /\ remembered = <<>>
  /\ stopped = {}
  /\ grants = UNION {{<<p, q[1], q[2]>> : q \in Manifests[p]} : p \in Plugins}
  /\ table = [i \in Ids |-> NoEntry]
  /\ \E old \in 0..MaxIntents :
       intents = [i \in Intents |-> IF i <= old THEN "live" ELSE "none"]
  /\ spent = {}
  /\ frame = [plugin |-> None, route |-> None, ready |-> FALSE]
  /\ navigation = <<>>

-----------------------------------------------------------------------------
Limited(k) == Route[k.method].limited

(* Of a call that is over the host keeps nothing but what it answered. *)
Ended(result) == [Idle EXCEPT !.at = "done", !.result = result]

(* The limiter's slot is given back when the promise of the route settles, *)
(* in whichever way.  Mutant: not by a call that was turned away.          *)
Move_OnlyAnswered(ks) ==
  /\ call' = [c \in Calls |-> IF c \in DOMAIN ks THEN ks[c] ELSE call[c]]
  /\ slots' = [p \in Plugins |-> slots[p] -
       Cardinality({c \in DOMAIN ks : /\ call[c].plugin = p /\ Limited(call[c])
                                      /\ ks[c].at = "done" /\ ks[c].result # "denied"})]

Move(ks) ==
  /\ call' = [c \in Calls |-> IF c \in DOMAIN ks THEN ks[c] ELSE call[c]]
  /\ slots' = [p \in Plugins |-> slots[p] -
       Cardinality({c \in DOMAIN ks : /\ call[c].plugin = p /\ Limited(call[c])
                                      /\ ks[c].at = "done"})]

One(c, k) == [d \in {c} |-> k]

(* isOperationCanceled *)
Remembered(k) == k.id # None /\ <<k.plugin, k.id>> \in Range(remembered)

PromptId(c, k) == <<c, Len(k.dialogs)>>

Crowded(b, plugin) ==
  LET ids == Prompts(b) \ {None}
  IN \/ Cardinality(ids) >= MaxPending
     \/ Cardinality({id \in ids : call[id[1]].plugin = plugin}) >= MaxPerPlugin

(* confirm: no for an operation that was canceled, an error if too many    *)
(* confirmations wait or a form is open, and otherwise a prompt.           *)
Confirm(c, k, b) ==
  CASE Remembered(k) -> [call |-> Ended("declined"), prompts |-> b]
    [] ~Remembered(k) /\ (Crowded(b, k.plugin) \/ b.form # None) ->
         [call |-> Ended("busy"), prompts |-> b]
    [] OTHER -> [call |-> [k EXCEPT !.at = "asking"], prompts |-> Enqueue(b, PromptId(c, k))]

(* A method of the host API goes on: it gives up if its operation was      *)
(* canceled, asks what is left to be asked, lets the user choose where a   *)
(* clone goes, and sends the command.  Mutant: the cancellation is only    *)
(* looked for by confirm.                                                  *)
GoOn(c, k, b) ==
  IF Remembered(k) /\ k.method \in Operations
    THEN [call |-> Ended("declined"), prompts |-> b]
    ELSE IF k.dialogs # <<>> THEN Confirm(c, k, b)
    ELSE [call |-> [k EXCEPT !.at = IF k.method = "repositories.clone" THEN "choosing" ELSE "sent"],
          prompts |-> b]

-----------------------------------------------------------------------------
(* The frame: another plugin or another route is another frame, and what   *)
(* the old one has asked for goes on without it.                           *)
Shown(f, plugin, route) ==
  IF f.plugin = plugin /\ f.route = route THEN f
  ELSE [plugin |-> plugin, route |-> route, ready |-> FALSE]

(* The user picks a plugin in the navigation, which a dialog covers.  A    *)
(* bound: as long as there are requests to be made from its frame.         *)
Select(plugin) ==
  /\ seen = None /\ \E c \in Calls : call[c] = Idle
  /\ frame' = Shown(frame, plugin, None)
  /\ frame' # frame
  /\ UNCHANGED <<call, slots, prompts, seen, yes, remembered, stopped, navigation, coreVars>>

(* The frame has loaded, got its session and said that it is ready; a      *)
(* clone route that it was to show is consumed, and the next one shown.    *)
Ready ==
  /\ frame.plugin # None /\ ~frame.ready
  /\ LET ready == [frame EXCEPT !.ready = TRUE]
         consumed == /\ frame.plugin = GitClient /\ navigation # <<>>
                     /\ Head(navigation) = frame.route
     IN /\ navigation' = IF consumed THEN Tail(navigation) ELSE navigation
        /\ frame' = IF consumed /\ Len(navigation) > 1
                      THEN Shown(ready, GitClient, navigation[2]) ELSE ready
  /\ UNCHANGED <<call, slots, prompts, seen, yes, remembered, stopped, coreVars>>

Request(plugin, m, id, i) ==
  [at |-> "checking", plugin |-> plugin, method |-> m, id |-> id, intent |-> i,
   next |-> 1, dialogs |-> <<>>, result |-> None]

(* dispatchPluginRpc, up to its first await: the limit of the plugin. *)
Send(c) ==
  /\ call[c] = Idle
  /\ \A d \in Calls : d < c => call[d] # Idle
  /\ frame.ready
  /\ \E m \in Methods[c], id \in Ids \cup {None}, i \in Intents \cup {None} :
       /\ (id # None) <=> (m \in Operations \cup {"repositories.cancelNetworkOperation"})
       /\ (m \in {"cloneIntents.open", "cloneIntents.get"}) => i # None
       /\ i # None => intents[i] # "none" /\ m \in {"cloneIntents.open", "cloneIntents.get",
                                                   "repositories.clone"}
       /\ LET k == Request(frame.plugin, m, id, i)
              full == Limited(k) /\ slots[k.plugin] >= NetworkLimit
          IN /\ call' = [call EXCEPT ![c] = IF full THEN Ended("limited") ELSE k]
             /\ slots' = [slots EXCEPT ![k.plugin] = IF Limited(k) /\ ~full THEN @ + 1 ELSE @]
  /\ UNCHANGED <<prompts, seen, yes, remembered, stopped, frame, navigation, coreVars>>

(* is_allowed and manifest_requests.  The resources of one requirement are *)
(* asked one after the other; only the account's grant can change, so that *)
(* it does not matter when the others are read.                            *)
Holds(plugin, r, resource) ==
  IF r.declared THEN <<r.capability, resource>> \in Manifests[plugin]
  ELSE <<plugin, r.capability, resource>> \in grants

Met(plugin, r) ==
  IF r.any THEN \E resource \in r.resources : Holds(plugin, r, resource)
  ELSE \A resource \in r.resources : Holds(plugin, r, resource)

(* cancelTransportOperation, before the command is sent: the operation is  *)
(* remembered as canceled, the oldest such memory making room, and what it *)
(* asks for is withdrawn.                                                  *)
Cancel(c, k) ==
  LET key == <<k.plugin, k.id>>
      others == Without(remembered, {key})
      memory == Append(IF Len(others) >= MaxRemembered THEN Tail(others) ELSE others, key)
      named == {d \in Calls : /\ call[d].method \in Operations
                              /\ <<call[d].plugin, call[d].id>> = key
                              /\ call[d].at \in {"checking", "asking", "choosing"}}
      asking == {d \in named : call[d].at = "asking"}
  IN /\ Move([d \in asking \cup {c} |-> IF d = c THEN [k EXCEPT !.at = "sent"]
                                        ELSE Ended("declined")])
     /\ prompts' = Withdraw(prompts, {PromptId(d, call[d]) : d \in asking})
     /\ remembered' = memory
     /\ stopped' = {d \in stopped \cup named :
                      <<call[d].plugin, call[d].id>> \in Range(memory)}

(* A credential or account form, if no dialog is open. *)
Form(c, k) ==
  /\ Move(One(c, IF prompts.owner = None THEN [k EXCEPT !.at = "asking"] ELSE Ended("busy")))
  /\ prompts' = IF prompts.owner = None THEN OpenForm(prompts, PromptId(c, k)) ELSE prompts

Went(c, g) == Move(One(c, g.call)) /\ prompts' = g.prompts

(* What the host API does with an authorized request, to its first await. *)
Execute(c, k) ==
  IF k.method = "repositories.cancelNetworkOperation" THEN Cancel(c, k)
  ELSE /\ UNCHANGED <<remembered, stopped>>
       /\ CASE k.method = "providers.requestReadAccess" ->
                 Move(One(c, [k EXCEPT !.at = "listing"])) /\ UNCHANGED prompts
            [] k.method \in Forms \ {"providers.requestReadAccess"} -> Form(c, k)
            [] OTHER -> \E dialogs \in Confirmations(k.method) :
                          Went(c, GoOn(c, [k EXCEPT !.dialogs = dialogs], prompts))

(* One requirement after the other, each awaited; the last one that is met *)
(* lets the request through.                                               *)
Check(c) ==
  LET k == call[c]
      requirements == Route[k.method].requirements
  IN /\ k.at = "checking"
     /\ IF ~Met(k.plugin, requirements[k.next])
          THEN Move(One(c, Ended("denied"))) /\ UNCHANGED <<prompts, remembered, stopped>>
        ELSE IF k.next < Len(requirements)
          THEN /\ Move(One(c, [k EXCEPT !.next = @ + 1]))
               /\ UNCHANGED <<prompts, remembered, stopped>>
        ELSE Execute(c, k)
     /\ UNCHANGED <<seen, yes, frame, navigation, coreVars>>

(* requestProviderReadAccess: the accounts have been listed, or could not be. *)
List(c) ==
  /\ call[c].at = "listing"
  /\ \/ Form(c, call[c])
     \/ Move(One(c, Ended("failed"))) /\ UNCHANGED prompts
  /\ UNCHANGED <<seen, yes, remembered, stopped, frame, navigation, coreVars>>

-----------------------------------------------------------------------------
(* The screen follows the brokers, later. *)
Render ==
  /\ seen # prompts.owner
  /\ seen' = prompts.owner
  /\ UNCHANGED <<call, slots, prompts, yes, remembered, stopped, frame, navigation, coreVars>>

(* The user answers what is on the screen.  A broker takes the answer only *)
(* if it is still the active prompt.  Mutant: whatever prompt is active.   *)
Answer_Any(agree) ==
  /\ seen # None
  /\ yes' = IF agree THEN yes \cup {seen} ELSE yes
  /\ IF prompts.owner = None THEN UNCHANGED <<call, slots, prompts>>
     ELSE LET c == prompts.owner[1]
              k == call[c]
          IN IF prompts.form # None
               THEN /\ Move(One(c, IF agree THEN [k EXCEPT !.at = "sent"]
                                   ELSE Ended("declined")))
                    /\ prompts' = CloseForm(prompts)
             ELSE IF agree
               THEN Went(c, GoOn(c, [k EXCEPT !.dialogs = Tail(@)], Settle(prompts)))
             ELSE Move(One(c, Ended("declined"))) /\ prompts' = Settle(prompts)
  /\ UNCHANGED <<seen, remembered, stopped, frame, navigation, coreVars>>

Answer(agree) ==
  /\ seen # None
  /\ yes' = IF agree THEN yes \cup {seen} ELSE yes
  /\ LET c == seen[1]
         k == call[c]
     IN CASE seen \notin {prompts.form, prompts.shown} -> UNCHANGED <<call, slots, prompts>>
          [] seen = prompts.form ->
               /\ Move(One(c, IF agree THEN [k EXCEPT !.at = "sent"] ELSE Ended("declined")))
               /\ prompts' = CloseForm(prompts)
          [] seen = prompts.shown /\ agree ->
               Went(c, GoOn(c, [k EXCEPT !.dialogs = Tail(@)], Settle(prompts)))
          [] seen = prompts.shown /\ ~agree ->
               Move(One(c, Ended("declined"))) /\ prompts' = Settle(prompts)
  /\ UNCHANGED <<seen, remembered, stopped, frame, navigation, coreVars>>

Asking == {c \in Calls : call[c].at = "asking"}

(* The dialogs are taken off the screen while one of them is open: the form *)
(* is canceled, or all the confirmations fail, the waiting ones as well.   *)
Unmount ==
  /\ prompts.owner # None
  /\ prompts' = IF prompts.form # None THEN CloseForm(prompts) ELSE RejectAll(prompts)
  /\ Move([c \in Asking |-> Ended(IF call[c].dialogs = <<>> THEN "declined" ELSE "failed")])
  /\ seen' = None
  /\ UNCHANGED <<yes, remembered, stopped, frame, navigation, coreVars>>

(* The directory of a clone is chosen, or the dialog is closed without.    *)
(* Mutant: the cancellation that came meanwhile is not looked for.         *)
Choose_Straight(c) ==
  /\ call[c].at = "choosing"
  /\ \/ Move(One(c, Ended("declined")))
     \/ Move(One(c, [call[c] EXCEPT !.at = "sent"]))
  /\ UNCHANGED <<prompts, seen, yes, remembered, stopped, frame, navigation, coreVars>>

Choose(c) ==
  /\ call[c].at = "choosing"
  /\ \/ Move(One(c, Ended("declined")))
     \/ ~Remembered(call[c]) /\ Move(One(c, [call[c] EXCEPT !.at = "sent"]))
  /\ UNCHANGED <<prompts, seen, yes, remembered, stopped, frame, navigation, coreVars>>

(* purgeCancellations: the oldest cancellation has become too old. *)
Forget ==
  /\ remembered # <<>>
  /\ remembered' = Tail(remembered)
  /\ stopped' = {c \in stopped : <<call[c].plugin, call[c].id>> # Head(remembered)}
  /\ UNCHANGED <<call, slots, prompts, seen, yes, frame, navigation, coreVars>>

-----------------------------------------------------------------------------
(* The commands.  What a command returns reaches the host later. *)
Returned(c, k, result) == call' = [call EXCEPT ![c] = [k EXCEPT !.at = "returned", !.result = result]]

(* purge_expired_intents, at the start of every use of the registry. *)
Purged == [i \in Intents |-> IF intents[i] = "expired" THEN "gone" ELSE intents[i]]

(* validate_clone_native_request: only the git client clones an intent. *)
IntentFits(k) == k.intent # None /\ k.method = "repositories.clone" => k.plugin = GitClient

Permitted(k) ==
  /\ k.plugin \in Owner(k.method)
  /\ IntentFits(k)
  /\ \A n \in DOMAIN Needs(k.method) : Met(k.plugin, Needs(k.method)[n])

Domain(k) == IF k.method = "repositories.clone" THEN "clone-intents" ELSE "repositories"

(* git_transport_operation_cancel *)
CancelCommand(c, k) ==
  LET entry == table[k.id]
  IN /\ CASE entry = NoEntry -> Returned(c, k, "ok") /\ UNCHANGED table
          [] entry # NoEntry /\ \/ entry.plugin # k.plugin
                                \/ ~Met(k.plugin, Fixed("git.network:execute", entry.domain)) ->
               Returned(c, k, "refused") /\ UNCHANGED table
          [] OTHER -> Returned(c, k, "ok") /\ table' = [table EXCEPT ![k.id].canceled = TRUE]
     /\ UNCHANGED <<grants, intents>>

(* git_repository_clone, _fetch, _pull, _push, up to the pool's thread. *)
Reserve(c, k) ==
  /\ IF table[k.id] # NoEntry THEN Returned(c, k, "busy") /\ UNCHANGED table
     ELSE /\ call' = [call EXCEPT ![c].at = "working"]
          /\ table' = [table EXCEPT ![k.id] =
                         [plugin |-> k.plugin, domain |-> Domain(k), canceled |-> FALSE]]
  /\ UNCHANGED <<grants, intents>>

(* get and get_for_creator: only the provider center creates intents. *)
Lookup(c, k) ==
  /\ intents' = Purged
  /\ Returned(c, k, IF intents[k.intent] = "live" THEN "ok" ELSE "failed")
  /\ UNCHANGED <<grants, table>>

AccountGrant(k) == <<k.plugin, "providers:read", "provider-account">>

(* provider_permission_grant_accounts: refused if the account is gone. *)
Grant(c, k) ==
  /\ \/ Returned(c, k, "ok") /\ grants' = grants \cup {AccountGrant(k)}
     \/ Returned(c, k, "failed") /\ UNCHANGED grants
  /\ UNCHANGED <<table, intents>>

(* provider_permission_revoke_account: the grant is gone, even if waiting  *)
(* for the account's operations (Discovery) then fails.                    *)
Revoke(c, k) ==
  /\ \E result \in {"ok", "failed"} : Returned(c, k, result)
  /\ grants' = grants \ {AccountGrant(k)}
  /\ UNCHANGED <<table, intents>>

Arrive(c) ==
  LET k == call[c]
  IN /\ k.at = "sent"
     /\ CASE k.method = "repositories.cancelNetworkOperation" -> CancelCommand(c, k)
          [] k.method # "repositories.cancelNetworkOperation" /\ ~Permitted(k) ->
               Returned(c, k, "refused") /\ UNCHANGED <<grants, table, intents>>
          [] OTHER ->
               CASE k.method \in Operations -> Reserve(c, k)
                 [] k.method = "cloneIntents.create" ->
                      /\ call' = [call EXCEPT ![c].at = "working"]
                      /\ UNCHANGED <<grants, table, intents>>
                 [] k.method \in {"cloneIntents.open", "cloneIntents.get"} -> Lookup(c, k)
                 [] k.method = "providers.requestReadAccess" -> Grant(c, k)
                 [] k.method = "providers.revokeReadAccess" -> Revoke(c, k)
                 [] OTHER -> /\ \E result \in {"ok", "failed"} : Returned(c, k, result)
                             /\ UNCHANGED <<grants, table, intents>>
     /\ UNCHANGED <<spent, hostVars>>

(* CloneIntentBroker.create: the provider has named the repository, and    *)
(* there is room for an intent, or not.                                    *)
Insert(c) ==
  LET k == call[c]
      live == {i \in Intents : Purged[i] = "live"}
  IN /\ k.at = "working" /\ k.method = "cloneIntents.create"
     /\ \/ Returned(c, k, "failed") /\ UNCHANGED intents
        \/ /\ Cardinality(live) >= MaxIntents
           /\ Returned(c, k, "failed") /\ intents' = Purged
        \/ \E i \in Intents :
             /\ Cardinality(live) < MaxIntents
             /\ intents[i] = "none" /\ \A j \in Intents : j < i => intents[j] # "none"
             /\ Returned(c, [k EXCEPT !.intent = i], "ok")
             /\ intents' = [Purged EXCEPT ![i] = "live"]
     /\ UNCHANGED <<grants, table, spent, hostVars>>

(* resolve_source of a clone from an intent: purged, looked up and removed *)
(* under one lock.  Mutant: what has expired is not purged first.          *)
Consume_Unpurged(c) ==
  LET k == call[c]
  IN /\ k.at = "working" /\ k.method = "repositories.clone" /\ k.intent # None
     /\ intents[k.intent] \in {"live", "expired"}
     /\ call' = [call EXCEPT ![c].at = "running"]
     /\ intents' = [intents EXCEPT ![k.intent] = "gone"]
     /\ spent' = spent \cup {<<c, k.plugin, k.intent, intents[k.intent]>>}
     /\ UNCHANGED <<grants, table, hostVars>>

Consume(c) ==
  LET k == call[c]
  IN /\ k.at = "working" /\ k.method = "repositories.clone" /\ k.intent # None
     /\ intents[k.intent] = "live"
     /\ call' = [call EXCEPT ![c].at = "running"]
     /\ intents' = [Purged EXCEPT ![k.intent] = "gone"]
     /\ spent' = spent \cup {<<c, k.plugin, k.intent, intents[k.intent]>>}
     /\ UNCHANGED <<grants, table, hostVars>>

(* The operation ends and its guard is dropped: it fails, at the latest    *)
(* when it finds that its intent is no longer there, or it succeeds, which *)
(* a cancellation forbids.                                                 *)
Finish(c) ==
  LET k == call[c]
      resolved == k.at = "running" \/ k.intent = None
  IN /\ k.at \in {"working", "running"} /\ k.method \in Operations
     /\ \E result \in {"ok", "failed", "canceled"} :
          /\ result = "ok" => resolved /\ ~table[k.id].canceled
          /\ result = "canceled" => resolved /\ table[k.id].canceled
          /\ Returned(c, k, result)
     /\ table' = [table EXCEPT ![k.id] = NoEntry]
     /\ UNCHANGED <<grants, intents, spent, hostVars>>

(* Half an hour has passed since the intent was created. *)
Expire(i) ==
  /\ intents[i] = "live"
  /\ intents' = [intents EXCEPT ![i] = "expired"]
  /\ UNCHANGED <<call, grants, table, spent, hostVars>>

(* The host gets the answer; an opened intent is published, and shown if   *)
(* none waits to be.                                                       *)
Return(c) ==
  LET k == call[c]
      opened == k.method = "cloneIntents.open" /\ k.result = "ok"
  IN /\ k.at = "returned"
     /\ Move(One(c, Ended(k.result)))
     /\ navigation' = IF opened THEN Append(navigation, k.intent) ELSE navigation
     /\ frame' = IF opened /\ navigation = <<>> THEN Shown(frame, GitClient, k.intent) ELSE frame
     /\ UNCHANGED <<prompts, seen, yes, remembered, stopped, coreVars>>

Next ==
  \/ \E plugin \in Plugins : Select(plugin)
  \/ Ready \/ Render \/ Unmount \/ Forget
  \/ \E agree \in BOOLEAN : Answer(agree)
  \/ \E i \in Intents : Expire(i)
  \/ \E c \in Calls :
       \/ Send(c) \/ Check(c) \/ List(c) \/ Choose(c)
       \/ Arrive(c) \/ Insert(c) \/ Consume(c) \/ Finish(c) \/ Return(c)

Spec == Init /\ [][Next]_vars

-----------------------------------------------------------------------------
(* The steps of a call that is in the hands of the core, or was. *)
AtCore(c) == call[c].at \in {"sent", "working", "running", "returned"}

(* An operation canceled before its command was sent is never sent, for as *)
(* long as the broker remembers the cancellation: whether it was being     *)
(* authorized, waited for its turn or for the user, or had its dialogs     *)
(* behind it and the directory still to be chosen (promptBroker.ts         *)
(* 143-167, hostApi.ts 666-789).                                           *)
CanceledStaysAtHome == \A c \in stopped : ~AtCore(c)

(* Two kinds of brokers share one gate (promptBroker.ts 48-71 and 143-164, *)
(* providers/promptBroker.ts 21-93).  The gate belongs to the one prompt   *)
(* that is open; nobody waits while none is; every request that waits for  *)
(* the user has its prompt, in one place, and no prompt is left of a       *)
(* request that is over; and the limits hold.                              *)
PromptsAreWaitedFor ==
  LET open == {prompts.shown, prompts.form} \ {None}
      waiting == Range(prompts.queue)
  IN /\ open = {prompts.owner} \ {None}
     /\ prompts.queue # <<>> => prompts.shown # None
     /\ open \cup waiting = {PromptId(c, call[c]) : c \in Asking}
     /\ Cardinality(Asking) = Cardinality(open) + Len(prompts.queue)
     /\ Cardinality({c \in Asking : call[c].dialogs # <<>>}) <= MaxPending
     /\ \A p \in Plugins :
          Cardinality({c \in Asking : /\ call[c].dialogs # <<>>
                                      /\ call[c].plugin = p}) <= MaxPerPlugin

(* No clone, fetch, pull or push, no credential and no grant of account    *)
(* access goes to the core unless the user agreed to every one of its      *)
(* dialogs while that dialog, and no other, was on the screen, however     *)
(* late the screen follows the brokers and however often a button is hit   *)
(* (TransportConfirmationDialog.tsx, settle in promptBroker.ts 64-71).     *)
NothingRunsUnasked ==
  \A c \in Calls :
    AtCore(c) \/ call[c].at = "choosing" =>
      /\ call[c].method \in Operations =>
           \A dialogs \in Confirmations(call[c].method) :
             \A n \in DOMAIN dialogs : <<c, n>> \in yes
      /\ call[c].method \in Forms => <<c, 0>> \in yes

(* The limiter counts the network requests under way, and no others: a     *)
(* slot is given back by a request that was denied, declined, withdrawn by *)
(* a cancellation of its operation, turned away as busy, refused or        *)
(* answered (rpcRouter.ts 628-707).  A leak would shut the plugin out of   *)
(* the network until the window is closed.                                 *)
SlotsAreGivenBack ==
  \A p \in Plugins :
    /\ slots[p] = Cardinality({c \in Calls : /\ call[c].at \notin {"idle", "done"}
                                             /\ call[c].plugin = p /\ Limited(call[c])})
    /\ slots[p] <= NetworkLimit

(* A clone intent serves one clone, which the git client made and the user *)
(* agreed to, and serves it before it expired (clone.rs 174-203).          *)
IntentsAreSpentOnce ==
  \A s, t \in spent :
    /\ s[4] = "live" /\ s[2] = GitClient /\ <<s[1], 1>> \in yes
    /\ s[3] = t[3] => s = t
=============================================================================
