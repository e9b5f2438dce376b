------------------------------ MODULE Discovery ------------------------------
(***************************************************************************)
(* Provider discovery: the repository listings and remote matches that     *)
(* plugins run against a hosting service (providers/service.rs), the       *)
(* registry that admits, cancels and drains them and the store of          *)
(* continuation cursors (providers/cursor.rs), the request with its        *)
(* attempts and its deadline (providers/http.rs), and the two commands     *)
(* that must drain what they take away: the deletion of an account and the *)
(* revocation of a plugin's grant.                                         *)
(*                                                                         *)
(* A repository is a model value and a query is the set of repositories it *)
(* matches with its page size; the service's answer to one listing does    *)
(* not change while the user pages through it.  A cursor is the number it  *)
(* was issued with: all live equally long, so they expire in that order.   *)
(***************************************************************************)
EXTENDS Integers, FiniteSets, FiniteSetsExt, Sequences, SequencesExt

CONSTANTS
  Calls,        \* the windows' requests that may be at work at once
  Plugins, Accounts, OperationIds,
  Queries,      \* names of queries
  Wanted,       \* [Queries -> SUBSET Repos]: what a query matches
  Size,         \* [Queries -> Nat]: its page size
  Layouts,      \* possible upstreams: [pages, next], next[i] = 0 after the last
  Locals,       \* Seq(Seq(Repos \cup {Nothing})): per local remote, what each
                \* address it is detected under resolves to at the service
  Refusals,     \* the failures a request may end with
  RateStates,   \* what a page may say of the rate limit; Nothing: no word
  GlobalLimit, AccountLimit, Concurrency, CursorCapacity, MaxPages, MaxAttempts,
  MaxCalls,     \* bound: requests made
  MaxDrains,    \* bound: deletions and revocations begun
  Nothing

\* What an address may resolve to; Nothing: nothing, or it cannot be verified.
Resolved == {Nothing} \cup UNION {Range(Locals[i]) : i \in DOMAIN Locals}

\* What the service may list.
Listed == UNION {UNION {Range(u.pages[i]) : i \in DOMAIN u.pages} : u \in Layouts}

ASSUME DiscoveryAssumption ==
  /\ \A q \in Queries : Size[q] \in Nat \ {0}
  /\ \A u \in Layouts :
       /\ u.pages \in Seq(Seq(Listed)) /\ Len(u.pages) > 0
       /\ u.next \in Seq(0..Len(u.pages)) /\ Len(u.next) = Len(u.pages)
  /\ Locals \in Seq(Seq(Resolved))
  /\ Refusals \subseteq {"Authentication", "Permission", "RateLimited",
                         "Unreachable", "Tls", "InvalidResponse"}
  /\ RateStates \subseteq {Nothing, "Connected", "RateLimited"}
  /\ {GlobalLimit, AccountLimit, Concurrency, CursorCapacity, MaxPages,
      MaxAttempts} \subseteq Nat \ {0}

VARIABLES
  upstream,     \* the layout of the service's listing
  tokens,       \* the operation registry: key -> call
  canceled,     \* calls whose token is cancelled
  granted,      \* <<plugin, account>> with an active providers:read grant
  accounts,     \* account rows
  secrets,      \* accounts with a token in the system's secret store
  permits,      \* calls that hold a permit of their account's semaphore
  cursors,      \* the cursor store: number -> entry
  issued,       \* last cursor number given out
  expiredTo,    \* cursors up to this number have expired
  health,       \* the status shown for an account
  call,         \* what each call is doing
  drain,        \* the deletion and the revocation in progress
  made, drains  \* counters for the bounds

discoveryVars ==
  <<upstream, tokens, canceled, granted, accounts, secrets, permits, cursors, issued,
    expiredTo, health, call, drain, made, drains>>

registry == <<tokens, canceled>>
store == <<cursors, issued>>
rows == <<granted, accounts, secrets>>
bounds == <<upstream, expiredTo, made, drains>>

Drains == {"delete", "revoke"}

Resting == [pc |-> "Idle", kind |-> Nothing, plugin |-> Nothing, account |-> Nothing,
            op |-> Nothing, query |-> Nothing, cursor |-> 0, next |-> 0, attempt |-> 0,
            read |-> 0, seen |-> {}, buffered |-> <<>>, items |-> <<>>,
            before |-> <<>>, outcome |-> Nothing, suggestions |-> <<>>,
            failed |-> FALSE, answers |-> <<>>]

Inactive == [pc |-> "Idle", plugin |-> Nothing, account |-> Nothing, woken |-> FALSE,
             old |-> {}]

DiscoveryInit ==
  /\ upstream \in Layouts
  /\ tokens = [k \in {} |-> Nothing] /\ canceled = {}
  /\ granted = Plugins \X Accounts /\ accounts = Accounts /\ secrets = Accounts
  /\ permits = {}
  /\ cursors = [n \in {} |-> Nothing] /\ issued = 0 /\ expiredTo = 0
  /\ health = [a \in Accounts |-> Nothing]
  /\ call = [c \in Calls |-> Resting]
  /\ drain = [d \in Drains |-> Inactive]
  /\ made = 0 /\ drains = 0

KeyOf(r) == <<r.plugin, r.account, r.op>>
To(r, pc) == [r EXCEPT !.pc = pc]

(* An error return: what the call had gathered is dropped.                 *)
Failed(r, error) ==
  [Resting EXCEPT !.pc = "Leave", !.kind = r.kind, !.plugin = r.plugin,
                  !.account = r.account, !.op = r.op, !.outcome = error]

(* A call with its new state; whatever else the step changes is beside it. *)
Becomes(c, r) == call' = [call EXCEPT ![c] = r]

\* status_for_error
StatusFor(error) ==
  CASE error \in {"Authentication", "Permission"} -> "ActionRequired"
    [] error = "RateLimited" -> "RateLimited"
    [] OTHER -> "Unavailable"

(* ------------------------------ admission ------------------------------ *)

(* The command checks the plugin's grant, then calls the service; another  *)
(* command may run in between.                                             *)
Ask(c) ==
  /\ call[c].pc = "Idle" /\ made < MaxCalls
  /\ \E k \in granted, o \in OperationIds :
       LET r == [Resting EXCEPT !.pc = "Start", !.plugin = k[1], !.account = k[2],
                                !.op = o]
       IN  \/ \E q \in Queries, n \in 0..issued :
                Becomes(c, [r EXCEPT !.kind = "List", !.query = q, !.cursor = n])
           \/ Len(Locals) > 0 /\ Becomes(c, [r EXCEPT !.kind = "Match"])
  /\ made' = made + 1
  /\ UNCHANGED <<registry, rows, permits, store, health, drain, upstream, expiredTo,
                 drains>>

Full(account) ==
  \/ Cardinality(DOMAIN tokens) >= GlobalLimit
  \/ Cardinality({k \in DOMAIN tokens : k[2] = account}) >= AccountLimit

\* mutant: a key that is in use is taken over
Start_TakesOver(c) ==
  LET r == call[c] IN
  /\ r.pc = "Start"
  /\ IF Full(r.account)
       THEN Becomes(c, Resting) /\ UNCHANGED registry
       ELSE /\ tokens' = [k \in DOMAIN tokens \cup {KeyOf(r)} |->
                            IF k = KeyOf(r) THEN c ELSE tokens[k]]
            /\ Becomes(c, To(r, "Lookup")) /\ UNCHANGED canceled
  /\ UNCHANGED <<rows, permits, store, health, drain, bounds>>

(* OperationRegistry::start: a duplicate key or a full registry is refused *)
(* with "busy"; otherwise the call has a fresh token.                      *)
Start(c) ==
  LET r == call[c] IN
  /\ r.pc = "Start"
  /\ IF KeyOf(r) \in DOMAIN tokens \/ Full(r.account)
       THEN Becomes(c, Resting) /\ UNCHANGED registry
       ELSE /\ tokens' = [k \in DOMAIN tokens \cup {KeyOf(r)} |->
                            IF k = KeyOf(r) THEN c ELSE tokens[k]]
            /\ Becomes(c, To(r, "Lookup")) /\ UNCHANGED canceled
  /\ UNCHANGED <<rows, permits, store, health, drain, bounds>>

(* ------------------------------- cursors ------------------------------- *)

Unexpired == RestrictDomain(cursors, LAMBDA n : n > expiredTo)

FitsRequest(entry, r) ==
  entry.plugin = r.plugin /\ entry.account = r.account /\ entry.query = r.query

(* The account and its instance are read and, for a continuation, the      *)
(* cursor is taken: any use purges what has expired, and a cursor that     *)
(* fits the request is gone afterwards, whatever becomes of the request.   *)
Lookup(c) ==
  LET r == call[c] IN
  /\ r.pc = "Lookup"
  /\ CASE r.account \notin accounts ->
            Becomes(c, Failed(r, "NotFound")) /\ UNCHANGED cursors
       [] r.account \in accounts /\ r.cursor = 0 ->
            Becomes(c, To(r, "Permit")) /\ UNCHANGED cursors
       [] OTHER ->
            IF r.cursor \in DOMAIN Unexpired /\ FitsRequest(Unexpired[r.cursor], r)
              THEN LET entry == Unexpired[r.cursor] IN
                   /\ cursors' = RestrictDomain(Unexpired, LAMBDA n : n # r.cursor)
                   /\ Becomes(c, [To(r, "Permit") EXCEPT !.next = entry.next,
                                    !.buffered = entry.buffered,
                                    !.before = entry.before])
              ELSE /\ cursors' = Unexpired
                   /\ Becomes(c, Failed(r, "InvalidCursor"))
  /\ UNCHANGED <<registry, rows, permits, issued, health, drain, bounds>>

(* CursorStore::insert, with the entry nearest its expiry evicted from a   *)
(* full store.                                                             *)
Insert(entry) ==
  LET live == Unexpired
      kept == IF Cardinality(DOMAIN live) >= CursorCapacity
                THEN DOMAIN live \ {Min(DOMAIN live)}
                ELSE DOMAIN live
  IN  /\ issued' = issued + 1
      /\ cursors' = [n \in kept \cup {issued'} |->
                       IF n = issued' THEN entry ELSE live[n]]

(* ------------------------- the account's permit ------------------------ *)

Acquire(c) ==
  LET r == call[c] IN
  /\ r.pc = "Permit"
  /\ IF c \in canceled
       THEN Becomes(c, Failed(r, "Canceled")) /\ UNCHANGED permits
       ELSE /\ Cardinality({d \in permits : call[d].account = r.account}) < Concurrency
            /\ permits' = permits \cup {c}
            /\ Becomes(c, To(r, "Secret"))
  /\ UNCHANGED <<registry, rows, store, health, drain, bounds>>

(* ------------------------- the loop of a listing ----------------------- *)

(* The head of the loop: a full page ends it; otherwise the next page of   *)
(* the service is asked for, unless too many were read for one request or  *)
(* the service repeats a cursor.                                           *)
Turn(r, shouldFetch) ==
  CASE Len(r.items) >= Size[r.query] \/ ~shouldFetch -> To(r, "Finish")
    [] OTHER ->
         IF r.read >= MaxPages THEN Failed(r, "Partial")
         ELSE IF r.next # 0 /\ r.next \in r.seen THEN Failed(r, "InvalidResponse")
         ELSE [To(r, "Send") EXCEPT !.attempt = 1,
                                    !.seen = r.seen \cup ({r.next} \ {0})]

\* mutant: a continuation whose service has no further page fetches again
StartListing_Refetches(r) ==
  LET n == Min({Len(r.buffered), Size[r.query]})
      s == [r EXCEPT !.items = SubSeq(r.buffered, 1, n),
                     !.buffered = SubSeq(r.buffered, n + 1, Len(r.buffered))]
  IN  Turn(s, r.cursor = 0 \/ Len(s.items) < Size[r.query])

(* What an earlier request left over comes first; a continuation fetches   *)
(* only when that does not fill the page and the service has more.         *)
StartListing(r) ==
  LET n == Min({Len(r.buffered), Size[r.query]})
      s == [r EXCEPT !.items = SubSeq(r.buffered, 1, n),
                     !.buffered = SubSeq(r.buffered, n + 1, Len(r.buffered))]
  IN  Turn(s, r.cursor = 0 \/ (Len(s.items) < Size[r.query] /\ s.next # 0))

ReadSecret(c) ==
  LET r == call[c] IN
  /\ r.pc = "Secret"
  /\ Becomes(c, CASE r.account \notin secrets -> Failed(r, "SecretStore")
                  [] r.account \in secrets /\ r.kind = "List" -> StartListing(r)
                  [] OTHER -> To(r, "Remote"))
  /\ UNCHANGED <<registry, rows, permits, store, health, drain, bounds>>

\* The items of a page that match, in its order.
Matching(items, query) ==
  LET found[n \in 0..Len(items)] ==  \* among the first n
        IF n = 0 THEN <<>>
        ELSE IF items[n] \in Wanted[query] THEN Append(found[n - 1], items[n]) ELSE found[n - 1]
  IN  found[Len(items)]

PageOf(r) == IF r.next = 0 THEN 1 ELSE r.next

(* next_page: the service names at most one further page.                  *)
NextPage(r) == upstream.next[PageOf(r)]

\* mutant: what does not fit the page is dropped
PageRead_DropsRest(r) ==
  LET found == Matching(upstream.pages[PageOf(r)], r.query)
      n == Min({Len(found), Size[r.query] - Len(r.items)})
      s == [r EXCEPT !.items = @ \o SubSeq(found, 1, n),
                     !.next = NextPage(r),
                     !.read = @ + 1]
  IN  Turn(s, s.next # 0)

(* A page arrived: its matching items fill the request's page, the rest is *)
(* kept for the next one.                                                  *)
PageRead(r) ==
  LET found == Matching(upstream.pages[PageOf(r)], r.query)
      n == Min({Len(found), Size[r.query] - Len(r.items)})
      s == [r EXCEPT !.items = @ \o SubSeq(found, 1, n),
                     !.buffered = @ \o SubSeq(found, n + 1, Len(found)),
                     !.next = NextPage(r),
                     !.read = @ + 1]
  IN  Turn(s, s.next # 0)

(* -------------------------- the loop of a match ------------------------ *)

Unique(answers) == {answers[i] : i \in DOMAIN answers} \ {Nothing}

\* mutant: an address that could not be verified is forgotten
Suggestion_FailedIgnored(r) ==
  LET repositories == Unique(r.answers) IN
  [status |-> CASE Len(r.answers) = 0 -> "None"
                [] Cardinality(repositories) > 1 -> "Ambiguous"
                [] Cardinality(repositories) = 1 -> "Suggested"
                [] OTHER -> "Unverified",
   repository |-> IF Cardinality(repositories) = 1
                    THEN CHOOSE x \in repositories : TRUE ELSE Nothing,
   answers |-> r.answers]

(* What is said of a local remote once all its addresses were looked up:   *)
(* suggested only when they agree on one repository and none failed.       *)
Suggestion(r) ==
  LET repositories == Unique(r.answers)
      status == CASE Len(r.answers) = 0 -> "None"
                  [] Cardinality(repositories) > 1 -> "Ambiguous"
                  [] Cardinality(repositories) = 1 /\ ~r.failed -> "Suggested"
                  [] OTHER -> "Unverified"
  IN  [status |-> status,
       repository |-> IF status = "Suggested"
                        THEN CHOOSE x \in repositories : TRUE ELSE Nothing,
       answers |-> r.answers]

RemoteOf(r) == Len(r.suggestions) + 1
AddressesOf(r) == Locals[RemoteOf(r)]

(* The next local remote: its first address is looked up, or there is      *)
(* nothing to look up, or the match is complete.                           *)
NextRemote(c) ==
  LET r == call[c] IN
  /\ r.pc = "Remote"
  /\ Becomes(c,
       CASE RemoteOf(r) > Len(Locals) -> [To(r, "Leave") EXCEPT !.outcome = "Done"]
         [] RemoteOf(r) <= Len(Locals) /\ c \in canceled -> Failed(r, "Canceled")
         [] OTHER -> IF Len(AddressesOf(r)) = 0
                       THEN [r EXCEPT !.suggestions = Append(@, Suggestion(r))]
                       ELSE [To(r, "Send") EXCEPT !.attempt = 1])
  /\ UNCHANGED <<registry, rows, permits, store, health, drain, bounds>>

(* One address was answered, with a repository or a failure (Nothing).     *)
Answered(r, answer) ==
  LET s == [r EXCEPT !.answers = Append(@, answer), !.failed = @ \/ answer = Nothing]
  IN  IF Len(s.answers) < Len(AddressesOf(r))
        THEN [To(s, "Send") EXCEPT !.attempt = 1]
        ELSE [To(s, "Remote") EXCEPT !.suggestions = Append(@, Suggestion(s)),
                                     !.answers = <<>>, !.failed = FALSE]

(* ------------------------------ the request ---------------------------- *)

(* What a listing or a match makes of a request that failed.  A listing    *)
(* notes even a cancellation as a failure of the account.                  *)
Unanswered(c, error) ==
  LET r == call[c] IN
  /\ health' = IF r.kind = "Match" /\ error = "Canceled" THEN health
               ELSE [health EXCEPT ![r.account] = StatusFor(error)]
  /\ Becomes(c, CASE r.kind = "List" ->
                       Failed(r, IF r.cursor # 0 /\ error # "Canceled"
                                   THEN "Partial" ELSE error)
                  [] r.kind = "Match" /\ error = "Canceled" -> Failed(r, error)
                  [] OTHER -> Answered(r, Nothing))

(* "Send": the response or its body is awaited; "Backoff": the pause before *)
(* another attempt.                                                        *)
AtTheService == {"Send", "Backoff"}

(* Every wait of a request ends at its cancellation, before anything else, *)
(* or at the deadline its attempts share; a page that arrives just before  *)
(* its cancellation is dropped.                                            *)
Interrupted(c) ==
  /\ call[c].pc \in AtTheService
  /\ \/ Unanswered(c, IF c \in canceled THEN "Canceled" ELSE "Unreachable")
     \/ /\ call[c].kind = "List" /\ c \in canceled
        /\ Becomes(c, Failed(call[c], "Canceled")) /\ UNCHANGED health
  /\ UNCHANGED <<registry, rows, permits, store, drain, bounds>>

(* The connection broke, or the service was briefly unavailable: another   *)
(* attempt after a pause, or the last failure stands.                      *)
Broken(c) ==
  /\ call[c].pc = "Send" /\ c \notin canceled
  /\ IF call[c].attempt < MaxAttempts
       THEN Becomes(c, To(call[c], "Backoff")) /\ UNCHANGED health
       ELSE Unanswered(c, "Unreachable")
  /\ UNCHANGED <<registry, rows, permits, store, drain, bounds>>

Retry(c) ==
  /\ call[c].pc = "Backoff" /\ c \notin canceled
  /\ Becomes(c, [To(call[c], "Send") EXCEPT !.attempt = @ + 1])
  /\ UNCHANGED <<registry, rows, permits, store, health, drain, bounds>>

(* The service refused, or its answer is malformed, too large or           *)
(* redirects: no second attempt.                                           *)
Refused(c) ==
  /\ call[c].pc = "Send" /\ c \notin canceled
  /\ \E error \in Refusals : Unanswered(c, error)
  /\ UNCHANGED <<registry, rows, permits, store, drain, bounds>>

(* A page with too many repositories, or with one of another instance: the *)
(* listing is over, and nothing is noted of the account.                   *)
PageRejected(c) ==
  /\ call[c].pc = "Send" /\ call[c].kind = "List" /\ c \notin canceled
  /\ Becomes(c, Failed(call[c], "InvalidResponse"))
  /\ UNCHANGED <<registry, rows, permits, store, health, drain, bounds>>

(* A page of the listing, perhaps with the state of the rate limit.        *)
ReceivePage(c) ==
  LET r == call[c] IN
  /\ r.pc = "Send" /\ r.kind = "List" /\ c \notin canceled
  /\ Becomes(c, PageRead(r))
  /\ \E state \in RateStates :
       health' = IF state = Nothing THEN health
                 ELSE [health EXCEPT ![r.account] = state]
  /\ UNCHANGED <<registry, rows, permits, store, drain, bounds>>

(* The repository an address resolves to; one the service does not know is *)
(* a failure of verification.                                              *)
ReceiveRepository(c) ==
  LET r == call[c]
      answer == AddressesOf(r)[Len(r.answers) + 1] IN
  /\ r.pc = "Send" /\ r.kind = "Match" /\ c \notin canceled
  /\ IF answer = Nothing
       THEN Unanswered(c, "Permission")
       ELSE Becomes(c, Answered(r, answer)) /\ UNCHANGED health
  /\ UNCHANGED <<registry, rows, permits, store, drain, bounds>>

(* ------------------------------ the way out ---------------------------- *)

HasMore(r) == r.buffered # <<>> \/ r.next # 0

(* The permit is given back, what is left is put behind a new cursor, and  *)
(* an account nothing is known of is shown as connected.                   *)
FinishListing(c) ==
  LET r == call[c] IN
  /\ r.pc = "Finish"
  /\ IF c \in canceled
       THEN Becomes(c, Failed(r, "Canceled")) /\ UNCHANGED <<permits, store, health>>
       ELSE /\ permits' = permits \ {c}
            /\ IF HasMore(r)
                 THEN Insert([plugin |-> r.plugin, account |-> r.account,
                              query |-> r.query, next |-> r.next,
                              buffered |-> r.buffered,
                              before |-> r.before \o r.items])
                 ELSE UNCHANGED store
            /\ health' = [health EXCEPT ![r.account] =
                            IF @ = Nothing THEN "Connected" ELSE @]
            /\ Becomes(c, [To(r, "Leave") EXCEPT !.outcome = "Done"])
  /\ UNCHANGED <<registry, rows, drain, bounds>>

(* A Notified exists from its creation on, before it is awaited.           *)
Waiting(d) == drain[d].pc \in {"Check", "Sleep"}

(* Every exit gives the permit back, then the operation: OperationGuard's  *)
(* drop removes the key and only then wakes those who wait; its token is   *)
(* gone.                                                                   *)
Leave(c) ==
  LET r == call[c] IN
  /\ r.pc = "Leave"
  /\ permits' = permits \ {c}
  /\ tokens' = RestrictDomain(tokens, LAMBDA k : k # KeyOf(r))
  /\ canceled' = canceled \ {c}
  /\ Becomes(c, To(Resting, "Notify"))
  /\ UNCHANGED <<rows, store, health, drain, bounds>>

Notify(c) ==
  /\ call[c].pc = "Notify"
  /\ Becomes(c, Resting)
  /\ drain' = [d \in Drains |-> [drain[d] EXCEPT !.woken = @ \/ Waiting(d),
                                                 !.old = @ \ {c}]]
  /\ UNCHANGED <<registry, rows, permits, store, health, bounds>>

(* provider_operation_cancel: by a plugin that still has its grant.        *)
CancelOperation ==
  /\ \E k \in DOMAIN tokens :
       <<k[1], k[2]>> \in granted /\ canceled' = canceled \cup {tokens[k]}
  /\ UNCHANGED <<tokens, rows, permits, store, health, call, drain, bounds>>

(* --------------------- taking an account or a grant away --------------- *)

Goes(d, pc) == drain' = [drain EXCEPT ![d].pc = pc]
Ends(d) == drain' = [drain EXCEPT ![d] = Inactive]

\* The operations a deletion or a revocation cancels and waits for.
InScope(d, k) ==
  k[2] = drain[d].account /\ (d = "revoke" => k[1] = drain[d].plugin)

Busy(d) == \E k \in DOMAIN tokens : InScope(d, k)

(* delete_account begins with the account's operations; a revocation has   *)
(* withdrawn the grant by then.                                            *)
Begin(d) ==
  /\ drain[d].pc = "Idle" /\ drains < MaxDrains
  /\ \E p \in IF d = "revoke" THEN Plugins ELSE {Nothing}, a \in Accounts :
       /\ drain' = [drain EXCEPT ![d] =
                      [Inactive EXCEPT !.pc = "Cancel", !.plugin = p, !.account = a]]
       /\ granted' = IF d = "revoke" THEN granted \ {<<p, a>>} ELSE granted
  /\ drains' = drains + 1
  /\ UNCHANGED <<registry, accounts, secrets, permits, store, health, call, upstream,
                 expiredTo, made>>

CancelMatching(d) ==
  /\ drain[d].pc = "Cancel"
  /\ LET old == {tokens[k] : k \in {j \in DOMAIN tokens : InScope(d, j)}} IN
       /\ canceled' = canceled \cup old
       /\ drain' = [drain EXCEPT ![d].pc = "Listen", ![d].old = old]
  /\ UNCHANGED <<tokens, rows, permits, store, health, call, bounds>>

(* wait_until_idle: the wake-up is subscribed to, then the registry is     *)
(* looked at.                                                              *)
Listen(d) ==
  /\ drain[d].pc = "Listen"
  /\ drain' = [drain EXCEPT ![d].pc = "Check", ![d].woken = FALSE]
  /\ UNCHANGED <<registry, rows, permits, store, health, call, bounds>>

Check(d) ==
  /\ drain[d].pc = "Check"
  /\ Goes(d, IF Busy(d) THEN "Sleep" ELSE "Drained")
  /\ UNCHANGED <<registry, rows, permits, store, health, call, bounds>>

(* Woken, it looks again; at the deadline it gives up ("busy").            *)
Wake(d) ==
  /\ drain[d].pc = "Sleep"
  /\ \/ drain[d].woken /\ Goes(d, "Listen")
     \/ Ends(d)
  /\ UNCHANGED <<registry, rows, permits, store, health, call, bounds>>

RevocationEnds ==
  /\ drain["revoke"].pc = "Drained"
  /\ Ends("revoke")
  /\ UNCHANGED <<registry, rows, permits, store, health, call, bounds>>

(* The account and its token are read; then the token is deleted.          *)
DeleteSecret ==
  LET a == drain["delete"].account IN
  /\ drain["delete"].pc = "Drained"
  /\ IF a \in accounts /\ a \in secrets
       THEN Goes("delete", "Row") /\ secrets' = secrets \ {a}
       ELSE Ends("delete") /\ UNCHANGED secrets
  /\ UNCHANGED <<registry, granted, accounts, permits, store, health, call, bounds>>

(* The row goes, and with it, in one transaction, every grant on the       *)
(* account; or the resolution is refused and the token is put back.        *)
DeleteRow ==
  LET a == drain["delete"].account IN
  /\ drain["delete"].pc = "Row"
  /\ \/ /\ accounts' = accounts \ {a}
        /\ granted' = {g \in granted : g[2] # a}
        /\ Goes("delete", "Forget") /\ UNCHANGED secrets
     \/ /\ secrets' = secrets \cup {a}
        /\ Ends("delete") /\ UNCHANGED <<accounts, granted>>
  /\ UNCHANGED <<registry, permits, store, health, call, bounds>>

(* Its status and its semaphore are dropped; a permit of the old semaphore *)
(* does not count against a new one.                                       *)
Forget ==
  LET a == drain["delete"].account IN
  /\ drain["delete"].pc = "Forget"
  /\ health' = [health EXCEPT ![a] = Nothing]
  /\ permits' = {c \in permits : call[c].account # a}
  /\ Ends("delete")
  /\ UNCHANGED <<registry, rows, store, call, bounds>>

(* The user grants a plugin an account again.                              *)
Grant ==
  /\ \E p \in Plugins, a \in accounts :
       <<p, a>> \notin granted /\ granted' = granted \cup {<<p, a>>}
  /\ UNCHANGED <<registry, accounts, secrets, permits, store, health, call, drain,
                 bounds>>

(* Ten minutes pass for the oldest cursors.                                *)
TimePasses ==
  /\ \E n \in (expiredTo + 1)..issued : expiredTo' = n
  /\ UNCHANGED <<registry, rows, permits, store, health, call, drain, upstream, made,
                 drains>>

CallStep(c) ==
  \/ Ask(c) \/ Start(c) \/ Lookup(c) \/ Acquire(c) \/ ReadSecret(c) \/ NextRemote(c)
  \/ Interrupted(c) \/ Broken(c) \/ Retry(c) \/ Refused(c) \/ PageRejected(c)
  \/ ReceivePage(c) \/ ReceiveRepository(c) \/ FinishListing(c) \/ Leave(c) \/ Notify(c)

DrainStep(d) ==
  Begin(d) \/ CancelMatching(d) \/ Listen(d) \/ Check(d) \/ Wake(d)

DiscoveryNext ==
  \/ \E c \in Calls : CallStep(c)
  \/ \E d \in Drains : DrainStep(d)
  \/ RevocationEnds \/ DeleteSecret \/ DeleteRow \/ Forget
  \/ CancelOperation \/ Grant \/ TimePasses

DiscoverySpec == DiscoveryInit /\ [][DiscoveryNext]_discoveryVars

-----------------------------------------------------------------------------
(* A listing whose service numbers its pages in order.                     *)
Honest == \A i \in DOMAIN upstream.next :
            upstream.next[i] = IF i < Len(upstream.next) THEN i + 1 ELSE 0

\* What matches from page n of the service on.
From(query, n) ==
  LET N == Len(upstream.pages)
      last[k \in 0..N] ==  \* on the last k pages
        IF k = 0 THEN <<>> ELSE Matching(upstream.pages[N - k + 1], query) \o last[k - 1]
  IN  last[IF n = 0 THEN 0 ELSE N - n + 1]

Whole(query) == From(query, 1)

(* Following the cursors of a listing gives every matching repository      *)
(* once and in the service's order: what was returned so far, what is left *)
(* over and what the service still has add up to the whole, at every       *)
(* cursor; a listing without a further cursor was complete; and only its   *)
(* last page is short.  Left-overs, local filtering and page limits of     *)
(* providers/service.rs:507-585 must agree for this.                       *)
PagesAddUp ==
  Honest =>
    /\ \A n \in DOMAIN cursors :
         LET e == cursors[n] IN
         e.before \o e.buffered \o From(e.query, e.next) = Whole(e.query)
    /\ \A c \in Calls :
         LET r == call[c] IN
         (r.pc = "Leave" /\ r.kind = "List" /\ r.outcome = "Done") =>
           IF HasMore(r) THEN Len(r.items) = Size[r.query]
           ELSE r.before \o r.items = Whole(r.query)

(* A repository is suggested for a local remote only when every address of *)
(* the remote was looked up and each gave that same repository, whatever   *)
(* was interrupted, retried or refused in between                          *)
(* (providers/service.rs:668-757).                                         *)
SuggestionsAreEarned ==
  \A c \in Calls : \A i \in DOMAIN call[c].suggestions :
    LET s == call[c].suggestions[i] IN
    /\ Len(s.answers) = Len(Locals[i])
    /\ s.status = "Suggested" <=>
         /\ Len(s.answers) > 0
         /\ \A j \in DOMAIN s.answers : s.answers[j] # Nothing /\ s.answers[j] = s.answers[1]
    /\ s.status = "Suggested" => s.repository = s.answers[1]

(* A deletion or a revocation goes on only when none of the operations it  *)
(* cancelled is at work any more, and it never sleeps through the end of   *)
(* the last one: asleep and not woken, an operation it waits for is        *)
(* registered or about to wake it (providers/cursor.rs:249-267).  What is  *)
(* registered and every permit belong to a request still at work: no exit  *)
(* leaves one behind that would fill the limits or block a later deletion. *)
DrainsAreComplete ==
  /\ \A k \in DOMAIN tokens :
       KeyOf(call[tokens[k]]) = k /\ call[tokens[k]].pc \notin {"Start", "Notify"}
  /\ \A c \in permits : call[c].pc \notin {"Start", "Notify"} /\ c \in Range(tokens)
  /\ \A d \in Drains :
       /\ drain[d].pc \in {"Drained", "Row", "Forget"} =>
            \A c \in drain[d].old : call[c].pc = "Notify"
       /\ (drain[d].pc = "Sleep" /\ ~drain[d].woken) =>
            Busy(d) \/ \E c \in Calls : call[c].pc = "Notify"
=============================================================================
