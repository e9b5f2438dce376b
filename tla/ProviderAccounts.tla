--------------------------- MODULE ProviderAccounts ---------------------------
(***************************************************************************)
(* The accounts of a provider (providers/service.rs, store.rs): a row in   *)
(* the database that refers to a secret in the key ring of the system.     *)
(* Connecting, rotating and validating wait for the provider between what  *)
(* they read and what they write; the key ring and the database each may   *)
(* fail by themselves; and nothing keeps two calls on one account apart.   *)
(*                                                                         *)
(* One instance.  Whether the provider accepts a token, and whether the    *)
(* database accepts a row, is a choice.  `contended` and `lost` are not in *)
(* the code: the accounts two calls have been on at the same time, and the *)
(* secrets a crash or a second failure has left where they were.           *)
(***************************************************************************)
EXTENDS Naturals, FiniteSets

CONSTANTS
  Accounts,
  Calls,
  MaxSecrets,   \* bound: how many tokens an account ever has
  MaxCrashes    \* bound: how often the process dies

ASSUME AccountsAssumption == MaxSecrets \in Nat /\ MaxCrashes \in Nat

VARIABLES
  accounts,     \* account -> its row, or that it has none (yet, or any more)
  keyring,      \* the references the key ring has a secret for
  cleanup,      \* the table of references whose secret is still to be deleted
  issued,       \* account -> how many references have been made for it
  call,         \* call -> where it is, with what it has read
  startup,      \* what retry_secret_cleanup has listed and not yet looked at
  crashes,
  contended, lost

store   == <<accounts, keyring, cleanup, issued>>
history == <<contended, lost>>
vars    == <<accounts, keyring, cleanup, issued, call, startup, crashes, contended, lost>>

\* A row has its secret and whether it is the default.
NoRow == [secret |-> "none yet"]
Gone  == [secret |-> "deleted"]
Refs  == Accounts \X (1..MaxSecrets)

\* A call has its step, its account, the reference it has read and the one it
\* has made.
Idle == [at |-> "idle"]

Existing  == {a \in Accounts : accounts[a] \notin {NoRow, Gone}}
Referenced == {accounts[a].secret : a \in Existing}
Siblings(a) == Existing \ {a}
On(a)     == {c \in Calls : call[c] # Idle /\ call[c].account = a}
At(c, at) == call[c].at = at
NewRef(a) == <<a, issued[a] + 1>>

Init ==
  /\ accounts = [a \in Accounts |-> NoRow]
  /\ keyring = {} /\ cleanup = {}
  /\ issued = [a \in Accounts |-> 0]
  /\ call = [c \in Calls |-> Idle]
  /\ startup = {} /\ crashes = 0
  /\ contended = {} /\ lost = {}

-----------------------------------------------------------------------------
Return(c) == call' = [call EXCEPT ![c] = Idle]
GoTo(c, at) == call' = [call EXCEPT ![c].at = at]

\* A call enters once the start is over.
Enter(c, at, a, old, new) ==
  /\ At(c, "idle")
  /\ startup = {}
  /\ call' = [call EXCEPT ![c] = [at |-> at, account |-> a, old |-> old, new |-> new]]
  /\ contended' = IF On(a) = {} THEN contended ELSE contended \cup {a}
  /\ UNCHANGED <<startup, crashes, lost>>

\* secrets.set of a reference nobody has used before.
Deposit(a) ==
  /\ issued[a] < MaxSecrets
  /\ issued' = [issued EXCEPT ![a] = @ + 1]
  /\ keyring' = keyring \cup {NewRef(a)}
  /\ UNCHANGED <<accounts, cleanup>>

\* compensate_new_secret, and the end of rotate_account: the secret goes, or
\* is noted down, or neither.
Discard(ref) ==
  \/ keyring' = keyring \ {ref} /\ UNCHANGED <<cleanup, lost>>
  \/ cleanup' = cleanup \cup {ref} /\ UNCHANGED <<keyring, lost>>
  \/ lost' = lost \cup {ref} /\ UNCHANGED <<keyring, cleanup>>

\* The new secret of a call that fails after it was deposited.
Compensate(c) ==
  /\ Discard(call[c].new)
  /\ Return(c)
  /\ UNCHANGED <<accounts, issued, startup, crashes, contended>>

-----------------------------------------------------------------------------
\* connect_account.
BeginConnect(c, a) ==
  /\ accounts[a] = NoRow /\ On(a) = {}
  /\ Deposit(a)
  /\ Enter(c, "connecting", a, NewRef(a), NewRef(a))

Insert(c) ==
  LET a == call[c].account IN
  /\ accounts' = [accounts EXCEPT ![a] =
                    [secret |-> call[c].new, default |-> Existing = {}]]
  /\ Return(c)
  /\ UNCHANGED <<keyring, cleanup, issued, startup, crashes, history>>

Connect(c) == At(c, "connecting") /\ (Insert(c) \/ Compensate(c))

\* rotate_account.
BeginRotate(c, a) ==
  /\ a \in Existing
  /\ Deposit(a)
  /\ Enter(c, "rotating", a, accounts[a].secret, NewRef(a))

\* update_account_secret, if the row is still there.  Mutant: nobody retires
\* the secret that was replaced.
Switch_Only(c) ==
  LET a == call[c].account IN
  /\ a \in Existing
  /\ accounts' = [accounts EXCEPT ![a].secret = call[c].new]
  /\ Return(c)
  /\ UNCHANGED <<keyring, cleanup, issued, startup, crashes, history>>

Switch(c) ==
  LET a == call[c].account IN
  /\ a \in Existing
  /\ accounts' = [accounts EXCEPT ![a].secret = call[c].new]
  /\ GoTo(c, "retiring")
  /\ UNCHANGED <<keyring, cleanup, issued, startup, crashes, history>>

Rotate(c) == At(c, "rotating") /\ (Switch(c) \/ Compensate(c))

Retire(c) ==
  /\ At(c, "retiring")
  /\ Discard(call[c].old)
  /\ Return(c)
  /\ UNCHANGED <<accounts, issued, startup, crashes, contended>>

\* validate_account.  What it writes back is the reference it has read.
BeginValidate(c, a) ==
  /\ a \in Existing
  /\ accounts[a].secret \in keyring
  /\ Enter(c, "validating", a, accounts[a].secret, accounts[a].secret)
  /\ UNCHANGED store

Validate(c) ==
  LET a == call[c].account IN
  /\ At(c, "validating")
  /\ \/ a \in Existing /\ accounts' = [accounts EXCEPT ![a].secret = call[c].old]
     \/ UNCHANGED accounts
  /\ Return(c)
  /\ UNCHANGED <<keyring, cleanup, issued, startup, crashes, history>>

-----------------------------------------------------------------------------
\* delete_account.  It waits for the operations of the account to end, and
\* may give up at that.
BeginDelete(c, a) ==
  /\ a \in Existing
  /\ Enter(c, "deleting", a, accounts[a].secret, accounts[a].secret)
  /\ UNCHANGED store

\* The row is read now; the secret goes first, and must have been there.
DeleteSecret(c) ==
  LET a == call[c].account IN
  /\ At(c, "deleting")
  /\ \/ /\ a \in Existing
        /\ accounts[a].secret \in keyring
        /\ keyring' = keyring \ {accounts[a].secret}
        /\ call' = [call EXCEPT ![c].at = "unkeyed", ![c].old = accounts[a].secret]
     \/ Return(c) /\ UNCHANGED keyring
  /\ UNCHANGED <<accounts, cleanup, issued, startup, crashes, history>>

\* delete_account_with_resolution, one transaction: where the default account
\* goes, one of the others takes its place.  Mutant: none does.
DeleteRow_WithoutReplacement(c) ==
  /\ accounts' = [accounts EXCEPT ![call[c].account] = Gone]
  /\ Return(c)
  /\ UNCHANGED <<keyring, cleanup, issued, startup, crashes, history>>

DeleteRow(c) ==
  LET a == call[c].account IN
  /\ a \in Existing
  /\ IF accounts[a].default /\ Siblings(a) # {}
       THEN \E b \in Siblings(a) :
              accounts' = [accounts EXCEPT ![a] = Gone, ![b].default = TRUE]
       ELSE accounts' = [accounts EXCEPT ![a] = Gone]
  /\ Return(c)
  /\ UNCHANGED <<keyring, cleanup, issued, startup, crashes, history>>

\* The row stays, and the secret is put back, which may fail as well.
\* Mutant: it is not put back.
Restore_Nothing(c) ==
  /\ Return(c)
  /\ UNCHANGED <<store, startup, crashes, history>>

Restore(c) ==
  /\ \/ keyring' = keyring \cup {call[c].old} /\ UNCHANGED lost
     \/ lost' = lost \cup {call[c].old} /\ UNCHANGED keyring
  /\ Return(c)
  /\ UNCHANGED <<accounts, cleanup, issued, startup, crashes, contended>>

Delete(c) == At(c, "unkeyed") /\ (DeleteRow(c) \/ Restore(c))

\* set_default_account, one transaction.
SetDefault(a) ==
  /\ startup = {}
  /\ a \in Existing /\ ~accounts[a].default
  /\ accounts' = [b \in Accounts |->
       IF b \in Existing THEN [accounts[b] EXCEPT !.default = (b = a)] ELSE accounts[b]]
  /\ UNCHANGED <<keyring, cleanup, issued, call, startup, crashes, history>>

-----------------------------------------------------------------------------
\* The references a call answers for.
Held(c) ==
  CASE call[c].at \in {"connecting", "rotating"} -> {call[c].new}
    [] call[c].at \in {"retiring", "unkeyed"} -> {call[c].old}
    [] OTHER -> {}

\* The process dies, and the next start lists what is to be cleaned up.
Crash ==
  /\ crashes < MaxCrashes
  /\ crashes' = crashes + 1
  /\ lost' = lost \cup UNION {Held(c) : c \in Calls}
  /\ call' = [c \in Calls |-> Idle]
  /\ startup' = cleanup
  /\ UNCHANGED <<store, contended>>

\* retry_secret_cleanup, record by record; an error of the database ends the
\* start, and the next one lists anew.
Sweep(ref) ==
  /\ ref \in startup
  /\ \/ ref \in Referenced /\ startup' = startup \ {ref} /\ UNCHANGED <<keyring, cleanup>>
     \/ /\ ref \notin Referenced
        /\ \/ keyring' = keyring \ {ref} /\ cleanup' = cleanup \ {ref}
              /\ startup' = startup \ {ref}
           \/ keyring' = keyring \ {ref} /\ startup' = cleanup /\ UNCHANGED cleanup
           \/ startup' = startup \ {ref} /\ UNCHANGED <<keyring, cleanup>>
  /\ UNCHANGED <<accounts, issued, call, crashes, history>>

Next ==
  \/ \E c \in Calls, a \in Accounts :
       BeginConnect(c, a) \/ BeginRotate(c, a) \/ BeginValidate(c, a) \/ BeginDelete(c, a)
  \/ \E c \in Calls :
       Connect(c) \/ Rotate(c) \/ Retire(c) \/ Validate(c) \/ DeleteSecret(c) \/ Delete(c)
  \/ \E a \in Accounts : SetDefault(a)
  \/ \E ref \in Refs : Sweep(ref)
  \/ Crash

Spec == Init /\ [][Next]_vars

-----------------------------------------------------------------------------
\* As long as there are accounts exactly one is the default, through
\* connecting, deleting and choosing another one at the same time.
OneDefault ==
  Existing # {} => Cardinality({a \in Existing : accounts[a].default}) = 1

\* An account that calls have been on one after the other has its secret,
\* whatever failed in them, except while it is being deleted; only a crash or
\* a second failure in a deletion may cost it.
AccountsKeepSecrets ==
  \A a \in Existing \ contended :
    accounts[a].secret \in keyring \cup lost \cup
      {call[c].old : c \in {d \in Calls : At(d, "unkeyed")}}

\* No secret is forgotten in the key ring: it is that of an account, or on the
\* list of those to be deleted, or in the hands of a call; except after a
\* crash, a second failure, or two calls on one account.
SecretsAreAccounted ==
  \A ref \in keyring \ lost :
    \/ ref[1] \in contended
    \/ ref \in Referenced \cup cleanup
    \/ \E c \in Calls : ref \in Held(c)

\* docs/superpowers/specs/2026-07-19-provider-account-repository-discovery-
\* design.md:236: when a rotation is committed the old reference is deleted.
\* An account never goes back to a reference that has left the key ring: with
\* no call deleting it, it never takes up one that has no secret.
OldReferencesAreRetired ==
  [][\A a \in Existing : a \in Existing' /\ accounts'[a].secret # accounts[a].secret
       => accounts'[a].secret \in keyring \cup lost
          \/ \E c \in On(a) : call[c].at \in {"deleting", "unkeyed"}]_vars
=============================================================================
