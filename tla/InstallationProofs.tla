------------------------- MODULE InstallationProofs -------------------------
(***************************************************************************)
(* What an installation keeps from one start to the next: the accounts of  *)
(* its providers with their secrets, and the permissions and themes of its *)
(* plugins.                                                                *)
(*                                                                         *)
(* There is one default account, accounts keep their secrets, and no       *)
(* secret is forgotten, for every number of accounts, calls, tokens and    *)
(* crashes (ProviderAccounts). Nothing in the code keeps two calls on one  *)
(* account apart, so that what a call has read is only known to be true    *)
(* still as long as it is the only one there. The invariant says of such a *)
(* call how its step, its row and the key ring fit together.               *)
(*                                                                         *)
(* Permissions are those of the first installation, and the themes shown   *)
(* are those loaded, for every number of plugins, packages and releases,   *)
(* wherever starts are cut off (Startup).                                  *)
(***************************************************************************)
EXTENDS ProviderAccounts, Startup, FiniteSetTheorems, TLAPS

Row   == [secret : Refs, default : BOOLEAN]
Steps == {"connecting", "rotating", "retiring", "validating", "deleting", "unkeyed"}
Request == [at : Steps, account : Accounts, old : Refs, new : Refs]

\* A reference that was made for the account.
MadeFor(a) == {ref \in Refs : ref[1] = a /\ ref[2] <= issued[a]}

AccTypes ==
  /\ accounts \in [Accounts -> {NoRow, Gone} \cup Row]
  /\ issued \in [Accounts -> Nat]
  /\ call \in [Calls -> {Idle} \cup Request]
  /\ \A ref \in keyring : ref \in MadeFor(ref[1])
  /\ startup # {} => \A c \in Calls : call[c] = Idle

\* One of the accounts, if there are any, is the default.
DefaultInv ==
  Existing # {} => \E d \in Existing : \A b \in Existing : accounts[b].default <=> b = d

\* What belongs to an account was made for it.
OwnSecrets(a) ==
  /\ a \in Existing => accounts[a].secret \in MadeFor(a)
  /\ \A c \in On(a) : call[c].old \in MadeFor(a) /\ call[c].new \in MadeFor(a)

\* An account is connected by one call, before there is anything to be called on.
Connects(a) == \A c \in On(a) : At(c, "connecting") => accounts[a] = NoRow /\ On(a) = {c}

\* A call that is alone on its account knows what is in the row.
Knows(c, a) ==
  /\ a \in Existing
  /\ At(c, "rotating") => accounts[a].secret = call[c].old /\ call[c].new # call[c].old
  /\ At(c, "retiring") => accounts[a].secret = call[c].new /\ call[c].new # call[c].old
  /\ At(c, "validating") => accounts[a].secret = call[c].old
  /\ At(c, "unkeyed") => accounts[a].secret = call[c].old /\ call[c].old \notin keyring

Deposited(c) == At(c, "connecting") \/ At(c, "rotating") => call[c].new \in keyring

Alone(a) ==
  \A c \in On(a) :
    /\ On(a) = {c}
    /\ Deposited(c)
    /\ At(c, "connecting") \/ Knows(c, a)

\* AccountsKeepSecrets and SecretsAreAccounted, of one account.
Keeps(a) ==
  a \in Existing =>
    \/ accounts[a].secret \in keyring \cup lost
    \/ \E c \in On(a) : At(c, "unkeyed") /\ call[c].old = accounts[a].secret

Accounted(a) ==
  \A ref \in keyring \ lost : ref[1] = a =>
    \/ a \in Existing /\ ref = accounts[a].secret
    \/ ref \in cleanup
    \/ \E c \in On(a) : ref \in Held(c)

AccountOK(a) ==
  /\ OwnSecrets(a) /\ Connects(a)
  /\ a \notin contended => Alone(a) /\ Keeps(a) /\ Accounted(a)

AccInv == AccTypes /\ DefaultInv /\ \A a \in Accounts : AccountOK(a)

-----------------------------------------------------------------------------
\* A row is neither of the two values that stand for its absence, and a
\* request is not that of an idle call.
LEMMA Shapes ==
  /\ \A r \in Row : r # NoRow /\ r # Gone
  /\ \A k \in Request : k # Idle /\ k.at # "idle"
  /\ NoRow # Gone /\ Idle.at = "idle"
<1>1. ASSUME NEW r \in Row
      PROVE  r # NoRow /\ r # Gone
  <2>1. "default" \in DOMAIN r
    BY DEF Row
  <2>2. "default" \notin DOMAIN NoRow /\ "default" \notin DOMAIN Gone
    BY DEF NoRow, Gone
  <2> QED
    BY <2>1, <2>2
<1>2. ASSUME NEW k \in Request
      PROVE  k # Idle /\ k.at # "idle"
  BY DEF Request, Steps, Idle
<1>3. NoRow.secret # Gone.secret /\ Idle.at = "idle"
  BY DEF NoRow, Gone, Idle
<1> QED
  BY <1>1, <1>2, <1>3

\* What an account and a call are, by their types.
LEMMA Typed ==
  ASSUME AccTypes
  PROVE  /\ \A a \in Accounts : a \in Existing <=> accounts[a] \in Row
         /\ \A c \in Calls : call[c] # Idle <=> call[c] \in Request
         /\ \A c \in Calls : call[c] # Idle <=> call[c].at # "idle"
         /\ \A a \in Accounts : \A c \in On(a) :
              c \in Calls /\ call[c] \in Request /\ call[c].account = a
<1>1. \A a \in Accounts : accounts[a] \in {NoRow, Gone} \cup Row
  BY DEF AccTypes
<1>2. \A a \in Accounts : a \in Existing <=> accounts[a] \notin {NoRow, Gone}
  BY DEF Existing
<1>3. \A c \in Calls : call[c] \in {Idle} \cup Request
  BY DEF AccTypes
<1>4. \A a \in Accounts : a \in Existing <=> accounts[a] \in Row
  BY <1>1, <1>2, Shapes
<1>5. \A c \in Calls : call[c] # Idle <=> call[c] \in Request
  BY <1>3, Shapes
<1>6. \A c \in Calls : call[c] # Idle <=> call[c].at # "idle"
  BY <1>3, Shapes
<1> QED
  BY <1>4, <1>5, <1>6 DEF On

\* The invariant has the properties the runs check.
LEMMA AccInvImplies ==
  ASSUME AccInv
  PROVE  OneDefault /\ AccountsKeepSecrets /\ SecretsAreAccounted
<1>1. OneDefault
  <2> SUFFICES ASSUME Existing # {}
               PROVE  Cardinality({a \in Existing : accounts[a].default}) = 1
    BY DEF OneDefault
  <2>1. PICK d \in Existing : \A b \in Existing : accounts[b].default <=> b = d
    BY DEF AccInv, DefaultInv
  <2>2. {a \in Existing : accounts[a].default} = {d}
    BY <2>1
  <2> QED
    BY <2>2, FS_Singleton
<1>2. AccountsKeepSecrets
  <2> SUFFICES ASSUME NEW a \in Existing, a \notin contended
               PROVE  accounts[a].secret \in keyring \cup lost \cup
                        {call[c].old : c \in {d \in Calls : At(d, "unkeyed")}}
    BY DEF AccountsKeepSecrets
  <2>1. Keeps(a)
    BY DEF AccInv, AccountOK, Existing
  <2> QED
    BY <2>1 DEF Keeps, On
<1>3. SecretsAreAccounted
  <2> SUFFICES ASSUME NEW ref \in keyring \ lost, ref[1] \notin contended
               PROVE  ref \in Referenced \cup cleanup \/ \E c \in Calls : ref \in Held(c)
    BY DEF SecretsAreAccounted
  <2>1. ref[1] \in Accounts
    BY DEF AccInv, AccTypes, MadeFor, Refs
  <2>2. Accounted(ref[1])
    BY <2>1 DEF AccInv, AccountOK
  <2> QED
    BY <2>2 DEF Accounted, Referenced, On
<1> QED
  BY <1>1, <1>2, <1>3
-----------------------------------------------------------------------------
\* What a step of call c on account a leaves alone: the other calls, and of
\* the other accounts all but which one is the default.
Frame(c, a) ==
  /\ \A d \in Calls \ {c} : call'[d] = call[d]
  /\ call[c] = Idle \/ call[c].account = a
  /\ call'[c] = Idle \/ call'[c].account = a
  /\ \A b \in Accounts \ {a} :
       /\ b \in Existing' <=> b \in Existing
       /\ accounts'[b].secret = accounts[b].secret
       /\ issued'[b] = issued[b]
       /\ b \in contended' <=> b \in contended
       /\ \A ref \in MadeFor(b) : /\ ref \in keyring' <=> ref \in keyring
                                  /\ ref \in cleanup' <=> ref \in cleanup
                                  /\ ref \in lost' <=> ref \in lost
       /\ accounts[b] = NoRow => accounts'[b] = NoRow

\* So nothing changes for the other accounts.
LEMMA OtherAccounts ==
  ASSUME AccTypes, AccTypes', NEW c \in Calls, NEW a \in Accounts, Frame(c, a),
         NEW b \in Accounts, b # a, AccountOK(b)
  PROVE  AccountOK(b)'
<1>1. On(b)' = On(b) /\ \A d \in On(b) : call'[d] = call[d]
  BY DEF Frame, On
<1>2. MadeFor(b)' = MadeFor(b)
  BY DEF Frame, MadeFor
<1>3. /\ b \in Existing' <=> b \in Existing
      /\ accounts'[b].secret = accounts[b].secret
      /\ b \in contended' <=> b \in contended
      /\ accounts[b] = NoRow => accounts'[b] = NoRow
      /\ \A ref \in MadeFor(b) : /\ ref \in keyring' <=> ref \in keyring
                                 /\ ref \in cleanup' <=> ref \in cleanup
                                 /\ ref \in lost' <=> ref \in lost
  BY DEF Frame
<1>4. OwnSecrets(b)' /\ Connects(b)'
  BY <1>1, <1>2, <1>3 DEF AccountOK, OwnSecrets, Connects, At
<1>5. ASSUME b \notin contended'
      PROVE  Alone(b)' /\ Keeps(b)' /\ Accounted(b)'
  <2>1. Alone(b) /\ Keeps(b) /\ Accounted(b) /\ OwnSecrets(b)
    BY <1>3, <1>5 DEF AccountOK
  <2>2. Alone(b)'
    BY <1>1, <1>3, <2>1 DEF Alone, Deposited, Knows, At, OwnSecrets
  <2>3. Keeps(b)'
    BY <1>1, <1>3, <2>1 DEF Keeps, At, OwnSecrets
  <2>4. Accounted(b)'
    <3> SUFFICES ASSUME NEW ref \in keyring' \ lost', ref[1] = b
                 PROVE  \/ b \in Existing' /\ ref = accounts'[b].secret
                        \/ ref \in cleanup'
                        \/ \E d \in On(b)' : ref \in Held(d)'
      BY DEF Accounted
    <3>1. ref \in MadeFor(b)
      BY <1>2 DEF AccTypes
    <3>2. ref \in keyring \ lost
      BY <1>3, <3>1
    <3>3. \A d \in On(b) : Held(d)' = Held(d)
      BY <1>1 DEF Held
    <3> QED
      BY <1>1, <1>3, <2>1, <3>1, <3>2, <3>3 DEF Accounted
  <2> QED
    BY <2>2, <2>3, <2>4
<1> QED
  BY <1>4, <1>5 DEF AccountOK

\* A step of one call, all accounts considered.
LEMMA AllAccounts ==
  ASSUME AccInv, AccTypes', NEW c \in Calls, NEW a \in Accounts, Frame(c, a), AccountOK(a)'
  PROVE  \A b \in Accounts : AccountOK(b)'
BY OtherAccounts DEF AccInv

\* What is known of a call under way.
LEMMA UnderWay ==
  ASSUME AccInv, NEW c \in Calls, call[c].at # "idle"
  PROVE  /\ call[c].account \in Accounts /\ c \in On(call[c].account) /\ call[c] \in Request
         /\ call[c].old \in MadeFor(call[c].account)
         /\ call[c].new \in MadeFor(call[c].account)
         /\ AccountOK(call[c].account)
         /\ startup = {}
<1>1. call[c] # Idle /\ call[c] \in Request
  BY Typed DEF AccInv
<1>2. call[c].account \in Accounts /\ c \in On(call[c].account)
  BY <1>1 DEF Request, On
<1>3. AccountOK(call[c].account)
  BY <1>2 DEF AccInv
<1>4. startup = {}
  BY <1>1 DEF AccInv, AccTypes
<1> QED
  BY <1>1, <1>2, <1>3, <1>4 DEF AccountOK, OwnSecrets

\* A call that returns is on no account any more.
LEMMA Returning ==
  ASSUME AccTypes, NEW c \in Calls, NEW a \in Accounts, c \in On(a), Return(c)
  PROVE  /\ call' \in [Calls -> {Idle} \cup Request] /\ call'[c] = Idle
         /\ \A d \in Calls \ {c} : call'[d] = call[d]
         /\ On(a)' = On(a) \ {c}
<1>1. call' = [call EXCEPT ![c] = Idle] /\ call \in [Calls -> {Idle} \cup Request]
  BY DEF Return, AccTypes
<1>2. call' \in [Calls -> {Idle} \cup Request] /\ call'[c] = Idle
  BY <1>1
<1>3. \A d \in Calls \ {c} : call'[d] = call[d]
  BY <1>1
<1> QED
  BY <1>2, <1>3 DEF On
-----------------------------------------------------------------------------
\* A new secret: its reference was not made before.
LEMMA Depositing ==
  ASSUME AccTypes, NEW a \in Accounts, Deposit(a)
  PROVE  /\ issued' \in [Accounts -> Nat]
         /\ \A b \in Accounts \ {a} : issued'[b] = issued[b]
         /\ keyring' = keyring \cup {NewRef(a)} /\ accounts' = accounts /\ cleanup' = cleanup
         /\ NewRef(a) \in MadeFor(a)' /\ NewRef(a) \notin MadeFor(a)
         /\ NewRef(a) \in Refs /\ NewRef(a)[1] = a
         /\ MadeFor(a) \subseteq MadeFor(a)'
<1>1. issued[a] \in Nat /\ issued[a] < MaxSecrets
  BY DEF AccTypes, Deposit
<1>2. issued' = [issued EXCEPT ![a] = @ + 1] /\ issued \in [Accounts -> Nat]
  BY DEF AccTypes, Deposit
<1>3. issued' \in [Accounts -> Nat] /\ issued'[a] = issued[a] + 1
  BY <1>1, <1>2
<1>4. NewRef(a) \in Refs /\ NewRef(a)[1] = a /\ NewRef(a)[2] = issued[a] + 1
  BY <1>1, AccountsAssumption DEF NewRef, Refs, AccountsAssumption
<1>5. NewRef(a) \in MadeFor(a)' /\ NewRef(a) \notin MadeFor(a)
  BY <1>1, <1>3, <1>4 DEF MadeFor
<1>6. MadeFor(a) \subseteq MadeFor(a)'
  BY <1>1, <1>3 DEF MadeFor, Refs
<1> QED
  BY <1>2, <1>3, <1>4, <1>5, <1>6 DEF Deposit

\* A call enters on an account.
LEMMA Entering ==
  ASSUME AccTypes, NEW c \in Calls, NEW a \in Accounts, NEW step \in Steps,
         NEW old \in Refs, NEW new \in Refs, Enter(c, step, a, old, new)
  PROVE  /\ call' \in [Calls -> {Idle} \cup Request]
         /\ call'[c] = [at |-> step, account |-> a, old |-> old, new |-> new]
         /\ call'[c] # Idle /\ call[c] = Idle
         /\ \A d \in Calls \ {c} : call'[d] = call[d]
         /\ On(a)' = On(a) \cup {c}
         /\ \A b \in Accounts \ {a} : b \in contended' <=> b \in contended
         /\ a \in contended => a \in contended'
         /\ a \notin contended' => On(a) = {}
         /\ lost' = lost /\ startup = {} /\ startup' = {}
<1> DEFINE k == [at |-> step, account |-> a, old |-> old, new |-> new]
<1>1. call' = [call EXCEPT ![c] = k] /\ call \in [Calls -> {Idle} \cup Request]
  BY DEF Enter, AccTypes
<1>2. k \in Request
  BY DEF Request
<1>3. call'[c] = k /\ k # Idle /\ call' \in [Calls -> {Idle} \cup Request]
  BY <1>1, <1>2, Shapes
<1>4. \A d \in Calls \ {c} : call'[d] = call[d]
  BY <1>1
<1>5. call[c] = Idle
  BY Typed DEF Enter, At
<1>6. On(a)' = On(a) \cup {c}
  BY <1>3, <1>4 DEF On
<1> QED
  BY <1>3, <1>4, <1>5, <1>6 DEF Enter

\* A call that enters with a new secret, or without one, leaves types and the
\* other accounts alone.
LEMMA EnteringFrame ==
  ASSUME AccTypes, NEW c \in Calls, NEW a \in Accounts, NEW step \in Steps,
         NEW old \in Refs, NEW new \in Refs, Enter(c, step, a, old, new),
         Deposit(a) \/ UNCHANGED store
  PROVE  AccTypes' /\ Frame(c, a)
<1>1. /\ call' \in [Calls -> {Idle} \cup Request]
      /\ call'[c] = [at |-> step, account |-> a, old |-> old, new |-> new]
      /\ call[c] = Idle /\ \A d \in Calls \ {c} : call'[d] = call[d]
      /\ \A b \in Accounts \ {a} : b \in contended' <=> b \in contended
      /\ lost' = lost /\ startup' = {}
  BY Entering
<1>2. /\ issued' \in [Accounts -> Nat] /\ accounts' = accounts /\ cleanup' = cleanup
      /\ \A b \in Accounts \ {a} : issued'[b] = issued[b]
      /\ MadeFor(a) \subseteq MadeFor(a)'
      /\ \A ref \in keyring' : ref \notin keyring => ref[1] = a /\ ref \in MadeFor(a)'
      /\ keyring \subseteq keyring'
  <2>1. CASE Deposit(a)
    <3>1. /\ issued' \in [Accounts -> Nat] /\ accounts' = accounts /\ cleanup' = cleanup
          /\ \A b \in Accounts \ {a} : issued'[b] = issued[b]
          /\ MadeFor(a) \subseteq MadeFor(a)' /\ keyring' = keyring \cup {NewRef(a)}
          /\ NewRef(a) \in MadeFor(a)' /\ NewRef(a)[1] = a
      BY <2>1, Depositing
    <3> QED
      BY <3>1
  <2>2. CASE UNCHANGED store
    BY <2>2 DEF store, AccTypes, MadeFor
  <2> QED
    BY <2>1, <2>2
<1>3. \A ref \in keyring' : ref \in MadeFor(ref[1])'
  <2> SUFFICES ASSUME NEW ref \in keyring', ref \in keyring
               PROVE  ref \in MadeFor(ref[1])'
    BY <1>2
  <2>1. ref \in MadeFor(ref[1]) /\ ref[1] \in Accounts
    BY DEF AccTypes, MadeFor, Refs
  <2>2. CASE ref[1] = a
    BY <1>2, <2>1, <2>2
  <2>3. CASE ref[1] # a
    BY <1>2, <2>1, <2>3 DEF MadeFor
  <2> QED
    BY <2>2, <2>3
<1>4. AccTypes'
  BY <1>1, <1>2, <1>3 DEF AccTypes
<1>5. \A b \in Accounts \ {a} : \A ref \in MadeFor(b) : ref \in keyring' <=> ref \in keyring
  BY <1>2 DEF MadeFor
<1> QED
  BY <1>1, <1>2, <1>4, <1>5 DEF Frame, Existing

\* connect_account, up to its first await.
LEMMA BeginConnectOK ==
  ASSUME AccInv, NEW c \in Calls, NEW a \in Accounts, BeginConnect(c, a)
  PROVE  AccTypes' /\ Frame(c, a) /\ AccountOK(a)'
<1> DEFINE ref == NewRef(a)
<1>0. AccTypes /\ On(a) = {} /\ accounts[a] = NoRow /\ "connecting" \in Steps
  BY DEF AccInv, BeginConnect, Steps
<1>1. Deposit(a) /\ Enter(c, "connecting", a, ref, ref)
  BY DEF BeginConnect
<1>2. /\ keyring' = keyring \cup {ref} /\ accounts' = accounts /\ cleanup' = cleanup
      /\ ref \in MadeFor(a)' /\ ref \in Refs
  BY <1>0, <1>1, Depositing
<1> HIDE DEF ref
<1>3. /\ call'[c] = [at |-> "connecting", account |-> a, old |-> ref, new |-> ref]
      /\ On(a)' = On(a) \cup {c}
      /\ a \in contended => a \in contended'
      /\ lost' = lost
  BY <1>0, <1>1, <1>2, Entering
<1>4. AccTypes' /\ Frame(c, a)
  BY <1>0, <1>1, <1>2, EnteringFrame
<1>5. On(a)' = {c} /\ a \notin Existing'
  BY <1>0, <1>2, <1>3 DEF Existing
<1>6. OwnSecrets(a)' /\ Connects(a)' /\ Alone(a)' /\ Keeps(a)'
  BY <1>0, <1>2, <1>3, <1>5 DEF OwnSecrets, Connects, Alone, Deposited, Keeps, At
<1>7. ASSUME a \notin contended
      PROVE  Accounted(a)'
  <2>1. Accounted(a)
    BY <1>7 DEF AccInv, AccountOK
  <2>2. Held(c)' = {ref}
    BY <1>3 DEF Held
  <2> SUFFICES ASSUME NEW r \in keyring' \ lost', r[1] = a
               PROVE  r \in cleanup' \/ \E d \in On(a)' : r \in Held(d)'
    BY DEF Accounted
  <2>3. r # ref => r \in cleanup
    BY <1>0, <1>2, <1>3, <1>5, <2>1 DEF Accounted, Existing
  <2> QED
    BY <1>2, <1>5, <2>2, <2>3
<1> QED
  BY <1>3, <1>4, <1>6, <1>7 DEF AccountOK

\* rotate_account, up to its first await.
LEMMA BeginRotateOK ==
  ASSUME AccInv, NEW c \in Calls, NEW a \in Accounts, BeginRotate(c, a)
  PROVE  AccTypes' /\ Frame(c, a) /\ AccountOK(a)'
<1> DEFINE ref == NewRef(a)
           old == accounts[a].secret
<1>0. /\ AccTypes /\ AccountOK(a) /\ a \in Existing /\ "rotating" \in Steps
      /\ old \in MadeFor(a) /\ old \in Refs
  BY DEF AccInv, BeginRotate, Steps, AccountOK, OwnSecrets, MadeFor
<1>1. Deposit(a) /\ Enter(c, "rotating", a, old, ref)
  BY DEF BeginRotate
<1>2. /\ keyring' = keyring \cup {ref} /\ accounts' = accounts /\ cleanup' = cleanup
      /\ ref \in MadeFor(a)' /\ ref \in Refs /\ ref \notin MadeFor(a)
      /\ MadeFor(a) \subseteq MadeFor(a)'
  BY <1>0, <1>1, Depositing
<1> HIDE DEF ref, old
<1>3. /\ call'[c] = [at |-> "rotating", account |-> a, old |-> old, new |-> ref]
      /\ On(a)' = On(a) \cup {c}
      /\ \A d \in Calls \ {c} : call'[d] = call[d]
      /\ a \in contended => a \in contended'
      /\ a \notin contended' => On(a) = {}
      /\ lost' = lost
  BY <1>0, <1>1, <1>2, Entering
<1>4. AccTypes' /\ Frame(c, a)
  BY <1>0, <1>1, <1>2, EnteringFrame
<1>5. a \in Existing' /\ accounts'[a].secret = old
  BY <1>0, <1>2 DEF Existing, old
<1>6. accounts[a] # NoRow
  BY <1>0 DEF Existing
<1>7. OwnSecrets(a)' /\ Connects(a)'
  BY <1>0, <1>2, <1>3, <1>5, <1>6 DEF AccountOK, OwnSecrets, Connects, At, On
<1>8. ASSUME a \notin contended'
      PROVE  Alone(a)' /\ Keeps(a)' /\ Accounted(a)'
  <2>1. Keeps(a) /\ Accounted(a) /\ On(a) = {} /\ On(a)' = {c}
    BY <1>0, <1>3, <1>8 DEF AccountOK
  <2>2. Alone(a)'
    BY <1>0, <1>2, <1>3, <1>5, <2>1 DEF Alone, Deposited, Knows, At
  <2>3. Keeps(a)'
    BY <1>0, <1>2, <1>3, <1>5, <2>1 DEF Keeps, old
  <2>4. Held(c)' = {ref}
    BY <1>3 DEF Held
  <2>5. ASSUME NEW r \in keyring' \ lost', r[1] = a
        PROVE  r = old \/ r \in cleanup' \/ r \in Held(c)'
    BY <1>0, <1>2, <1>3, <2>1, <2>4, <2>5 DEF Accounted, old
  <2> QED
    BY <1>5, <2>1, <2>2, <2>3, <2>5 DEF Accounted
<1> QED
  BY <1>4, <1>7, <1>8 DEF AccountOK

\* validate_account and delete_account, up to their first await.
LEMMA BeginOK ==
  ASSUME AccInv, NEW c \in Calls, NEW a \in Accounts, BeginValidate(c, a) \/ BeginDelete(c, a)
  PROVE  AccTypes' /\ Frame(c, a) /\ AccountOK(a)'
<1> DEFINE old == accounts[a].secret
<1>0. /\ AccTypes /\ AccountOK(a) /\ a \in Existing
      /\ old \in MadeFor(a) /\ old \in Refs
  BY DEF AccInv, BeginValidate, BeginDelete, AccountOK, OwnSecrets, MadeFor
<1>1. PICK step \in {"validating", "deleting"} : Enter(c, step, a, old, old) /\ UNCHANGED store
  BY DEF BeginValidate, BeginDelete
<1>2. step \in Steps /\ step \notin {"connecting", "rotating", "retiring", "unkeyed"}
  BY DEF Steps
<1>3. /\ call'[c] = [at |-> step, account |-> a, old |-> old, new |-> old]
      /\ On(a)' = On(a) \cup {c}
      /\ \A d \in Calls \ {c} : call'[d] = call[d]
      /\ a \in contended => a \in contended'
      /\ a \notin contended' => On(a) = {}
      /\ lost' = lost
  BY <1>0, <1>1, <1>2, Entering
<1>4. AccTypes' /\ Frame(c, a)
  BY <1>0, <1>1, <1>2, EnteringFrame
<1>5. /\ a \in Existing' /\ accounts'[a].secret = old /\ accounts[a] # NoRow
      /\ keyring' = keyring /\ cleanup' = cleanup /\ MadeFor(a)' = MadeFor(a)
  BY <1>0, <1>1 DEF Existing, store, MadeFor
<1> HIDE DEF old
<1>6. OwnSecrets(a)' /\ Connects(a)'
  BY <1>0, <1>2, <1>3, <1>5 DEF AccountOK, OwnSecrets, Connects, At, On
<1>7. ASSUME a \notin contended'
      PROVE  Alone(a)' /\ Keeps(a)' /\ Accounted(a)'
  <2>1. Keeps(a) /\ Accounted(a) /\ On(a) = {} /\ On(a)' = {c}
    BY <1>0, <1>3, <1>7 DEF AccountOK
  <2>2. Alone(a)'
    BY <1>2, <1>3, <1>5, <2>1 DEF Alone, Deposited, Knows, At
  <2>3. Keeps(a)' /\ Accounted(a)'
    BY <1>0, <1>3, <1>5, <2>1 DEF Keeps, Accounted, old
  <2> QED
    BY <2>2, <2>3
<1> QED
  BY <1>4, <1>6, <1>7 DEF AccountOK
-----------------------------------------------------------------------------
\* How a step of a call on account a changes the rest: rows and secrets of
\* the others stay.
Within(a) ==
  /\ accounts' \in [Accounts -> {NoRow, Gone} \cup Row]
  /\ \A b \in Accounts \ {a} : /\ b \in Existing' <=> b \in Existing
                               /\ accounts'[b].secret = accounts[b].secret
                               /\ accounts[b] = NoRow => accounts'[b] = NoRow
  /\ a \in Existing' => accounts'[a].secret \in MadeFor(a)
  /\ keyring' \subseteq keyring \cup MadeFor(a)
  /\ \A ref : ref \notin MadeFor(a) => /\ ref \in keyring' <=> ref \in keyring
                                       /\ ref \in cleanup' <=> ref \in cleanup
                                       /\ ref \in lost' <=> ref \in lost
  /\ issued' = issued /\ startup' = startup /\ contended' = contended

LEMMA WithinFrame ==
  ASSUME AccTypes, NEW c \in Calls, NEW a \in Accounts, c \in On(a), Within(a),
         call' \in [Calls -> {Idle} \cup Request],
         call'[c] = Idle \/ call'[c].account = a,
         \A d \in Calls \ {c} : call'[d] = call[d]
  PROVE  AccTypes' /\ Frame(c, a) /\ \A b \in Accounts : MadeFor(b)' = MadeFor(b)
<1>1. \A b \in Accounts : MadeFor(b)' = MadeFor(b)
  BY DEF MadeFor, Within
<1>2. \A ref \in keyring' : ref \in MadeFor(ref[1])'
  <2> SUFFICES ASSUME NEW ref \in keyring'
               PROVE  ref \in MadeFor(ref[1])'
    OBVIOUS
  <2>1. CASE ref \in keyring
    BY <1>1, <2>1 DEF AccTypes, MadeFor, Refs
  <2>2. CASE ref \in MadeFor(a)
    BY <1>1, <2>2 DEF MadeFor
  <2> QED
    BY <2>1, <2>2 DEF Within
<1>3. startup' = {}
  BY DEF Within, AccTypes, On
<1>4. AccTypes'
  BY <1>2, <1>3 DEF AccTypes, Within
<1>5. \A b \in Accounts \ {a} : \A ref \in MadeFor(b) : ref \notin MadeFor(a)
  BY DEF MadeFor
<1>6. Frame(c, a)
  BY <1>5 DEF Frame, Within, On
<1> QED
  BY <1>1, <1>4, <1>6

\* A call returns.  What it was the last to know has to be so of the account.
LEMMA EndingOK ==
  ASSUME AccInv, NEW c \in Calls, NEW a \in Accounts, c \in On(a), Return(c), Within(a),
         ASSUME a \notin contended, On(a) = {c}
         PROVE  /\ a \in Existing' => accounts'[a].secret \in keyring' \cup lost'
                /\ \A ref \in keyring' \ lost' : ref[1] = a =>
                     (a \in Existing' /\ ref = accounts'[a].secret) \/ ref \in cleanup'
  PROVE  AccTypes' /\ Frame(c, a) /\ AccountOK(a)'
<1>0. AccTypes /\ AccountOK(a)
  BY DEF AccInv
<1>1. /\ call' \in [Calls -> {Idle} \cup Request] /\ call'[c] = Idle
      /\ \A d \in Calls \ {c} : call'[d] = call[d]
      /\ On(a)' = On(a) \ {c}
  BY <1>0, Returning
<1>2. AccTypes' /\ Frame(c, a) /\ \A b \in Accounts : MadeFor(b)' = MadeFor(b)
  BY <1>0, <1>1, WithinFrame
<1>3. \A d \in On(a)' : d \in On(a) /\ d # c /\ call'[d] = call[d]
  BY <1>1 DEF On
<1>4. OwnSecrets(a)'
  BY <1>0, <1>2, <1>3 DEF OwnSecrets, AccountOK, Within
<1>5. Connects(a)'
  BY <1>0, <1>3 DEF Connects, AccountOK, At
<1>6. ASSUME a \notin contended'
      PROVE  Alone(a)' /\ Keeps(a)' /\ Accounted(a)'
  <2>1. a \notin contended
    BY <1>6 DEF Within
  <2>2. On(a) = {c}
    BY <1>0, <2>1 DEF AccountOK, Alone
  <2>3. On(a)' = {}
    BY <1>1, <2>2
  <2> QED
    BY <2>1, <2>2, <2>3 DEF Alone, Keeps, Accounted
<1> QED
  BY <1>2, <1>4, <1>5, <1>6 DEF AccountOK

\* What becomes of a secret that is to go.
LEMMA Discarding ==
  ASSUME NEW ref, Discard(ref)
  PROVE  /\ keyring' \subseteq keyring /\ cleanup \subseteq cleanup' /\ lost \subseteq lost'
         /\ ref \in keyring' => ref \in cleanup' \cup lost'
         /\ \A r : r # ref => /\ r \in keyring' <=> r \in keyring
                              /\ r \in cleanup' <=> r \in cleanup
                              /\ r \in lost' <=> r \in lost
BY DEF Discard

\* compensate_new_secret, and the end of rotate_account: the secret that goes
\* is not that of the account.
LEMMA DiscardOK ==
  ASSUME AccInv, NEW c \in Calls, NEW a \in Accounts, c \in On(a), NEW ref \in MadeFor(a),
         Discard(ref), Return(c), UNCHANGED <<accounts, issued, startup, contended>>,
         a \notin contended => Held(c) = {ref} /\ (a \in Existing => accounts[a].secret # ref)
  PROVE  AccTypes' /\ Frame(c, a) /\ AccountOK(a)'
<1>0. AccTypes /\ AccountOK(a)
  BY DEF AccInv
<1>1. /\ keyring' \subseteq keyring /\ cleanup \subseteq cleanup' /\ lost \subseteq lost'
      /\ ref \in keyring' => ref \in cleanup' \cup lost'
      /\ \A r : r # ref => /\ r \in keyring' <=> r \in keyring
                           /\ r \in cleanup' <=> r \in cleanup
                           /\ r \in lost' <=> r \in lost
  BY Discarding
<1>2. Existing' = Existing
  BY DEF Existing
<1>3. Within(a)
  BY <1>0, <1>1, <1>2 DEF Within, AccTypes, AccountOK, OwnSecrets
<1>4. ASSUME a \notin contended, On(a) = {c}
      PROVE  /\ a \in Existing' => accounts'[a].secret \in keyring' \cup lost'
             /\ \A r \in keyring' \ lost' : r[1] = a =>
                  (a \in Existing' /\ r = accounts'[a].secret) \/ r \in cleanup'
  <2>1. Keeps(a) /\ Accounted(a) /\ Held(c) = {ref}
    BY <1>0, <1>4 DEF AccountOK
  <2>2. a \in Existing => accounts[a].secret # ref
    BY <1>4
  <2>3. At(c, "unkeyed") => Held(c) = {call[c].old}
    BY DEF At, Held
  <2>4. a \in Existing => accounts[a].secret \in keyring \cup lost
    BY <1>4, <2>1, <2>2, <2>3 DEF Keeps
  <2>5. a \in Existing' => accounts'[a].secret \in keyring' \cup lost'
    BY <1>1, <1>2, <2>2, <2>4
  <2>6. ASSUME NEW r \in keyring' \ lost', r[1] = a
        PROVE  (a \in Existing' /\ r = accounts'[a].secret) \/ r \in cleanup'
    BY <1>1, <1>2, <1>4, <2>1, <2>6 DEF Accounted
  <2> QED
    BY <2>5, <2>6
<1> QED
  BY <1>3, <1>4, EndingOK

\* compensate_new_secret: the new secret is not in any row.
LEMMA CompensateOK ==
  ASSUME AccInv, NEW c \in Calls, At(c, "connecting") \/ At(c, "rotating"), Compensate(c)
  PROVE  \E a \in Accounts : AccTypes' /\ Frame(c, a) /\ AccountOK(a)'
<1> DEFINE a == call[c].account
<1>1. /\ a \in Accounts /\ c \in On(a) /\ call[c].new \in MadeFor(a) /\ AccountOK(a)
  BY UnderWay DEF At
<1>2. Held(c) = {call[c].new}
  BY DEF Held, At
<1>3. ASSUME a \in Existing
      PROVE  At(c, "rotating")
  BY <1>1, <1>3 DEF AccountOK, Connects, Existing
<1>4. ASSUME a \notin contended, a \in Existing
      PROVE  accounts[a].secret # call[c].new
  <2>1. At(c, "rotating") /\ ~At(c, "connecting")
    BY <1>3, <1>4 DEF At
  <2> QED
    BY <1>1, <1>4, <2>1 DEF AccountOK, Alone, Knows
<1>5. Discard(call[c].new) /\ Return(c) /\ UNCHANGED <<accounts, issued, startup, contended>>
  BY DEF Compensate
<1> HIDE DEF a
<1> QED
  BY <1>1, <1>2, <1>4, <1>5, DiscardOK

\* The end of rotate_account: the old secret is not in the row any more.
LEMMA RetireOK ==
  ASSUME AccInv, NEW c \in Calls, Retire(c)
  PROVE  \E a \in Accounts : AccTypes' /\ Frame(c, a) /\ AccountOK(a)'
<1> DEFINE a == call[c].account
<1>1. At(c, "retiring") /\ ~At(c, "connecting")
  BY DEF Retire, At
<1>2. /\ a \in Accounts /\ c \in On(a) /\ call[c].old \in MadeFor(a) /\ AccountOK(a)
  BY <1>1, UnderWay DEF At
<1>3. Held(c) = {call[c].old}
  BY <1>1 DEF Held, At
<1>4. ASSUME a \notin contended
      PROVE  accounts[a].secret # call[c].old
  BY <1>1, <1>2, <1>4 DEF AccountOK, Alone, Knows
<1>5. Discard(call[c].old) /\ Return(c) /\ UNCHANGED <<accounts, issued, startup, contended>>
  BY DEF Retire
<1> HIDE DEF a
<1> QED
  BY <1>2, <1>3, <1>4, <1>5, DiscardOK

\* The row of a new account: its secret was deposited.
LEMMA InsertOK ==
  ASSUME AccInv, NEW c \in Calls, At(c, "connecting"), Insert(c)
  PROVE  \E a \in Accounts : AccTypes' /\ Frame(c, a) /\ AccountOK(a)'
<1> DEFINE a == call[c].account
           new == call[c].new
           r == [secret |-> new, default |-> Existing = {}]
<1>1. /\ a \in Accounts /\ c \in On(a) /\ new \in MadeFor(a) /\ AccountOK(a) /\ AccTypes
  BY UnderWay DEF At, AccInv
<1>2. /\ accounts' = [accounts EXCEPT ![a] = r] /\ accounts \in [Accounts -> {NoRow, Gone} \cup Row]
      /\ Return(c) /\ UNCHANGED <<keyring, cleanup, issued, startup, contended, lost>>
  BY <1>1 DEF Insert, AccTypes, history
<1> HIDE DEF a, new
<1>3. r \in Row /\ r.secret = new
  BY <1>1 DEF Row, MadeFor
<1> HIDE DEF r
<1>4. accounts' \in [Accounts -> {NoRow, Gone} \cup Row] /\ accounts'[a] = r
  BY <1>1, <1>2, <1>3
<1>5. \A b \in Accounts \ {a} : accounts'[b] = accounts[b]
  BY <1>2
<1>6. a \in Existing' /\ \A b \in Accounts \ {a} : b \in Existing' <=> b \in Existing
  BY <1>1, <1>3, <1>4, <1>5, Shapes DEF Existing
<1>7. Within(a)
  BY <1>1, <1>2, <1>3, <1>4, <1>5, <1>6 DEF Within
<1>8. ASSUME a \notin contended, On(a) = {c}
      PROVE  /\ accounts'[a].secret \in keyring' \cup lost'
             /\ \A ref \in keyring' \ lost' : ref[1] = a =>
                  (a \in Existing' /\ ref = accounts'[a].secret) \/ ref \in cleanup'
  <2>1. Deposited(c) /\ Accounted(a) /\ a \notin Existing
    BY <1>1, <1>8 DEF AccountOK, Alone, Connects, Existing
  <2>2. Held(c) = {new}
    BY DEF Held, At, new
  <2> QED
    BY <1>2, <1>3, <1>4, <1>6, <1>8, <2>1, <2>2 DEF Deposited, Accounted, new
<1> QED
  BY <1>1, <1>2, <1>6, <1>7, <1>8, EndingOK

\* A row that gets another secret, or the one it had.
LEMMA Rewriting ==
  ASSUME AccTypes, NEW a \in Existing, a \in Accounts, NEW ref \in MadeFor(a),
         accounts' = [accounts EXCEPT ![a].secret = ref]
  PROVE  /\ accounts' \in [Accounts -> {NoRow, Gone} \cup Row]
         /\ accounts'[a].secret = ref /\ accounts'[a].default = accounts[a].default
         /\ \A b \in Accounts \ {a} : accounts'[b] = accounts[b]
         /\ \A b \in Accounts : b \in Existing' <=> b \in Existing
<1>1. accounts \in [Accounts -> {NoRow, Gone} \cup Row] /\ accounts[a] \in Row
  BY Typed DEF AccTypes
<1>2. PICK d \in BOOLEAN : d = accounts[a].default
  BY <1>1 DEF Row
<1>3. /\ accounts'[a].secret = ref /\ accounts'[a].default = accounts[a].default
      /\ accounts'[a] \in Row
  BY <1>1, <1>2 DEF Row, MadeFor
<1>4. \A b \in Accounts \ {a} : accounts'[b] = accounts[b]
  BY <1>1
<1>5. accounts' \in [Accounts -> {NoRow, Gone} \cup Row]
  BY <1>1, <1>3, <1>4
<1>6. \A b \in Accounts : b \in Existing' <=> b \in Existing
  BY <1>3, <1>4, Shapes DEF Existing
<1> QED
  BY <1>3, <1>4, <1>5, <1>6

\* A call goes on, on its account.
LEMMA StayingOK ==
  ASSUME AccInv, NEW c \in Calls, NEW a \in Accounts, c \in On(a), Within(a),
         NEW k \in Request, call' = [call EXCEPT ![c] = k],
         k.account = a, k.old \in MadeFor(a), k.new \in MadeFor(a),
         k.at # "connecting", call[c].at # "connecting",
         ASSUME a \notin contended, On(a) = {c}, On(a)' = {c}, call'[c] = k
         PROVE  Deposited(c)' /\ Knows(c, a)' /\ Keeps(a)' /\ Accounted(a)'
  PROVE  AccTypes' /\ Frame(c, a) /\ AccountOK(a)'
<1>0. AccTypes /\ AccountOK(a) /\ call \in [Calls -> {Idle} \cup Request]
  BY DEF AccInv, AccTypes
<1>1. call'[c] = k /\ k # Idle /\ call' \in [Calls -> {Idle} \cup Request]
  BY <1>0, Shapes
<1>2. \A d \in Calls \ {c} : call'[d] = call[d]
  BY <1>0
<1>3. On(a)' = On(a)
  BY <1>1, <1>2 DEF On
<1>4. AccTypes' /\ Frame(c, a) /\ \A b \in Accounts : MadeFor(b)' = MadeFor(b)
  BY <1>0, <1>1, <1>2, WithinFrame
<1>5. \A d \in On(a) : d = c \/ call'[d] = call[d]
  BY <1>2 DEF On
<1>6. OwnSecrets(a)'
  BY <1>0, <1>1, <1>3, <1>4, <1>5 DEF OwnSecrets, AccountOK, Within
<1>7. \A d \in On(a) : ~At(d, "connecting")'
  BY <1>0, <1>1, <1>5 DEF AccountOK, Connects, At
<1>8. Connects(a)'
  BY <1>3, <1>7 DEF Connects
<1>9. ASSUME a \notin contended'
      PROVE  Alone(a)' /\ Keeps(a)' /\ Accounted(a)'
  <2>1. a \notin contended
    BY <1>9 DEF Within
  <2>2. On(a) = {c}
    BY <1>0, <2>1 DEF AccountOK, Alone
  <2> QED
    BY <1>1, <1>3, <2>1, <2>2 DEF Alone
<1> QED
  BY <1>4, <1>6, <1>8, <1>9 DEF AccountOK

\* update_account_secret: from now on the call answers for the old secret.
LEMMA SwitchOK ==
  ASSUME AccInv, NEW c \in Calls, At(c, "rotating"), Switch(c)
  PROVE  \E a \in Accounts : AccTypes' /\ Frame(c, a) /\ AccountOK(a)'
<1>0. PICK a \in Accounts, old \in Refs, new \in Refs, k \in Request :
        /\ a = call[c].account /\ old = call[c].old /\ new = call[c].new
        /\ k = [call[c] EXCEPT !.at = "retiring"]
  <2>1. call[c] \in Request
    BY UnderWay DEF At
  <2> QED
    BY <2>1 DEF Request, Steps
<1>1. /\ c \in On(a) /\ AccountOK(a) /\ AccTypes /\ call[c] \in Request
      /\ old \in MadeFor(a) /\ new \in MadeFor(a) /\ a \in Existing
  BY <1>0, UnderWay DEF At, AccInv, Switch
<1>2. /\ accounts' = [accounts EXCEPT ![a].secret = new]
      /\ call' = [call EXCEPT ![c].at = "retiring"]
      /\ UNCHANGED <<keyring, cleanup, issued, startup, contended, lost>>
  BY <1>0 DEF Switch, GoTo, history
<1>3. /\ k.at = "retiring" /\ k.account = a /\ k.old = old /\ k.new = new
      /\ call' = [call EXCEPT ![c] = k]
  BY <1>0, <1>1, <1>2 DEF Request
<1>4. /\ accounts' \in [Accounts -> {NoRow, Gone} \cup Row] /\ accounts'[a].secret = new
      /\ \A b \in Accounts \ {a} : accounts'[b] = accounts[b]
      /\ \A b \in Accounts : b \in Existing' <=> b \in Existing
  BY <1>1, <1>2, Rewriting
<1>5. Within(a)
  BY <1>1, <1>2, <1>4 DEF Within
<1>6. ASSUME a \notin contended, On(a) = {c}, On(a)' = {c}, call'[c] = k
      PROVE  Deposited(c)' /\ Knows(c, a)' /\ Keeps(a)' /\ Accounted(a)'
  <2>1. /\ Deposited(c) /\ Knows(c, a) /\ Accounted(a)
    BY <1>1, <1>6 DEF AccountOK, Alone, At
  <2>2. accounts[a].secret = old /\ new # old /\ new \in keyring
    BY <1>0, <2>1 DEF Deposited, Knows
  <2>3. /\ At(c, "retiring")' /\ call'[c].old = old /\ call'[c].new = new
        /\ \A step \in Steps \ {"retiring"} : ~At(c, step)'
    BY <1>3, <1>6 DEF At
  <2>4. Deposited(c)' /\ Knows(c, a)'
    BY <1>1, <1>4, <2>2, <2>3 DEF Deposited, Knows, Steps
  <2>5. Keeps(a)'
    BY <1>2, <1>4, <2>2 DEF Keeps
  <2>6. Held(c) = {new} /\ Held(c)' = {old}
    BY <1>0, <1>3, <1>6 DEF Held, At
  <2>7. ASSUME NEW ref \in keyring' \ lost', ref[1] = a
        PROVE  ref = new \/ ref = old \/ ref \in cleanup'
    BY <1>2, <1>6, <2>1, <2>2, <2>6, <2>7 DEF Accounted
  <2>8. Accounted(a)'
    <3> SUFFICES ASSUME NEW ref \in keyring' \ lost', ref[1] = a
                 PROVE  \/ a \in Existing' /\ ref = accounts'[a].secret
                        \/ ref \in cleanup'
                        \/ \E d \in On(a)' : ref \in Held(d)'
      BY DEF Accounted
    <3> QED
      BY <1>1, <1>4, <1>6, <2>6, <2>7
  <2> QED
    BY <2>4, <2>5, <2>8
<1>7. call[c].at # "connecting" /\ k.at # "connecting"
  BY <1>3 DEF At
<1>8. AccTypes' /\ Frame(c, a) /\ AccountOK(a)'
  BY <1>1, <1>3, <1>5, <1>6, <1>7, StayingOK
<1> QED
  BY <1>1, <1>8

\* validate_account writes back the reference it has read, or nothing.
LEMMA ValidateOK ==
  ASSUME AccInv, NEW c \in Calls, Validate(c)
  PROVE  \E a \in Accounts : AccTypes' /\ Frame(c, a) /\ AccountOK(a)'
<1> DEFINE a == call[c].account
           old == call[c].old
<1>1. /\ a \in Accounts /\ c \in On(a) /\ AccountOK(a) /\ AccTypes
      /\ old \in MadeFor(a) /\ At(c, "validating") /\ ~At(c, "connecting")
  BY UnderWay DEF At, AccInv, Validate
<1>2. /\ \/ a \in Existing /\ accounts' = [accounts EXCEPT ![a].secret = old]
         \/ accounts' = accounts
      /\ Return(c) /\ UNCHANGED <<keyring, cleanup, issued, startup, contended, lost>>
  BY DEF Validate, history
<1> HIDE DEF a, old
<1>3. /\ accounts' \in [Accounts -> {NoRow, Gone} \cup Row]
      /\ accounts'[a].secret = accounts[a].secret \/ accounts'[a].secret = old
      /\ \A b \in Accounts \ {a} : accounts'[b] = accounts[b]
      /\ \A b \in Accounts : b \in Existing' <=> b \in Existing
  <2>1. CASE accounts' = accounts
    BY <1>1, <2>1 DEF AccTypes, Existing
  <2>2. CASE a \in Existing /\ accounts' = [accounts EXCEPT ![a].secret = old]
    BY <1>1, <2>2, Rewriting
  <2> QED
    BY <1>2, <2>1, <2>2
<1>4. Within(a)
  BY <1>1, <1>2, <1>3 DEF Within, AccountOK, OwnSecrets
<1>5. ASSUME a \notin contended, On(a) = {c}
      PROVE  /\ accounts'[a].secret \in keyring' \cup lost'
             /\ \A ref \in keyring' \ lost' : ref[1] = a =>
                  (a \in Existing' /\ ref = accounts'[a].secret) \/ ref \in cleanup'
  <2>1. Knows(c, a) /\ Accounted(a) /\ Keeps(a)
    BY <1>1, <1>5 DEF AccountOK, Alone
  <2>2. Held(c) = {} /\ ~At(c, "unkeyed") /\ accounts'[a].secret = accounts[a].secret
    BY <1>1, <1>3, <2>1 DEF Held, At, Knows, old
  <2> QED
    BY <1>1, <1>2, <1>3, <1>5, <2>1, <2>2 DEF Knows, Keeps, Accounted
<1> QED
  BY <1>1, <1>2, <1>4, <1>5, EndingOK

\* delete_account takes the secret out of the key ring, and knows which one it
\* was; or it gives up.
LEMMA DeleteSecretOK ==
  ASSUME AccInv, NEW c \in Calls, DeleteSecret(c)
  PROVE  \E a \in Accounts : AccTypes' /\ Frame(c, a) /\ AccountOK(a)'
<1>0. PICK a \in Accounts : a = call[c].account
  BY UnderWay DEF At, DeleteSecret
<1>1. /\ c \in On(a) /\ AccountOK(a) /\ AccTypes /\ call[c] \in Request
      /\ call[c].new \in MadeFor(a) /\ call[c].at = "deleting"
  BY <1>0, UnderWay DEF At, AccInv, DeleteSecret
<1>2. UNCHANGED <<accounts, cleanup, issued, startup, contended, lost>>
  BY DEF DeleteSecret, history
<1>3. Existing' = Existing
  BY <1>2 DEF Existing
<1>4. ASSUME keyring' \subseteq keyring,
             \A ref : ref \notin MadeFor(a) => (ref \in keyring' <=> ref \in keyring)
      PROVE  Within(a)
  BY <1>1, <1>2, <1>3, <1>4 DEF Within, AccTypes, AccountOK, OwnSecrets
<1>5. CASE Return(c) /\ keyring' = keyring
  <2>1. Within(a)
    BY <1>4, <1>5
  <2>2. ASSUME a \notin contended, On(a) = {c}
        PROVE  /\ a \in Existing' => accounts'[a].secret \in keyring' \cup lost'
               /\ \A ref \in keyring' \ lost' : ref[1] = a =>
                    (a \in Existing' /\ ref = accounts'[a].secret) \/ ref \in cleanup'
    <3>1. Accounted(a) /\ Keeps(a) /\ Held(c) = {} /\ ~At(c, "unkeyed")
      BY <1>1, <2>2 DEF AccountOK, Held, At
    <3> QED
      BY <1>2, <1>3, <1>5, <2>2, <3>1 DEF Keeps, Accounted
  <2> QED
    BY <1>1, <1>5, <2>1, <2>2, EndingOK
<1>6. CASE /\ a \in Existing
           /\ keyring' = keyring \ {accounts[a].secret}
           /\ call' = [call EXCEPT ![c].at = "unkeyed", ![c].old = accounts[a].secret]
  <2>1. PICK old \in MadeFor(a) : old = accounts[a].secret
    BY <1>1, <1>6 DEF AccountOK, OwnSecrets
  <2>2. PICK k \in Request : k = [call[c] EXCEPT !.at = "unkeyed", !.old = old]
    BY <1>1, <2>1 DEF Request, Steps, MadeFor
  <2>3. /\ k.at = "unkeyed" /\ k.account = a /\ k.old = old /\ k.new = call[c].new
        /\ call' = [call EXCEPT ![c] = k]
    BY <1>0, <1>1, <1>6, <2>1, <2>2 DEF Request
  <2>4. Within(a)
    BY <1>4, <1>6, <2>1
  <2>5. ASSUME a \notin contended, On(a) = {c}, On(a)' = {c}, call'[c] = k
        PROVE  Deposited(c)' /\ Knows(c, a)' /\ Keeps(a)' /\ Accounted(a)'
    <3>1. Accounted(a) /\ Held(c) = {}
      BY <1>1, <2>5 DEF AccountOK, Held, At
    <3>2. /\ At(c, "unkeyed")' /\ call'[c].old = old
          /\ \A step \in Steps \ {"unkeyed"} : ~At(c, step)'
      BY <2>3, <2>5 DEF At
    <3>3. Deposited(c)' /\ Knows(c, a)' /\ Keeps(a)'
      BY <1>2, <1>3, <1>6, <2>1, <2>5, <3>2 DEF Deposited, Knows, Keeps, Steps
    <3>4. Accounted(a)'
      BY <1>2, <1>6, <2>5, <3>1 DEF Accounted
    <3> QED
      BY <3>3, <3>4
  <2>6. AccTypes' /\ Frame(c, a) /\ AccountOK(a)'
    BY <1>1, <2>1, <2>3, <2>4, <2>5, StayingOK
  <2> QED
    BY <2>6
<1> QED
  BY <1>0, <1>5, <1>6 DEF DeleteSecret

\* A row that goes; another one may become the default.
LEMMA Removing ==
  ASSUME AccTypes, NEW a \in Existing, a \in Accounts,
         \/ accounts' = [accounts EXCEPT ![a] = Gone]
         \/ \E b \in Siblings(a) : accounts' = [accounts EXCEPT ![a] = Gone, ![b].default = TRUE]
  PROVE  /\ accounts' \in [Accounts -> {NoRow, Gone} \cup Row] /\ a \notin Existing'
         /\ \A b \in Accounts \ {a} : /\ b \in Existing' <=> b \in Existing
                                      /\ accounts'[b].secret = accounts[b].secret
                                      /\ accounts[b] = NoRow => accounts'[b] = NoRow
<1>1. accounts \in [Accounts -> {NoRow, Gone} \cup Row]
  BY DEF AccTypes
<1>2. CASE accounts' = [accounts EXCEPT ![a] = Gone]
  <2>1. accounts' \in [Accounts -> {NoRow, Gone} \cup Row] /\ accounts'[a] = Gone
    BY <1>1, <1>2
  <2>2. \A b \in Accounts \ {a} : accounts'[b] = accounts[b]
    BY <1>1, <1>2
  <2> QED
    BY <2>1, <2>2 DEF Existing
<1>3. ASSUME NEW b \in Siblings(a),
             accounts' = [accounts EXCEPT ![a] = Gone, ![b].default = TRUE]
      PROVE  /\ accounts' \in [Accounts -> {NoRow, Gone} \cup Row] /\ a \notin Existing'
             /\ \A d \in Accounts \ {a} : /\ d \in Existing' <=> d \in Existing
                                          /\ accounts'[d].secret = accounts[d].secret
                                          /\ accounts[d] = NoRow => accounts'[d] = NoRow
  <2>1. b # a /\ b \in Existing /\ b \in Accounts /\ accounts[b] \in Row
    BY Typed DEF Siblings, Existing
  <2>2. accounts'[a] = Gone /\ \A d \in Accounts \ {a, b} : accounts'[d] = accounts[d]
    BY <1>1, <1>3, <2>1
  <2>3. accounts'[b] \in Row /\ accounts'[b].secret = accounts[b].secret
    BY <1>1, <1>3, <2>1 DEF Row
  <2>4. accounts' \in [Accounts -> {NoRow, Gone} \cup Row]
    <3>1. DOMAIN accounts' = Accounts /\ accounts' = [d \in Accounts |-> accounts'[d]]
      BY <1>1, <1>3
    <3> QED
      BY <1>1, <2>2, <2>3, <3>1
  <2>5. accounts[b] # NoRow /\ a \notin Existing' /\ b \in Existing'
    BY <2>1, <2>2, <2>3, Shapes DEF Existing
  <2> QED
    BY <2>1, <2>2, <2>3, <2>4, <2>5 DEF Existing
<1> QED
  BY <1>2, <1>3

\* delete_account_with_resolution: the secret of the row is gone already.
LEMMA DeleteRowOK ==
  ASSUME AccInv, NEW c \in Calls, At(c, "unkeyed"), DeleteRow(c)
  PROVE  \E a \in Accounts : AccTypes' /\ Frame(c, a) /\ AccountOK(a)'
<1>0. PICK a \in Accounts : a = call[c].account
  BY UnderWay DEF At
<1>1. c \in On(a) /\ AccountOK(a) /\ AccTypes /\ a \in Existing /\ ~At(c, "connecting")
  BY <1>0, UnderWay DEF At, AccInv, DeleteRow
<1>2. Return(c) /\ UNCHANGED <<keyring, cleanup, issued, startup, contended, lost>>
  BY DEF DeleteRow, history
<1>3. /\ accounts' \in [Accounts -> {NoRow, Gone} \cup Row] /\ a \notin Existing'
      /\ \A b \in Accounts \ {a} : /\ b \in Existing' <=> b \in Existing
                                   /\ accounts'[b].secret = accounts[b].secret
                                   /\ accounts[b] = NoRow => accounts'[b] = NoRow
  BY <1>0, <1>1, Removing DEF DeleteRow
<1>4. Within(a)
  BY <1>2, <1>3 DEF Within
<1>5. ASSUME a \notin contended, On(a) = {c}
      PROVE  \A ref \in keyring' \ lost' : ref[1] = a => ref \in cleanup'
  <2>1. Knows(c, a) /\ Accounted(a)
    BY <1>1, <1>5 DEF AccountOK, Alone
  <2>2. Held(c) = {call[c].old}
    BY DEF Held, At
  <2> QED
    BY <1>2, <1>5, <2>1, <2>2 DEF Knows, Accounted
<1> QED
  BY <1>1, <1>2, <1>3, <1>4, <1>5, EndingOK

\* The deletion failed: the secret is put back, or that fails as well.
LEMMA RestoreOK ==
  ASSUME AccInv, NEW c \in Calls, At(c, "unkeyed"), Restore(c)
  PROVE  \E a \in Accounts : AccTypes' /\ Frame(c, a) /\ AccountOK(a)'
<1>0. PICK a \in Accounts : a = call[c].account
  BY UnderWay DEF At
<1>1. /\ c \in On(a) /\ AccountOK(a) /\ AccTypes /\ ~At(c, "connecting")
      /\ call[c].old \in MadeFor(a)
  BY <1>0, UnderWay DEF At, AccInv
<1>2. /\ Return(c) /\ UNCHANGED <<accounts, cleanup, issued, startup, contended>>
      /\ \/ keyring' = keyring \cup {call[c].old} /\ lost' = lost
         \/ lost' = lost \cup {call[c].old} /\ keyring' = keyring
  BY DEF Restore
<1>3. Existing' = Existing
  BY <1>2 DEF Existing
<1>4. Within(a)
  BY <1>1, <1>2, <1>3 DEF Within, AccTypes, AccountOK, OwnSecrets
<1>5. ASSUME a \notin contended, On(a) = {c}
      PROVE  /\ accounts'[a].secret \in keyring' \cup lost'
             /\ \A ref \in keyring' \ lost' : ref[1] = a =>
                  (a \in Existing' /\ ref = accounts'[a].secret) \/ ref \in cleanup'
  <2>1. Knows(c, a) /\ Accounted(a)
    BY <1>1, <1>5 DEF AccountOK, Alone
  <2>2. Held(c) = {call[c].old} /\ a \in Existing /\ accounts[a].secret = call[c].old
    BY <2>1 DEF Held, At, Knows
  <2> QED
    BY <1>2, <1>3, <1>5, <2>1, <2>2 DEF Accounted
<1> QED
  BY <1>1, <1>2, <1>4, <1>5, EndingOK
-----------------------------------------------------------------------------
\* set_default_account: no secret changes.
LEMMA SetDefaultOK ==
  ASSUME AccInv, NEW a \in Accounts, SetDefault(a)
  PROVE  AccTypes' /\ (\A b \in Accounts : AccountOK(b)') /\ DefaultInv'
<1>0. AccTypes /\ a \in Existing
  BY DEF AccInv, SetDefault
<1>1. /\ accounts' = [b \in Accounts |-> IF b \in Existing
                        THEN [accounts[b] EXCEPT !.default = (b = a)] ELSE accounts[b]]
      /\ UNCHANGED <<keyring, cleanup, issued, call, startup, lost, contended>>
  BY DEF SetDefault, history
<1>2. ASSUME NEW b \in Accounts, b \in Existing
      PROVE  /\ accounts'[b] \in Row /\ accounts'[b].secret = accounts[b].secret
             /\ accounts'[b].default = (b = a)
  <2>1. accounts'[b] = [accounts[b] EXCEPT !.default = (b = a)] /\ accounts[b] \in Row
    BY <1>0, <1>1, <1>2, Typed
  <2> QED
    BY <2>1 DEF Row
<1>3. \A b \in Accounts : b \notin Existing => accounts'[b] = accounts[b]
  BY <1>1
<1>4. \A b \in Accounts : b \in Existing' <=> b \in Existing
  BY <1>2, <1>3, Shapes DEF Existing
<1>5. accounts' \in [Accounts -> {NoRow, Gone} \cup Row]
  <2>1. \A b \in Accounts : accounts'[b] \in {NoRow, Gone} \cup Row
    BY <1>0, <1>2, <1>3 DEF AccTypes
  <2> QED
    BY <1>1, <2>1
<1>6. AccTypes'
  BY <1>0, <1>1, <1>5 DEF AccTypes, MadeFor
<1>7. ASSUME NEW b \in Accounts
      PROVE  AccountOK(b)'
  <2>1. AccountOK(b)
    BY DEF AccInv
  <2>2. /\ MadeFor(b)' = MadeFor(b) /\ On(b)' = On(b) /\ contended' = contended
        /\ b \in Existing' <=> b \in Existing
        /\ b \in Existing => accounts'[b].secret = accounts[b].secret
        /\ accounts[b] = NoRow => accounts'[b] = NoRow
    BY <1>1, <1>2, <1>3, <1>4 DEF MadeFor, On, Existing
  <2>3. OwnSecrets(b)' /\ Connects(b)'
    BY <1>1, <2>1, <2>2 DEF AccountOK, OwnSecrets, Connects, At
  <2>4. ASSUME b \notin contended'
        PROVE  Alone(b)' /\ Keeps(b)' /\ Accounted(b)'
    <3>1. Alone(b) /\ Keeps(b) /\ Accounted(b)
      BY <2>1, <2>2, <2>4 DEF AccountOK
    <3>2. Alone(b)' /\ Keeps(b)'
      BY <1>1, <2>2, <3>1 DEF Alone, Deposited, Knows, Keeps, At
    <3>3. \A d \in Calls : Held(d)' = Held(d)
      BY <1>1 DEF Held
    <3>4. Accounted(b)'
      BY <1>1, <2>2, <3>1, <3>3 DEF Accounted, On
    <3> QED
      BY <3>2, <3>4
  <2> QED
    BY <2>3, <2>4 DEF AccountOK
<1>8. DefaultInv'
  <2>1. a \in Existing' /\ \A b \in Existing' : accounts'[b].default <=> b = a
    BY <1>0, <1>2, <1>4 DEF Existing
  <2> QED
    BY <2>1 DEF DefaultInv
<1> QED
  BY <1>6, <1>7, <1>8

\* When no call is under way, before or after the step, an account only has
\* to have its secret, and the key ring to be accounted for.
LEMMA AtRest ==
  ASSUME AccInv, UNCHANGED <<accounts, issued, contended>>, keyring' \subseteq keyring,
         call' = [d \in Calls |-> Idle],
         \A b \in Existing \ contended : accounts[b].secret \in keyring' \cup lost',
         \A ref \in keyring' \ lost' : ref[1] \notin contended =>
           ref \in Referenced \cup cleanup'
  PROVE  AccTypes' /\ (\A b \in Accounts : AccountOK(b)') /\ DefaultInv'
<1>1. AccTypes'
  BY DEF AccInv, AccTypes, MadeFor
<1>2. Existing' = Existing /\ \A b \in Accounts : MadeFor(b)' = MadeFor(b) /\ On(b)' = {}
  BY DEF Existing, MadeFor, On
<1>3. ASSUME NEW b \in Accounts
      PROVE  AccountOK(b)'
  <2>1. OwnSecrets(b)' /\ Connects(b)' /\ Alone(b)'
    BY <1>2 DEF AccInv, AccountOK, OwnSecrets, Connects, Alone
  <2>2. ASSUME b \notin contended
        PROVE  Keeps(b)' /\ Accounted(b)'
    <3>1. Keeps(b)'
      BY <1>2, <2>2 DEF Keeps
    <3>2. \A d \in Existing : accounts[d].secret[1] = d
      BY DEF AccInv, AccountOK, OwnSecrets, MadeFor, Existing
    <3>3. ASSUME NEW ref \in keyring' \ lost', ref[1] = b
          PROVE  (b \in Existing' /\ ref = accounts'[b].secret) \/ ref \in cleanup'
      BY <1>2, <2>2, <3>2, <3>3 DEF Referenced
    <3>4. Accounted(b)'
      BY <3>3 DEF Accounted
    <3> QED
      BY <3>1, <3>4
  <2> QED
    BY <2>1, <2>2 DEF AccountOK
<1>4. DefaultInv'
  BY <1>2 DEF AccInv, DefaultInv
<1> QED
  BY <1>1, <1>3, <1>4

\* retry_secret_cleanup, at the start: no secret goes that is in a row.
LEMMA SweepOK ==
  ASSUME AccInv, NEW ref \in Refs, Sweep(ref)
  PROVE  AccTypes' /\ (\A b \in Accounts : AccountOK(b)') /\ DefaultInv'
<1>1. \A c \in Calls : call[c] = Idle
  BY DEF AccInv, AccTypes, Sweep
<1>2. UNCHANGED <<accounts, issued, contended, lost, call>>
  BY DEF Sweep, history
<1>3. call' = [d \in Calls |-> Idle]
  <2>1. call = [d \in Calls |-> call[d]]
    BY DEF AccInv, AccTypes
  <2> QED
    BY <1>1, <1>2, <2>1
<1>4. \/ keyring' = keyring /\ cleanup' = cleanup
      \/ ref \notin Referenced /\ keyring' = keyring \ {ref} /\ cleanup \ {ref} \subseteq cleanup'
  BY DEF Sweep
<1>5. \A a \in Accounts : a \notin contended => On(a) = {} /\ Keeps(a)
  BY <1>1 DEF AccInv, AccountOK, On
<1>6. \A b \in Existing \ contended : accounts[b].secret \in keyring' \cup lost'
  BY <1>2, <1>4, <1>5 DEF Keeps, Referenced, Existing
<1>7. \A c \in Calls : Held(c) = {}
  BY <1>1 DEF Held, Idle
<1>8. \A r \in keyring \ lost : r[1] \notin contended => r \in Referenced \cup cleanup
  BY <1>7, AccInvImplies DEF SecretsAreAccounted
<1>9. \A r \in keyring' \ lost' : r[1] \notin contended => r \in Referenced \cup cleanup'
  BY <1>2, <1>4, <1>8
<1>10. keyring' \subseteq keyring
  BY <1>4
<1> QED
  BY <1>2, <1>3, <1>6, <1>9, <1>10, AtRest

\* The process dies: what the calls answered for is nobody's.
LEMMA CrashOK ==
  ASSUME AccInv, Crash
  PROVE  AccTypes' /\ (\A b \in Accounts : AccountOK(b)') /\ DefaultInv'
<1>1. /\ UNCHANGED <<accounts, issued, contended, keyring, cleanup>>
      /\ call' = [d \in Calls |-> Idle]
      /\ lost' = lost \cup UNION {Held(c) : c \in Calls}
  BY DEF Crash, store
<1>2. \A c \in Calls : At(c, "unkeyed") => Held(c) = {call[c].old}
  BY DEF Held, At
<1>3. \A b \in Existing \ contended : accounts[b].secret \in keyring' \cup lost'
  <2> SUFFICES ASSUME NEW b \in Existing, b \notin contended,
                      accounts[b].secret \notin keyring \cup lost
               PROVE  accounts[b].secret \in lost'
    BY <1>1
  <2>1. PICK c \in Calls : At(c, "unkeyed") /\ call[c].old = accounts[b].secret
    BY AccInvImplies DEF AccountsKeepSecrets
  <2> QED
    BY <1>1, <1>2, <2>1
<1>4. \A ref \in keyring' \ lost' : ref[1] \notin contended => ref \in Referenced \cup cleanup'
  BY <1>1, AccInvImplies DEF SecretsAreAccounted
<1> QED
  BY <1>1, <1>3, <1>4, AtRest
-----------------------------------------------------------------------------
\* Connecting, rewriting and deleting leave one default.
LEMMA DefaultKept ==
  ASSUME AccInv, NEW c \in Calls,
         \/ UNCHANGED accounts
         \/ At(c, "connecting") /\ Insert(c)
         \/ At(c, "rotating") /\ Switch(c)
         \/ Validate(c)
         \/ At(c, "unkeyed") /\ DeleteRow(c)
  PROVE  DefaultInv'
<1>0. AccTypes /\ DefaultInv
  BY DEF AccInv
<1>1. CASE UNCHANGED accounts
  BY <1>0, <1>1 DEF DefaultInv, Existing
<1>2. CASE At(c, "connecting") /\ Insert(c)
  <2>1. PICK a \in Accounts : a = call[c].account
    BY <1>2, UnderWay DEF At
  <2>2. a \notin Existing /\ call[c].new \in Refs
    BY <1>2, <2>1, UnderWay DEF At, AccountOK, Connects, Existing, MadeFor
  <2>3. PICK r \in Row : /\ r = [secret |-> call[c].new, default |-> Existing = {}]
                         /\ r.default <=> Existing = {}
    <3> DEFINE row == [secret |-> call[c].new, default |-> Existing = {}]
    <3>1. row \in Row
      BY <2>2 DEF Row
    <3>2. row.default <=> Existing = {}
      OBVIOUS
    <3> QED
      BY <3>1, <3>2
  <2>4. accounts' = [accounts EXCEPT ![a] = r] /\ accounts \in [Accounts -> {NoRow, Gone} \cup Row]
    BY <1>0, <1>2, <2>1, <2>3 DEF Insert, AccTypes
  <2>5. accounts'[a] = r /\ \A b \in Accounts \ {a} : accounts'[b] = accounts[b]
    BY <2>4
  <2>6. Existing' = Existing \cup {a}
    BY <2>5, Shapes DEF Existing
  <2>7. \A b \in Existing : b # a /\ accounts'[b] = accounts[b]
    BY <2>2, <2>5 DEF Existing
  <2> QED
    BY <1>0, <2>3, <2>5, <2>6, <2>7 DEF DefaultInv
<1>3. CASE (At(c, "rotating") /\ Switch(c)) \/ Validate(c)
  <2>1. PICK a \in Accounts : a = call[c].account
    BY <1>3, UnderWay DEF At, Validate
  <2>2. call[c].old \in MadeFor(a) /\ call[c].new \in MadeFor(a)
    BY <1>3, <2>1, UnderWay DEF At, Validate
  <2>3. \/ accounts' = accounts
        \/ a \in Existing /\ accounts' = [accounts EXCEPT ![a].secret = call[c].new]
        \/ a \in Existing /\ accounts' = [accounts EXCEPT ![a].secret = call[c].old]
    BY <1>3, <2>1 DEF Switch, Validate
  <2>4. \A b \in Accounts : /\ b \in Existing' <=> b \in Existing
                            /\ accounts'[b].default = accounts[b].default
    <3>1. CASE accounts' = accounts
      BY <3>1 DEF Existing
    <3>2. ASSUME NEW ref \in MadeFor(a), a \in Existing,
                 accounts' = [accounts EXCEPT ![a].secret = ref]
          PROVE  \A b \in Accounts : /\ b \in Existing' <=> b \in Existing
                                     /\ accounts'[b].default = accounts[b].default
      BY <1>0, <3>2, Rewriting
    <3> QED
      BY <2>2, <2>3, <3>1, <3>2
  <2> QED
    BY <1>0, <2>4 DEF DefaultInv, Existing
<1>4. CASE At(c, "unkeyed") /\ DeleteRow(c)
  <2>1. PICK a \in Accounts : a = call[c].account
    BY <1>4, UnderWay DEF At
  <2>2. a \in Existing /\ accounts \in [Accounts -> {NoRow, Gone} \cup Row]
    BY <1>0, <1>4, <2>1 DEF DeleteRow, AccTypes
  <2>3. PICK d \in Existing : \A b \in Existing : accounts[b].default <=> b = d
    BY <1>0, <2>2 DEF DefaultInv
  <2>4. CASE accounts[a].default /\ Siblings(a) # {}
    <3>1. PICK b \in Siblings(a) : accounts' = [accounts EXCEPT ![a] = Gone, ![b].default = TRUE]
      BY <1>4, <2>1, <2>4 DEF DeleteRow
    <3>2. b \in Accounts /\ b # a /\ accounts[b] \in Row
      BY <1>0, Typed DEF Siblings, Existing
    <3>3. accounts'[a] = Gone /\ \A e \in Accounts \ {a, b} : accounts'[e] = accounts[e]
      BY <2>2, <3>1, <3>2
    <3>4. accounts'[b].default /\ accounts'[b] \in Row
      BY <2>2, <3>1, <3>2 DEF Row
    <3>5. /\ b \in Existing'
          /\ \A e \in Existing' :
               e # b => e \in Existing \ {a} /\ accounts'[e] = accounts[e]
      BY <3>2, <3>3, <3>4, Shapes DEF Existing
    <3>6. a = d
      BY <2>2, <2>3, <2>4
    <3> QED
      BY <2>3, <3>4, <3>5, <3>6 DEF DefaultInv
  <2>5. CASE ~(accounts[a].default /\ Siblings(a) # {})
    <3>1. accounts' = [accounts EXCEPT ![a] = Gone]
      BY <1>4, <2>1, <2>5 DEF DeleteRow
    <3>2. accounts'[a] = Gone /\ \A e \in Accounts \ {a} : accounts'[e] = accounts[e]
      BY <2>2, <3>1
    <3>3. Existing' = Siblings(a) /\ \A e \in Existing' : accounts'[e] = accounts[e]
      BY <3>2 DEF Siblings, Existing
    <3> QED
      BY <2>2, <2>3, <2>5, <3>3 DEF DefaultInv, Siblings
  <2> QED
    BY <2>4, <2>5
<1> QED
  BY <1>1, <1>2, <1>3, <1>4

\* Every step keeps the invariant.
LEMMA AccStep ==
  ASSUME AccInv, [Next]_vars
  PROVE  AccInv'
<1>1. ASSUME NEW c \in Calls, NEW a \in Accounts,
             BeginConnect(c, a) \/ BeginRotate(c, a) \/ BeginValidate(c, a) \/ BeginDelete(c, a)
      PROVE  AccInv'
  <2>1. AccTypes' /\ Frame(c, a) /\ AccountOK(a)'
    BY <1>1, BeginConnectOK, BeginRotateOK, BeginOK
  <2>2. \A b \in Accounts : AccountOK(b)'
    BY <2>1, AllAccounts
  <2>3. UNCHANGED accounts
    BY <1>1 DEF BeginConnect, BeginRotate, BeginValidate, BeginDelete, Deposit, store
  <2> QED
    BY <2>1, <2>2, <2>3, DefaultKept DEF AccInv
<1>2. ASSUME NEW c \in Calls,
             Connect(c) \/ Rotate(c) \/ Retire(c) \/ Validate(c) \/ DeleteSecret(c) \/ Delete(c)
      PROVE  AccInv'
  <2>1. \E a \in Accounts : AccTypes' /\ Frame(c, a) /\ AccountOK(a)'
    <3>1. CASE Connect(c)
      BY <3>1, InsertOK, CompensateOK DEF Connect
    <3>2. CASE Rotate(c)
      BY <3>2, SwitchOK, CompensateOK DEF Rotate
    <3>3. CASE Delete(c)
      BY <3>3, DeleteRowOK, RestoreOK DEF Delete
    <3> QED
      BY <1>2, <3>1, <3>2, <3>3, RetireOK, ValidateOK, DeleteSecretOK
  <2>2. AccTypes' /\ \A b \in Accounts : AccountOK(b)'
    BY <2>1, AllAccounts
  <2>3. DefaultInv'
    <3>1. \/ UNCHANGED accounts
          \/ At(c, "connecting") /\ Insert(c)
          \/ At(c, "rotating") /\ Switch(c)
          \/ Validate(c)
          \/ At(c, "unkeyed") /\ DeleteRow(c)
      BY <1>2 DEF Connect, Rotate, Retire, DeleteSecret, Delete, Compensate, Restore
    <3> QED
      BY <3>1, DefaultKept
  <2> QED
    BY <2>2, <2>3 DEF AccInv
<1>3. ASSUME NEW a \in Accounts, SetDefault(a)
      PROVE  AccInv'
  BY <1>3, SetDefaultOK DEF AccInv
<1>4. ASSUME NEW ref \in Refs, Sweep(ref)
      PROVE  AccInv'
  BY <1>4, SweepOK DEF AccInv
<1>5. CASE Crash
  BY <1>5, CrashOK DEF AccInv
<1>6. CASE UNCHANGED vars
  <2>1. UNCHANGED <<accounts, keyring, cleanup, issued, call, startup, contended, lost>>
    BY <1>6 DEF vars
  <2>2. AccTypes' /\ DefaultInv'
    BY <2>1 DEF AccInv, AccTypes, DefaultInv, Existing, MadeFor
  <2>3. ASSUME NEW a \in Accounts
        PROVE  AccountOK(a)'
    <3>1. AccountOK(a)
      BY DEF AccInv
    <3>2. /\ On(a)' = On(a) /\ MadeFor(a)' = MadeFor(a) /\ Existing' = Existing
          /\ \A c \in Calls : Held(c)' = Held(c)
      BY <2>1 DEF On, MadeFor, Existing, Held
    <3>3. OwnSecrets(a)' /\ Connects(a)' /\ (a \notin contended => Alone(a)' /\ Keeps(a)')
      BY <2>1, <3>1, <3>2 DEF AccountOK, OwnSecrets, Connects, Alone, Deposited, Knows, Keeps, At
    <3>4. a \notin contended => Accounted(a)'
      BY <2>1, <3>1, <3>2 DEF AccountOK, Accounted, On
    <3> QED
      BY <2>1, <3>3, <3>4 DEF AccountOK
  <2> QED
    BY <2>2, <2>3 DEF AccInv
<1> QED
  BY <1>1, <1>2, <1>3, <1>4, <1>5, <1>6 DEF Next

-----------------------------------------------------------------------------
\* The invariant of the accounts (connect_account, rotate_account,
\* validate_account, delete_account_with_resolution, set_default_account and
\* retry_secret_cleanup): types, one default, and for each account what its
\* calls know and who answers for its secrets.
THEOREM AccountsInvariant == Spec => []AccInv
<1>1. Init => AccInv
  <2> SUFFICES ASSUME Init
               PROVE  AccInv
    OBVIOUS
  <2>1. Existing = {} /\ \A a \in Accounts : On(a) = {}
    BY DEF Init, Existing, On
  <2>2. AccTypes
    BY DEF Init, AccTypes
  <2>3. DefaultInv /\ \A a \in Accounts : AccountOK(a)
    BY <2>1 DEF Init, DefaultInv, AccountOK, OwnSecrets, Connects, Alone, Keeps, Accounted
  <2> QED
    BY <2>2, <2>3 DEF AccInv
<1>2. AccInv /\ [Next]_vars => AccInv'
  BY AccStep
<1> QED
  BY <1>1, <1>2, PTL DEF Spec

\* As long as there are accounts exactly one of them is the default, through
\* connecting, deleting and choosing another one at the same time.
THEOREM OneIsAlwaysDefault == Spec => []OneDefault
<1>1. AccInv => OneDefault
  BY AccInvImplies
<1> QED
  BY <1>1, AccountsInvariant, PTL

\* An account that calls have been on one after the other has its secret,
\* whatever failed in them, except while it is being deleted; only a crash or
\* a second failure in a deletion may cost it.
THEOREM AccountsAlwaysKeepSecrets == Spec => []AccountsKeepSecrets
<1>1. AccInv => AccountsKeepSecrets
  BY AccInvImplies
<1> QED
  BY <1>1, AccountsInvariant, PTL

\* A secret in the key ring is that of an account, or on the list of those to
\* be deleted, or in the hands of a call; except after a crash, a second
\* failure, or two calls on one account.
THEOREM SecretsAlwaysAccounted == Spec => []SecretsAreAccounted
<1>1. AccInv => SecretsAreAccounted
  BY AccInvImplies
<1> QED
  BY <1>1, AccountsInvariant, PTL

-----------------------------------------------------------------------------
StartSteps == {"down", "opening", "discovering", "invalidating", "default theme", "themes",
          "installing", "granting", "up"}

Installable == [PluginIds -> Manifests \cup {None}]
Kinds == [PluginIds -> {"builtin", "external", None}]
Rows == [ThemeIds -> ThemeRows \cup {None}]

StartTypeOK ==
  /\ bundle \in Installable /\ first \in Installable /\ kinds \in Kinds
  /\ at \in StartSteps /\ todo \subseteq Places /\ cut \subseteq PluginIds
  /\ themes \in Rows

\* Whose permissions are granted next.
Pending(p) == at = "granting" /\ \E i \in Places : Turn(i) /\ Plugins[i] = p

\* What a plugin may do, but for an account.
Own(p) == {g \in grants : g[1] = p} \ {Account(p)}

Due(p) ==
  IF first[p] = None \/ p \in cut \/ Pending(p) THEN {}
  ELSE IF first[p].kind = "builtin" THEN Asked(p, first[p]) ELSE {}

GrantsFit(p) ==
  /\ first[p] = None <=> kinds[p] = None
  /\ p \in cut => first[p] # None
  /\ Own(p) = Due(p)
  /\ Pending(p) =>
       /\ bundle[p] # None /\ first[p] = bundle[p] /\ kinds[p] = bundle[p].kind
       /\ first[p].kind = "builtin" /\ p \notin cut

\* Who has been visited has the kind of its package.
Visiting == {"installing", "granting"}

VisitInv ==
  /\ at \in Visiting \cup {"themes"} => todo \subseteq Discoveries
  /\ at = "granting" => \E i \in Places : Turn(i)
  /\ at \in Visiting =>
       \A i \in Discoveries : i \notin todo => kinds[Plugins[i]] = bundle[Plugins[i]].kind
  /\ at = "up" => \A i \in Discoveries : kinds[Plugins[i]] = bundle[Plugins[i]].kind

Shown == {t \in ThemeIds : themes[t] # None /\ themes[t].valid}

ThemesInv ==
  /\ \A t \in ThemeIds : themes[t] # None /\ themes[t].plugin = Host => t = DefaultTheme
  /\ at = "default theme" => \A t \in Shown : themes[t].plugin = Host
  /\ at \in Visiting \cup {"themes", "up"} =>
       /\ catalogue = {<<t, themes[t].plugin>> : t \in Shown}
       /\ <<DefaultTheme, Host>> \in catalogue
  /\ at \in Visiting \cup {"up"} => Loaded(active)

StartInv ==
  /\ StartTypeOK /\ VisitInv /\ ThemesInv
  /\ \A p \in PluginIds : GrantsFit(p)
\* One place at a time has its turn, and a plugin has one place.
LEMMA OneTurn ==
  ASSUME StartInv, NEW i \in Places, NEW j \in Places, Turn(i), Turn(j)
  PROVE  i = j
<1>1. i \in Nat /\ j \in Nat /\ i <= j /\ j <= i
  BY StartupAssumption DEF Turn
<1> QED BY <1>1

LEMMA OnePlace ==
  ASSUME NEW i \in Places, NEW j \in Places, Plugins[i] = Plugins[j]
  PROVE  i = j
BY StartupAssumption

\* Nothing is installed, granted or loaded before the first start.
LEMMA StartInitInv == StartupInit => StartInv
<1> SUFFICES ASSUME StartupInit PROVE StartInv
  OBVIOUS
<1>1. StartTypeOK
  BY DEF StartupInit, StartTypeOK, Installable, Kinds, Rows, StartSteps
<1>2. VisitInv /\ ThemesInv
  BY DEF StartupInit, VisitInv, ThemesInv, Visiting
<1>3. \A p \in PluginIds : GrantsFit(p)
  BY DEF StartupInit, GrantsFit, Own, Due, Pending
<1> QED BY <1>1, <1>2, <1>3 DEF StartInv

\* A step that grants nothing and visits nobody.
LEMMA GrantsKeep ==
  ASSUME StartInv, at # "granting", at' # "granting", UNCHANGED installation
  PROVE  \A p \in PluginIds : GrantsFit(p)'
BY DEF StartInv, GrantsFit, Own, Due, Pending, installation

\* A step that leaves the themes as they are.
LEMMA ThemesKeep ==
  ASSUME StartInv, UNCHANGED <<themes, active, catalogue>>,
         at' \in Visiting \cup {"up"} => at \in Visiting \cup {"up"},
         at' \in {"themes", "default theme"} => at' = at
  PROVE  ThemesInv'
BY DEF StartInv, ThemesInv, Shown, Loaded, Visiting

\* A step of the time before the visits, or of the end.
LEMMA VisitKeep ==
  ASSUME at' \notin Visiting \cup {"themes", "up"}
  PROVE  VisitInv'
BY DEF VisitInv, Visiting

LEMMA ReleaseKeeps ==
  ASSUME StartInv, Release
  PROVE  StartInv'
<1>1. /\ at # "granting" /\ at' \notin Visiting \cup {"themes", "up", "default theme"}
      /\ at' \in StartSteps /\ UNCHANGED <<todo, themes, active, catalogue, installation>>
  BY DEF StartInv, StartTypeOK, StartSteps, Visiting, Release
<1>2. bundle' \in Installable
  BY DEF StartInv, StartTypeOK, Installable, Release, outside, Manifests
<1>3. StartTypeOK'
  BY <1>1, <1>2 DEF StartInv, StartTypeOK, installation
<1> QED BY <1>1, <1>3, GrantsKeep, ThemesKeep, VisitKeep DEF StartInv, Visiting

LEMMA OpenKeeps ==
  ASSUME StartInv, Open
  PROVE  StartInv'
<1>1. /\ at # "granting" /\ at' \notin Visiting \cup {"themes", "up", "default theme"}
      /\ at' \in StartSteps /\ UNCHANGED <<todo, themes, active, catalogue, installation>>
  BY DEF StartInv, StartTypeOK, StartSteps, Visiting, Open
<1>2. bundle' \in Installable
  BY DEF StartInv, StartTypeOK, Installable, Open, outside, Manifests
<1>3. StartTypeOK'
  BY <1>1, <1>2 DEF StartInv, StartTypeOK, installation
<1> QED BY <1>1, <1>3, GrantsKeep, ThemesKeep, VisitKeep DEF StartInv, Visiting

LEMMA MigrateKeeps ==
  ASSUME StartInv, Migrate
  PROVE  StartInv'
<1>1. /\ at # "granting" /\ at' \notin Visiting \cup {"themes", "up", "default theme"}
      /\ at' \in StartSteps /\ UNCHANGED <<todo, themes, active, catalogue, installation>>
  BY DEF StartInv, StartTypeOK, StartSteps, Visiting, Migrate
<1>2. bundle' \in Installable
  BY DEF StartInv, StartTypeOK, Installable, Migrate, outside, Manifests
<1>3. StartTypeOK'
  BY <1>1, <1>2 DEF StartInv, StartTypeOK, installation
<1> QED BY <1>1, <1>3, GrantsKeep, ThemesKeep, VisitKeep DEF StartInv, Visiting

LEMMA DiscoverPluginsKeeps ==
  ASSUME StartInv, DiscoverPlugins
  PROVE  StartInv'
<1>1. /\ at # "granting" /\ at' \notin Visiting \cup {"themes", "up", "default theme"}
      /\ at' \in StartSteps /\ UNCHANGED <<todo, themes, active, catalogue, installation>>
  BY DEF StartInv, StartTypeOK, StartSteps, Visiting, DiscoverPlugins
<1>2. bundle' \in Installable
  BY DEF StartInv, StartTypeOK, Installable, DiscoverPlugins, outside, Manifests
<1>3. StartTypeOK'
  BY <1>1, <1>2 DEF StartInv, StartTypeOK, installation
<1> QED BY <1>1, <1>3, GrantsKeep, ThemesKeep, VisitKeep DEF StartInv, Visiting

LEMMA InvalidateKeeps ==
  ASSUME StartInv, Invalidate
  PROVE  StartInv'
<1>1. /\ at # "granting" /\ at' = "default theme" /\ UNCHANGED <<todo, installation, outside>>
  BY DEF Invalidate
<1>2. ASSUME NEW t \in ThemeIds
      PROVE  /\ themes'[t] \in ThemeRows \cup {None}
             /\ themes'[t] # None => /\ themes[t] # None
                                     /\ themes'[t].plugin = themes[t].plugin
                                     /\ themes'[t].valid => themes[t].plugin = Host
  <2>1. themes[t] \in ThemeRows \cup {None}
    BY DEF StartInv, StartTypeOK, Rows
  <2>2. CASE themes[t] # None /\ themes[t].plugin # Host
    <3>1. themes'[t] = [themes[t] EXCEPT !.valid = FALSE] /\ themes[t] \in ThemeRows
      BY <2>1, <2>2 DEF Invalidate
    <3> QED BY <2>2, <3>1 DEF ThemeRows
  <2>3. CASE ~(themes[t] # None /\ themes[t].plugin # Host)
    <3>1. themes'[t] = themes[t]
      BY <2>3 DEF Invalidate
    <3> QED BY <2>1, <2>3, <3>1
  <2> QED BY <2>2, <2>3
<1>3. themes' \in Rows
  BY <1>2 DEF Invalidate, Rows
<1>4. StartTypeOK'
  BY <1>1, <1>3 DEF StartInv, StartTypeOK, StartSteps, installation, outside
<1>5. ThemesInv'
  BY <1>1, <1>2 DEF StartInv, ThemesInv, Shown, Visiting
<1> QED BY <1>1, <1>4, <1>5, GrantsKeep, VisitKeep DEF StartInv, Visiting

LEMMA AddDefaultThemeKeeps ==
  ASSUME StartInv, AddDefaultTheme
  PROVE  StartInv'
<1>1. /\ at = "default theme" /\ at' = "themes" /\ todo' = Discoveries
      /\ catalogue' = {<<DefaultTheme, Host>>} /\ UNCHANGED <<active, installation, outside>>
  BY DEF AddDefaultTheme
<1>2. DefaultTheme \in ThemeIds /\ [plugin |-> Host, valid |-> TRUE] \in ThemeRows
  BY DEF ThemeIds, ThemeRows
<1>3. themes' \in Rows
  BY <1>2 DEF StartInv, StartTypeOK, Rows, AddDefaultTheme
<1>4. themes'[DefaultTheme] = [plugin |-> Host, valid |-> TRUE]
      /\ \A t \in ThemeIds : t # DefaultTheme => themes'[t] = themes[t]
  BY <1>2 DEF StartInv, StartTypeOK, Rows, AddDefaultTheme
<1>5. StartTypeOK'
  BY <1>1, <1>3 DEF StartInv, StartTypeOK, StartSteps, installation, outside, Discoveries
<1>6. [plugin |-> Host, valid |-> TRUE] # None
  BY <1>2, StartupAssumption
<1>7. Shown' = {DefaultTheme}
  <2>1. \A t \in Shown : t = DefaultTheme
    BY <1>1 DEF StartInv, ThemesInv, Shown
  <2>2. DefaultTheme \in Shown'
    BY <1>2, <1>4, <1>6 DEF Shown
  <2>3. \A t \in Shown' : t = DefaultTheme
    BY <1>4, <2>1 DEF Shown
  <2> QED BY <2>2, <2>3
<1>8. ThemesInv'
  <2>1. themes'[DefaultTheme].plugin = Host
    BY <1>4
  <2>2. catalogue' = {<<t, themes'[t].plugin>> : t \in Shown'}
    BY <1>1, <1>7, <2>1
  <2>3. \A t \in ThemeIds : themes'[t] # None /\ themes'[t].plugin = Host => t = DefaultTheme
    BY <1>4 DEF StartInv, ThemesInv
  <2> QED BY <1>1, <2>2, <2>3 DEF ThemesInv, Visiting
<1>9. VisitInv'
  BY <1>1 DEF VisitInv, Visiting, Discoveries, outside
<1> QED BY <1>1, <1>5, <1>8, <1>9, GrantsKeep DEF StartInv

LEMMA AddPluginThemeKeeps ==
  ASSUME StartInv, AddPluginTheme
  PROVE  StartInv'
<1>1. PICK i \in Places :
        /\ Turn(i)
        /\ LET theme == bundle[Plugins[i]].theme
           IN IF theme = None \/ Loaded(theme.id) THEN UNCHANGED <<themes, catalogue>>
              ELSE LoadTheme(Plugins[i], theme)
        /\ todo' = todo \ {i}
  BY DEF AddPluginTheme
<1>2. at = "themes" /\ at' = "themes" /\ UNCHANGED <<active, installation, outside>>
  BY DEF AddPluginTheme
<1>3. VisitInv'
  BY <1>1, <1>2 DEF StartInv, VisitInv, Visiting, Discoveries, outside
<1>4. \A p \in PluginIds : GrantsFit(p)'
  BY <1>2, GrantsKeep
<1>5. CASE UNCHANGED <<themes, catalogue>>
  <2>1. StartTypeOK'
    BY <1>1, <1>2, <1>5 DEF StartInv, StartTypeOK, installation, outside
  <2>2. ThemesInv'
    BY <1>2, <1>5, ThemesKeep DEF Visiting
  <2> QED BY <1>3, <1>4, <2>1, <2>2 DEF StartInv
<1>6. CASE LET theme == bundle[Plugins[i]].theme
           IN theme # None /\ ~Loaded(theme.id) /\ LoadTheme(Plugins[i], theme)
  <2>1. PICK p, t, valid :
          /\ p = Plugins[i] /\ t = bundle[p].theme.id /\ valid \in BOOLEAN /\ ~Loaded(t)
          /\ themes' = [themes EXCEPT ![t] = [plugin |-> p, valid |-> valid]]
          /\ catalogue' = catalogue \cup IF valid THEN {<<t, p>>} ELSE {}
    BY <1>6 DEF LoadTheme
  <2>2. p \in PluginIds /\ bundle[p] \in Manifests
    BY <1>1, <1>2, <2>1 DEF StartInv, StartTypeOK, VisitInv, Turn, Discoveries, Present, PluginIds, Installable
  <2>3. t \in ThemeIds /\ [plugin |-> p, valid |-> valid] \in ThemeRows
    BY <1>6, <2>1, <2>2 DEF ThemeIds, ThemeRows
  <2>4. /\ themes'[t] = [plugin |-> p, valid |-> valid] /\ themes' \in Rows
        /\ \A u \in ThemeIds : u # t => themes'[u] = themes[u]
    BY <2>1, <2>3 DEF StartInv, StartTypeOK, Rows
  <2>5. StartTypeOK'
    BY <1>1, <1>2, <2>4 DEF StartInv, StartTypeOK, installation, outside
  <2>6. themes'[t] # None /\ themes'[t].plugin = p /\ themes'[t].valid = valid
    BY <2>3, <2>4, StartupAssumption
  <2>7. /\ catalogue = {<<u, themes[u].plugin>> : u \in Shown} /\ <<DefaultTheme, Host>> \in catalogue
    BY <1>2 DEF StartInv, ThemesInv, Visiting
  <2>8. t \notin Shown
    <3>1. t \in Shown => <<t, themes[t].plugin>> \in catalogue
      BY <2>7
    <3> QED BY <2>1, <3>1 DEF Loaded
  <2>9. Shown' = Shown \cup IF valid THEN {t} ELSE {}
    BY <2>3, <2>4, <2>6, <2>8 DEF Shown
  <2>10. catalogue' = {<<u, themes'[u].plugin>> : u \in Shown'}
    <3>1. \A u \in Shown : themes'[u] = themes[u] /\ u \in Shown'
      BY <2>4, <2>8, <2>9 DEF Shown
    <3>2. \A u \in Shown' : u \in Shown \/ (valid /\ u = t)
      BY <2>9
    <3> QED BY <2>1, <2>6, <2>7, <2>9, <3>1, <3>2
  <2>11. ThemesInv'
    <3>1. p # Host
      BY <2>2, StartupAssumption
    <3>2. \A u \in ThemeIds : themes'[u] # None /\ themes'[u].plugin = Host => u = DefaultTheme
      BY <2>4, <2>6, <3>1 DEF StartInv, ThemesInv
    <3> QED BY <1>2, <2>1, <2>7, <2>10, <3>2 DEF ThemesInv, Visiting
  <2> QED BY <1>3, <1>4, <2>5, <2>11 DEF StartInv
<1> QED BY <1>1, <1>5, <1>6

LEMMA ChooseThemeKeeps ==
  ASSUME StartInv, ChooseTheme
  PROVE  StartInv'
<1>1. /\ at = "themes" /\ at' = "installing" /\ todo' = Discoveries
      /\ UNCHANGED <<themes, catalogue, installation, outside>>
  BY DEF ChooseTheme
<1>2. StartTypeOK'
  BY <1>1 DEF StartInv, StartTypeOK, StartSteps, installation, outside, Discoveries
<1>3. VisitInv'
  BY <1>1 DEF VisitInv, Visiting, Discoveries, outside
<1>4. <<DefaultTheme, Host>> \in catalogue
  BY <1>1 DEF StartInv, ThemesInv, Visiting
<1>5. Loaded(active)'
  BY <1>1, <1>4 DEF ChooseTheme, Loaded
<1>6. ThemesInv'
  BY <1>1, <1>5 DEF StartInv, ThemesInv, Shown, Visiting
<1> QED BY <1>1, <1>2, <1>3, <1>6, GrantsKeep DEF StartInv

LEMMA InstallKeeps ==
  ASSUME StartInv, Install
  PROVE  StartInv'
<1>1. PICK i, p :
        /\ i \in Places /\ p = Plugins[i] /\ Turn(i)
        /\ kinds' = [kinds EXCEPT ![p] = bundle[p].kind]
        /\ first' = IF kinds[p] = None THEN [first EXCEPT ![p] = bundle[p]] ELSE first
        /\ IF kinds[p] = None /\ bundle[p].kind = "builtin"
             THEN at' = "granting" /\ UNCHANGED todo
             ELSE todo' = todo \ {i} /\ UNCHANGED at
  BY DEF Install
<1>2. at = "installing" /\ UNCHANGED <<themes, active, catalogue, grants, cut, outside>>
  BY DEF Install
<1>3. /\ p \in PluginIds /\ bundle[p] \in Manifests /\ bundle[p] # None /\ i \in Discoveries
  BY <1>1, <1>2 DEF StartInv, StartTypeOK, VisitInv, Visiting, Turn, Discoveries, Present, PluginIds, Installable
<1>4. bundle[p].kind \in {"builtin", "external"} /\ bundle[p].kind # None
  BY <1>3, StartupAssumption
<1>5. /\ kinds' \in Kinds /\ kinds'[p] = bundle[p].kind
      /\ \A q \in PluginIds : q # p => kinds'[q] = kinds[q]
  BY <1>1, <1>3, <1>4 DEF StartInv, StartTypeOK, Kinds
<1>6. /\ first' \in Installable
      /\ first'[p] = IF kinds[p] = None THEN bundle[p] ELSE first[p]
      /\ \A q \in PluginIds : q # p => first'[q] = first[q]
  BY <1>1, <1>3 DEF StartInv, StartTypeOK, Installable
<1>7. StartTypeOK'
  BY <1>1, <1>2, <1>5, <1>6 DEF StartInv, StartTypeOK, StartSteps, outside
<1>8. ThemesInv'
  BY <1>1, <1>2, ThemesKeep DEF Visiting
<1>9. VisitInv'
  <2>1. at' \in Visiting /\ todo' \subseteq Discoveries /\ Discoveries' = Discoveries /\ bundle' = bundle
    BY <1>1, <1>2 DEF StartInv, VisitInv, Visiting, Discoveries, outside
  <2>2. at' = "granting" => todo' = todo
    BY <1>1, <1>2
  <2>3. at' = "granting" => \E j \in Places : Turn(j)'
    BY <1>1, <2>2 DEF Turn
  <2>4. ASSUME NEW j \in Discoveries, j \notin todo' PROVE kinds'[Plugins[j]] = bundle[Plugins[j]].kind
    <3>1. Plugins[j] \in PluginIds /\ (Plugins[j] = p \/ j \notin todo)
      BY <1>1, <2>4 DEF Discoveries, PluginIds
    <3> QED BY <1>2, <1>5, <2>4, <3>1 DEF StartInv, VisitInv, Visiting
  <2> QED BY <2>1, <2>3, <2>4 DEF VisitInv, Visiting
<1>10. \A q \in PluginIds : Pending(q)' => q = p /\ kinds[p] = None /\ bundle[p].kind = "builtin"
  <2> SUFFICES ASSUME NEW q \in PluginIds, Pending(q)' PROVE q = p /\ kinds[p] = None /\ bundle[p].kind = "builtin"
    OBVIOUS
  <2>1. todo' = todo /\ kinds[p] = None /\ bundle[p].kind = "builtin"
    BY <1>1, <1>2 DEF Pending
  <2>2. PICK j \in Places : Turn(j) /\ Plugins[j] = q
    BY <2>1 DEF Pending, Turn
  <2> QED BY <1>1, <2>1, <2>2, OneTurn
<1>11. kinds[p] = None /\ bundle[p].kind = "builtin" => Pending(p)'
  BY <1>1 DEF Pending, Turn
<1>12. ASSUME NEW q \in PluginIds PROVE GrantsFit(q)'
  <2>1. GrantsFit(q) /\ ~Pending(q) /\ Own(q)' = Own(q) /\ bundle' = bundle /\ cut' = cut
    BY <1>2 DEF StartInv, Pending, Own, outside
  <2>2. CASE q # p
    BY <1>5, <1>6, <1>10, <2>1, <2>2 DEF GrantsFit, Due
  <2>3. CASE q = p
    BY <1>3, <1>4, <1>5, <1>6, <1>10, <1>11, <2>1, <2>3 DEF GrantsFit, Due
  <2> QED BY <2>2, <2>3
<1> QED BY <1>7, <1>8, <1>9, <1>12 DEF StartInv

LEMMA GrantManifestKeeps ==
  ASSUME StartInv, GrantManifest
  PROVE  StartInv'
<1>1. PICK i, p :
        /\ i \in Places /\ p = Plugins[i] /\ Turn(i)
        /\ grants' = grants \cup Asked(p, bundle[p])
        /\ todo' = todo \ {i}
  BY DEF GrantManifest
<1>2. /\ at = "granting" /\ at' = "installing"
      /\ UNCHANGED <<themes, active, catalogue, kinds, first, cut, outside>>
  BY DEF GrantManifest
<1>3. p \in PluginIds /\ Pending(p) /\ i \in Discoveries
  BY <1>1, <1>2 DEF StartInv, VisitInv, Visiting, Turn, Pending, PluginIds
<1>4. StartTypeOK'
  BY <1>1, <1>2 DEF StartInv, StartTypeOK, StartSteps, outside
<1>5. ThemesInv'
  BY <1>2, ThemesKeep DEF Visiting
<1>6. VisitInv'
  <2>1. todo' \subseteq Discoveries /\ Discoveries' = Discoveries /\ bundle' = bundle
    BY <1>1, <1>2 DEF StartInv, VisitInv, Visiting, Discoveries, outside
  <2>2. ASSUME NEW j \in Discoveries, j \notin todo' PROVE kinds'[Plugins[j]] = bundle[Plugins[j]].kind
    <3>1. CASE j = i
      BY <1>1, <1>2, <1>3, <3>1 DEF StartInv, GrantsFit
    <3>2. CASE j # i
      BY <1>1, <1>2, <2>2, <3>2 DEF StartInv, VisitInv, Visiting
    <3> QED BY <3>1, <3>2
  <2> QED BY <1>2, <2>1, <2>2 DEF VisitInv, Visiting
<1>7. \A q \in PluginIds : Pending(q) <=> q = p
  BY <1>1, <1>3, OneTurn DEF Pending
<1>8. \A q \in PluginIds : ~Pending(q)'
  BY <1>2 DEF Pending
<1>9. ASSUME NEW q \in PluginIds PROVE GrantsFit(q)'
  <2>1. GrantsFit(q) /\ UNCHANGED <<kinds, first, cut, bundle>>
    BY <1>2 DEF StartInv, outside
  <2>2. CASE q # p
    <3>1. Own(q)' = Own(q)
      BY <1>1, <2>2 DEF Own, Asked
    <3>2. Due(q)' = Due(q)
      BY <1>7, <1>8, <2>1, <2>2 DEF Due
    <3> QED BY <1>8, <2>1, <3>1, <3>2 DEF GrantsFit
  <2>3. CASE q = p
    <3>1. /\ bundle[p] # None /\ first[p] = bundle[p] /\ kinds[p] = bundle[p].kind
          /\ first[p].kind = "builtin" /\ p \notin cut
      BY <1>3, <2>1, <2>3 DEF GrantsFit
    <3>2. Own(p) = {}
      BY <1>3, <2>1, <2>3 DEF GrantsFit, Due
    <3>3. bundle[p] \in Manifests
      BY <1>3, <3>1 DEF StartInv, StartTypeOK, Installable
    <3>4. \A g \in Asked(p, bundle[p]) : g[1] = p /\ g # Account(p)
      <4>1. \A a \in bundle[p].permissions : ~(a[1] = "providers:read" /\ a[2] = "provider-account")
        BY <3>3, StartupAssumption
      <4> QED BY <4>1 DEF Asked, Account
    <3>5. Own(p)' = Asked(p, bundle[p])
      BY <1>1, <3>2, <3>4 DEF Own, Account
    <3>6. Due(p)' = Asked(p, bundle[p])
      BY <1>8, <1>3, <2>1, <3>1 DEF Due
    <3> QED BY <1>8, <2>1, <2>3, <3>1, <3>5, <3>6 DEF GrantsFit
  <2> QED BY <2>2, <2>3
<1> QED BY <1>4, <1>5, <1>6, <1>9 DEF StartInv

LEMMA AdaptKeeps ==
  ASSUME StartInv, Adapt
  PROVE  StartInv'
<1>1. /\ at = "installing" /\ todo = {} /\ at' \in {"up", "down"}
      /\ at' = "up" => catalogue' = catalogue
      /\ UNCHANGED <<todo, themes, active, installation, outside>>
  BY DEF Adapt
<1>2. StartTypeOK'
  BY <1>1 DEF StartInv, StartTypeOK, StartSteps, installation, outside
<1>3. VisitInv'
  BY <1>1 DEF StartInv, VisitInv, Visiting, Discoveries, outside, installation
<1>4. ThemesInv'
  BY <1>1 DEF StartInv, ThemesInv, Shown, Loaded, Visiting
<1> QED BY <1>1, <1>2, <1>3, <1>4, GrantsKeep DEF StartInv

LEMMA ActivateKeeps ==
  ASSUME StartInv, NEW t \in ThemeIds, Activate(t)
  PROVE  StartInv'
<1>1. /\ at = "up" /\ at' = "up" /\ UNCHANGED <<todo, themes, catalogue, installation, outside>>
  BY DEF Activate
<1>2. StartTypeOK' /\ VisitInv'
  BY <1>1 DEF StartInv, StartTypeOK, VisitInv, Visiting, Discoveries, installation, outside
<1>3. <<DefaultTheme, Host>> \in catalogue
  BY <1>1 DEF StartInv, ThemesInv, Visiting
<1>4. Loaded(active)'
  BY <1>1, <1>3 DEF Activate, Loaded
<1>5. ThemesInv'
  BY <1>1, <1>4 DEF StartInv, ThemesInv, Shown, Visiting
<1> QED BY <1>1, <1>2, <1>5, GrantsKeep DEF StartInv

\* The grants of Provider accounts.
LEMMA AccountsKeep ==
  ASSUME StartInv, NEW p \in PluginIds, GrantAccount(p) \/ RevokeAccount(p)
  PROVE  StartInv'
<1>1. /\ at = "up" /\ UNCHANGED <<at, todo, themes, active, catalogue, kinds, first, cut, outside>>
      /\ grants' = grants \cup {Account(p)} \/ grants' = grants \ {Account(p)}
  BY DEF GrantAccount, RevokeAccount
<1>2. StartTypeOK' /\ VisitInv'
  BY <1>1 DEF StartInv, StartTypeOK, VisitInv, Visiting, Discoveries, outside
<1>3. ThemesInv'
  BY <1>1, ThemesKeep DEF Visiting
<1>4. ASSUME NEW q \in PluginIds PROVE Own(q)' = Own(q)
  BY <1>1 DEF Own, Account
<1>5. \A q \in PluginIds : GrantsFit(q)'
  BY <1>1, <1>4 DEF StartInv, GrantsFit, Due, Pending, outside
<1> QED BY <1>2, <1>3, <1>5 DEF StartInv

LEMMA DieKeeps ==
  ASSUME StartInv, Die
  PROVE  StartInv'
<1>1. /\ at' = "down" /\ todo' = {} /\ UNCHANGED <<themes, kinds, grants, first, outside>>
      /\ cut' = IF at = "granting" THEN cut \cup {Plugins[i] : i \in {i \in Places : Turn(i)}} ELSE cut
  BY DEF Die
<1>2. \A q \in PluginIds : q \in cut' <=> q \in cut \/ Pending(q)
  BY <1>1 DEF Pending
<1>3. cut' \subseteq PluginIds
  BY <1>1 DEF StartInv, StartTypeOK, PluginIds
<1>4. StartTypeOK'
  BY <1>1, <1>3 DEF StartInv, StartTypeOK, StartSteps, outside
<1>5. ThemesInv'
  BY <1>1 DEF StartInv, ThemesInv, Visiting
<1>6. ASSUME NEW q \in PluginIds PROVE GrantsFit(q)'
  <2>1. GrantsFit(q) /\ ~Pending(q)' /\ Own(q)' = Own(q) /\ UNCHANGED <<first, kinds>>
    BY <1>1 DEF StartInv, Pending, Own
  <2>2. Due(q)' = Due(q)
    BY <1>2, <2>1 DEF Due
  <2>3. q \in cut' => first[q] # None
    BY <1>2, <2>1, StartupAssumption DEF GrantsFit
  <2> QED BY <2>1, <2>2, <2>3 DEF GrantsFit
<1> QED BY <1>1, <1>4, <1>5, <1>6, VisitKeep DEF StartInv, Visiting

LEMMA StartNextInv == StartInv /\ [StartupNext]_startupVars => StartInv'
<1> SUFFICES ASSUME StartInv, [StartupNext]_startupVars PROVE StartInv'
  OBVIOUS
<1>1. CASE UNCHANGED startupVars
  <2>1. UNCHANGED <<bundle, at, todo, kinds, grants, themes, active, catalogue, first, cut>>
    BY <1>1 DEF startupVars
  <2>2. StartTypeOK' /\ VisitInv'
    BY <2>1 DEF StartInv, StartTypeOK, VisitInv, Visiting, Discoveries, Turn
  <2>3. ThemesInv'
    BY <2>1, ThemesKeep DEF Visiting
  <2>4. \A p \in PluginIds : GrantsFit(p)'
    BY <2>1 DEF StartInv, GrantsFit, Own, Due, Pending, Turn
  <2> QED BY <2>2, <2>3, <2>4 DEF StartInv
<1>2. CASE Release \/ Open \/ Migrate \/ DiscoverPlugins
  BY <1>2, ReleaseKeeps, OpenKeeps, MigrateKeeps, DiscoverPluginsKeeps
<1>3. CASE Invalidate \/ AddDefaultTheme \/ AddPluginTheme \/ ChooseTheme
  BY <1>3, InvalidateKeeps, AddDefaultThemeKeeps, AddPluginThemeKeeps, ChooseThemeKeeps
<1>4. CASE Install \/ GrantManifest \/ Adapt \/ Die
  BY <1>4, InstallKeeps, GrantManifestKeeps, AdaptKeeps, DieKeeps
<1>5. ASSUME NEW t \in ThemeIds, Activate(t) PROVE StartInv'
  BY <1>5, ActivateKeeps
<1>6. ASSUME NEW p \in PluginIds, GrantAccount(p) \/ RevokeAccount(p) PROVE StartInv'
  BY <1>6, AccountsKeep
<1> QED BY <1>1, <1>2, <1>3, <1>4, <1>5, <1>6 DEF StartupNext

\* The inductive invariant of the start holds: what has been visited, granted,
\* loaded and cut off at each of its steps (AppState::from_paths).
THEOREM StartInvariant == StartupSpec => []StartInv
<1> QED BY StartInitInv, StartNextInv, PTL DEF StartupSpec

\* What a plugin may do is what it asked for when it was first installed,
\* whatever releases came and wherever starts were cut off (app_state.rs,
\* permissions.rs).
THEOREM GrantsAreAlwaysOfTheFirstInstall == StartupSpec => []GrantsAreOfTheFirstInstall
<1>1. StartInv => GrantsAreOfTheFirstInstall
  <2> SUFFICES ASSUME StartInv, at = "up", NEW p \in PluginIds
               PROVE  /\ bundle[p] # None => kinds[p] = bundle[p].kind
                      /\ Own(p) = IF first[p] = None \/ p \in cut THEN {}
                                  ELSE IF first[p].kind = "builtin" THEN Asked(p, first[p]) ELSE {}
    BY DEF GrantsAreOfTheFirstInstall, Own
  <2>1. bundle[p] # None => \E i \in Discoveries : Plugins[i] = p
    BY DEF StartInv, StartTypeOK, Installable, Discoveries, Present, PluginIds
  <2>2. bundle[p] # None => kinds[p] = bundle[p].kind
    BY <2>1 DEF StartInv, VisitInv
  <2>3. ~Pending(p)
    BY DEF Pending
  <2> QED BY <2>2, <2>3 DEF StartInv, GrantsFit, Due
<1> QED BY <1>1, StartInvariant, PTL

\* The active theme of an application that is up is one it has loaded, and the
\* rows that say that they are valid are those it has loaded (themes.rs).
THEOREM ThemesAreAlwaysLoaded == StartupSpec => []ThemesAreLoaded
<1>1. StartInv => ThemesAreLoaded
  BY DEF StartInv, ThemesInv, Shown, Visiting, ThemesAreLoaded
<1> QED BY <1>1, StartInvariant, PTL
=============================================================================
