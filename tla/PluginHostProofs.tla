--------------------------- MODULE PluginHostProofs ---------------------------
(***************************************************************************)
(* The proofs of PluginHost.  One invariant, HostInv, ties a request to    *)
(* what is kept of it elsewhere: what is left of its dialogs to what the   *)
(* user agreed to, its prompt to the place it has in the brokers, its slot *)
(* to the limiter's count, a cancellation to the calls it stopped, and an  *)
(* intent that was spent to the intents that are gone.                     *)
(***************************************************************************)
EXTENDS PluginHost, FiniteSetTheorems, TLAPS

-----------------------------------------------------------------------------
\* Different places that are kept have different ranks among them, and each
\* rank is somebody's.
LEMMA Ranks ==
  ASSUME NEW n \in Nat, NEW kept \in SUBSET (1..n)
  PROVE  /\ IsFiniteSet(kept) /\ Cardinality(kept) \in Nat
         /\ \A r \in 1..Cardinality(kept) :
              \E i \in kept : Cardinality({j \in kept : j <= i}) = r
         /\ \A i, k \in kept : i # k =>
              Cardinality({j \in kept : j <= i}) # Cardinality({j \in kept : j <= k})
         /\ \A i \in kept : Cardinality({j \in kept : j <= i}) \in 1..Cardinality(kept)
<1> DEFINE Below(i) == {j \in kept : j <= i}
           rank == [i \in kept |-> Cardinality(Below(i))]
<1>1. IsFiniteSet(kept) /\ Cardinality(kept) \in Nat
  <2>1. IsFiniteSet(1..n)
    BY FS_Interval
  <2> QED BY <2>1, FS_Subset, FS_CardinalityType
<1>0. kept \subseteq Nat
  OBVIOUS
<1>2. ASSUME NEW i \in kept
      PROVE  /\ IsFiniteSet(Below(i)) /\ Cardinality(Below(i)) \in Nat
             /\ Cardinality(Below(i)) <= Cardinality(kept)
             /\ Cardinality(Below(i)) # 0
  <2>1. Below(i) \in SUBSET kept /\ i \in Below(i)
    BY <1>0
  <2> QED BY <2>1, <1>1, FS_Subset, FS_CardinalityType, FS_EmptySet
<1>3. ASSUME NEW i \in kept, NEW k \in kept, i < k
      PROVE  Cardinality(Below(i)) # Cardinality(Below(k))
  <2>1. \A j \in kept : j <= i => j <= k
    BY <1>3, <1>0
  <2>2. k <= k /\ ~(k <= i)
    BY <1>3, <1>0
  <2>3. Below(i) \in SUBSET Below(k) /\ k \in Below(k) /\ k \notin Below(i)
    BY <2>1, <2>2
  <2> HIDE DEF Below
  <2> QED BY <2>3, <1>2, FS_Subset
<1>4. ASSUME NEW i \in kept, NEW k \in kept, i # k
      PROVE  Cardinality(Below(i)) # Cardinality(Below(k))
  <2>1. i < k \/ k < i
    BY <1>4, <1>0
  <2> HIDE DEF Below
  <2> QED BY <2>1, <1>3
<1> HIDE DEF Below
<1>5. \A i \in kept : Cardinality(Below(i)) \in 1..Cardinality(kept)
  BY <1>1, <1>2
<1>6. rank \in Injection(kept, 1..Cardinality(kept))
  BY <1>4, <1>5 DEF Injection, IsInjective
<1>7. Cardinality(1..Cardinality(kept)) = Cardinality(kept) /\ IsFiniteSet(1..Cardinality(kept))
  BY <1>1, FS_Interval
<1>8. rank \in Surjection(kept, 1..Cardinality(kept))
  BY <1>6, <1>7, FS_Injection
<1>9. ASSUME NEW r \in 1..Cardinality(kept) PROVE \E i \in kept : Cardinality(Below(i)) = r
  BY <1>8 DEF Surjection
<1> QED BY <1>1, <1>4, <1>5, <1>9 DEF Below

\* A function on the numbers up to some number is a sequence.
LEMMA NumberedSeq ==
  ASSUME NEW S, NEW m \in Nat, NEW f \in [1..m -> S]
  PROVE  f \in Seq(S) /\ Len(f) = m
OBVIOUS

\* Without keeps what it should, once for every place.
LEMMA WithoutFacts ==
  ASSUME NEW S, NEW q \in Seq(S), NEW gone
  PROVE  /\ Without(q, gone) \in Seq(S)
         /\ Range(Without(q, gone)) = Range(q) \ gone
         /\ IsInjective(q) => IsInjective(Without(q, gone))
<1> DEFINE kept == {i \in DOMAIN q : q[i] \notin gone}
           Rank(i) == Cardinality({j \in kept : j <= i})
           place == [n \in 1..Cardinality(kept) |-> CHOOSE i \in kept : Rank(i) = n]
<1>1. kept \in SUBSET (1..Len(q)) /\ Len(q) \in Nat
  OBVIOUS
<1>2. /\ Cardinality(kept) \in Nat
      /\ \A r \in 1..Cardinality(kept) : \E i \in kept : Rank(i) = r
      /\ \A i, k \in kept : i # k => Rank(i) # Rank(k)
      /\ \A i \in kept : Rank(i) \in 1..Cardinality(kept)
  BY <1>1, Ranks
<1>5. Without(q, gone) = [n \in 1..Cardinality(kept) |-> q[place[n]]]
  BY DEF Without
<1>6. \A i \in kept : q[i] \in S
  OBVIOUS
<1>7. Range(q) \ gone = {q[i] : i \in kept}
  BY DEF Range
<1>11. \A i \in kept : i \in DOMAIN q
  OBVIOUS
<1> HIDE DEF Rank, kept
<1>3. ASSUME NEW n \in 1..Cardinality(kept) PROVE place[n] \in kept /\ Rank(place[n]) = n
  BY <1>2
<1>d. DOMAIN place = 1..Cardinality(kept)
  OBVIOUS
<1> HIDE DEF place
<1>4. \A i \in kept : \E n \in 1..Cardinality(kept) : place[n] = i
  <2> SUFFICES ASSUME NEW i \in kept PROVE \E n \in 1..Cardinality(kept) : place[n] = i
    OBVIOUS
  <2>2. place[Rank(i)] \in kept /\ Rank(place[Rank(i)]) = Rank(i)
    BY <1>2, <1>3
  <2> QED BY <2>2, <1>2
<1>8. Without(q, gone) \in Seq(S)
  <2>1. [n \in 1..Cardinality(kept) |-> q[place[n]]] \in [1..Cardinality(kept) -> S]
    BY <1>3, <1>6
  <2> QED BY <2>1, <1>2, <1>5, NumberedSeq
<1>9. Range(Without(q, gone)) = Range(q) \ gone
  <2>1. Range(Without(q, gone)) = {q[place[n]] : n \in 1..Cardinality(kept)}
    BY <1>5 DEF Range
  <2>2. {q[place[n]] : n \in 1..Cardinality(kept)} = {q[i] : i \in kept}
    BY <1>3, <1>4
  <2> QED BY <2>1, <2>2, <1>7
<1>10. ASSUME IsInjective(q) PROVE IsInjective(Without(q, gone))
  <2> SUFFICES ASSUME NEW m \in 1..Cardinality(kept), NEW n \in 1..Cardinality(kept),
                      q[place[m]] = q[place[n]]
               PROVE  m = n
    BY <1>5 DEF IsInjective
  <2>1. place[m] = place[n]
    BY <1>3, <1>10, <1>11 DEF IsInjective
  <2> QED BY <2>1, <1>3
<1> QED BY <1>8, <1>9, <1>10
-----------------------------------------------------------------------------
\* The ids of prompts.
PromptIds == Calls \X Nat

Broker == [owner : PromptIds \cup {None}, shown : PromptIds \cup {None},
           queue : Seq(PromptIds), form : PromptIds \cup {None}]

\* A broker whose confirmations are those in conf and whose form is in forms:
\* the gate belongs to the one prompt that is open, nobody waits while none is,
\* and each confirmation is in one place.
BrokerOK(b, conf, forms) ==
  /\ b \in Broker
  /\ IsInjective(b.queue)
  /\ b.shown \notin Range(b.queue)
  /\ b.queue # <<>> => b.shown # None
  /\ b.shown = None \/ b.form = None
  /\ b.owner = IF b.shown # None THEN b.shown ELSE b.form
  /\ conf = ({b.shown} \ {None}) \cup Range(b.queue)
  /\ forms = {b.form} \ {None}

\* The fields of a broker after what its operators assign.
LEMMA BrokerFields ==
  ASSUME NEW b \in Broker, NEW id \in PromptIds \cup {None}
  PROVE  /\ [b EXCEPT !.owner = id, !.shown = id] =
              [owner |-> id, shown |-> id, queue |-> b.queue, form |-> b.form]
         /\ [b EXCEPT !.owner = id, !.form = id] =
              [owner |-> id, shown |-> b.shown, queue |-> b.queue, form |-> id]
<1> DEFINE s == [b EXCEPT !.owner = id, !.shown = id]
           f == [b EXCEPT !.owner = id, !.form = id]
<1>1. s \in Broker /\ f \in Broker
  BY DEF Broker
<1>2. s.owner = id /\ s.shown = id /\ s.queue = b.queue /\ s.form = b.form
  BY DEF Broker
<1>3. f.owner = id /\ f.shown = b.shown /\ f.queue = b.queue /\ f.form = id
  BY DEF Broker
<1> HIDE DEF s, f
<1>4. s = [owner |-> id, shown |-> id, queue |-> b.queue, form |-> b.form]
  BY <1>1, <1>2 DEF Broker
<1>5. f = [owner |-> id, shown |-> b.shown, queue |-> b.queue, form |-> id]
  BY <1>1, <1>3 DEF Broker
<1> QED BY <1>4, <1>5 DEF s, f

\* Sequences, by their elements.
LEMMA SequenceFacts ==
  ASSUME NEW S, NEW q \in Seq(S)
  PROVE  /\ Range(q) \subseteq S
         /\ q = <<>> <=> Range(q) = {}
         /\ \A x \in S : /\ Append(q, x) \in Seq(S)
                         /\ Append(q, x) # <<>>
                         /\ Range(Append(q, x)) = Range(q) \cup {x}
                         /\ IsInjective(q) /\ x \notin Range(q) => IsInjective(Append(q, x))
         /\ q # <<>> => /\ Head(q) \in S /\ Tail(q) \in Seq(S)
                        /\ Range(q) = Range(Tail(q)) \cup {Head(q)}
                        /\ IsInjective(q) => /\ IsInjective(Tail(q))
                                             /\ Head(q) \notin Range(Tail(q))
<1>1. Range(q) \subseteq S
  BY DEF Range
<1>2. q = <<>> <=> Range(q) = {}
  <2>1. q # <<>> => 1 \in DOMAIN q
    OBVIOUS
  <2> QED BY <2>1 DEF Range
<1>3. ASSUME NEW x \in S
      PROVE  /\ Append(q, x) \in Seq(S)
             /\ Append(q, x) # <<>>
             /\ Range(Append(q, x)) = Range(q) \cup {x}
             /\ IsInjective(q) /\ x \notin Range(q) => IsInjective(Append(q, x))
  <2>1. /\ Append(q, x) \in Seq(S) /\ Append(q, x) # <<>>
        /\ DOMAIN q = 1..Len(q) /\ Len(q) \in Nat
        /\ DOMAIN Append(q, x) = 1..(Len(q) + 1)
        /\ \A n \in DOMAIN q : Append(q, x)[n] = q[n]
        /\ Append(q, x)[Len(q) + 1] = x
    OBVIOUS
  <2>2. \A n \in DOMAIN Append(q, x) : n \in DOMAIN q \/ n = Len(q) + 1
    BY <2>1
  <2>3. Len(q) + 1 \in DOMAIN Append(q, x) /\ \A n \in DOMAIN q : n \in DOMAIN Append(q, x)
    BY <2>1
  <2>4. Range(Append(q, x)) = Range(q) \cup {x}
    BY <2>1, <2>2, <2>3 DEF Range
  <2>5. ASSUME IsInjective(q), x \notin Range(q) PROVE IsInjective(Append(q, x))
    BY <2>1, <2>2, <2>5 DEF IsInjective, Range
  <2> QED BY <2>1, <2>4, <2>5
<1>4. ASSUME q # <<>>
      PROVE  /\ Head(q) \in S /\ Tail(q) \in Seq(S)
             /\ Range(q) = Range(Tail(q)) \cup {Head(q)}
             /\ IsInjective(q) => /\ IsInjective(Tail(q))
                                  /\ Head(q) \notin Range(Tail(q))
  <2>1. /\ Head(q) \in S /\ Tail(q) \in Seq(S)
        /\ Head(q) = q[1] /\ 1 \in DOMAIN q
        /\ DOMAIN q = 1..Len(q) /\ Len(q) \in Nat
        /\ DOMAIN Tail(q) = 1..(Len(q) - 1)
        /\ \A n \in DOMAIN Tail(q) : Tail(q)[n] = q[n + 1]
    BY <1>4
  <2>2. \A n \in DOMAIN Tail(q) : n + 1 \in DOMAIN q /\ n + 1 # 1
    BY <2>1
  <2>3. \A n \in DOMAIN q : n = 1 \/ (n - 1 \in DOMAIN Tail(q) /\ Tail(q)[n - 1] = q[n])
    BY <2>1
  <2>4. Range(q) = Range(Tail(q)) \cup {Head(q)}
    <3>1. ASSUME NEW y \in Range(q) PROVE y \in Range(Tail(q)) \cup {Head(q)}
      <4>1. PICK n \in DOMAIN q : q[n] = y
        BY DEF Range
      <4> QED BY <4>1, <2>1, <2>3 DEF Range
    <3>2. ASSUME NEW y \in Range(Tail(q)) PROVE y \in Range(q)
      <4>1. PICK n \in DOMAIN Tail(q) : Tail(q)[n] = y
        BY DEF Range
      <4> QED BY <4>1, <2>1, <2>2 DEF Range
    <3>3. Head(q) \in Range(q)
      BY <2>1 DEF Range
    <3> QED BY <3>1, <3>2, <3>3
  <2>5. ASSUME IsInjective(q) PROVE IsInjective(Tail(q)) /\ Head(q) \notin Range(Tail(q))
    <3>1. \A m, n \in DOMAIN Tail(q) : m + 1 = n + 1 => m = n
      BY <2>1
    <3> QED BY <2>1, <2>2, <2>5, <3>1 DEF IsInjective, Range
  <2> QED BY <2>1, <2>4, <2>5
<1> QED BY <1>1, <1>2, <1>3, <1>4

\* confirm: the new one is shown if nobody waits, and waits otherwise.
LEMMA EnqueueOK ==
  ASSUME NEW b, NEW conf, BrokerOK(b, conf, {}), NEW id \in PromptIds, id \notin conf
  PROVE  BrokerOK(Enqueue(b, id), conf \cup {id}, {})
<1>0. id # None /\ b.form = None
  BY PluginHostAssumption DEF PromptIds, BrokerOK, Broker
<1>1. CASE b.shown # None \/ b.queue # <<>>
  <2>1. b.shown # None
    BY <1>1 DEF BrokerOK, Broker
  <2>2. Enqueue(b, id) = [owner |-> b.owner, shown |-> b.shown,
                          queue |-> Append(b.queue, id), form |-> b.form]
    BY <1>1 DEF Enqueue, BrokerOK, Broker
  <2>3. id \notin Range(b.queue) /\ id # b.shown
    BY <2>1 DEF BrokerOK, Broker
  <2>4. /\ Append(b.queue, id) \in Seq(PromptIds)
        /\ Range(Append(b.queue, id)) = Range(b.queue) \cup {id}
        /\ IsInjective(Append(b.queue, id))
    BY <2>3, SequenceFacts DEF BrokerOK, Broker
  <2> QED BY <2>1, <2>2, <2>3, <2>4 DEF BrokerOK, Broker
<1>2. CASE b.shown = None /\ b.queue = <<>>
  <2>0. Enqueue(b, id) = [b EXCEPT !.owner = id, !.shown = id]
    BY <1>2 DEF Enqueue, Activate
  <2>1. Enqueue(b, id) = [owner |-> id, shown |-> id, queue |-> <<>>, form |-> None]
    BY <1>0, <1>2, <2>0, BrokerFields DEF BrokerOK
  <2>2. Range(<<>>) = {} /\ IsInjective(<<>>) /\ <<>> \in Seq(PromptIds)
    BY DEF Range, IsInjective
  <2>3. conf = {}
    BY <1>2, <2>2 DEF BrokerOK, Broker
  <2> QED BY <1>0, <2>1, <2>2, <2>3 DEF BrokerOK, Broker
<1> QED BY <1>1, <1>2

\* settle: the next one, if there is one, is shown.
LEMMA SettleOK ==
  ASSUME NEW b, NEW conf, BrokerOK(b, conf, {}), b.shown # None
  PROVE  BrokerOK(Settle(b), conf \ {b.shown}, {})
<1>0. b.form = None
  BY DEF BrokerOK, Broker
<1> DEFINE bare == [b EXCEPT !.owner = None, !.shown = None]
<1>1. bare = [owner |-> None, shown |-> None, queue |-> b.queue, form |-> None]
  BY <1>0, BrokerFields DEF BrokerOK
<1>2. conf \ {b.shown} = Range(b.queue)
  BY DEF BrokerOK, Broker
<1>3. CASE b.queue = <<>>
  <2>1. Settle(b) = [owner |-> None, shown |-> None, queue |-> <<>>, form |-> None]
    BY <1>1, <1>3 DEF Settle, Advance
  <2>2. Range(<<>>) = {} /\ IsInjective(<<>>) /\ <<>> \in Seq(PromptIds)
    BY DEF Range, IsInjective
  <2> QED BY <1>2, <1>3, <2>1, <2>2 DEF BrokerOK, Broker
<1>4. CASE b.queue # <<>>
  <2>1. Settle(b) = [owner |-> Head(b.queue), shown |-> Head(b.queue),
                     queue |-> Tail(b.queue), form |-> None]
    BY <1>1, <1>4 DEF Settle, Advance, Activate
  <2>2. /\ Head(b.queue) \in PromptIds /\ Tail(b.queue) \in Seq(PromptIds)
        /\ Range(b.queue) = Range(Tail(b.queue)) \cup {Head(b.queue)}
        /\ IsInjective(Tail(b.queue))
        /\ Head(b.queue) \notin Range(Tail(b.queue))
    BY <1>4, SequenceFacts DEF BrokerOK, Broker
  <2>3. Head(b.queue) # None
    BY <2>2, PluginHostAssumption DEF PromptIds
  <2> QED BY <1>2, <2>1, <2>2, <2>3 DEF BrokerOK, Broker
<1> QED BY <1>3, <1>4

\* cancelOperation: those that are withdrawn are gone, wherever they were.
LEMMA WithdrawOK ==
  ASSUME NEW b, NEW conf, NEW forms, BrokerOK(b, conf, forms),
         NEW ids \in SUBSET PromptIds
  PROVE  BrokerOK(Withdraw(b, ids), conf \ ids, forms)
<1> DEFINE rest == [b EXCEPT !.queue = Without(b.queue, ids)]
<1>0. None \notin PromptIds
  BY PluginHostAssumption DEF PromptIds
<1>1. rest = [owner |-> b.owner, shown |-> b.shown, queue |-> Without(b.queue, ids),
              form |-> b.form]
  BY DEF BrokerOK, Broker
<1>2. /\ Without(b.queue, ids) \in Seq(PromptIds)
      /\ Range(Without(b.queue, ids)) = Range(b.queue) \ ids
      /\ IsInjective(Without(b.queue, ids))
  BY WithoutFacts DEF BrokerOK, Broker
<1>3. Without(b.queue, ids) # <<>> => b.queue # <<>>
  BY <1>2, SequenceFacts DEF BrokerOK, Broker
<1>4. BrokerOK(rest, conf \ (ids \ {b.shown}), forms)
  BY <1>0, <1>1, <1>2, <1>3 DEF BrokerOK, Broker
<1>5. rest.shown = b.shown /\ rest.form = b.form
  BY <1>1
<1> HIDE DEF rest
<1>6. CASE b.shown \in ids
  <2>1. b.shown # None /\ forms = {}
    BY <1>0, <1>6 DEF BrokerOK, Broker
  <2>2. BrokerOK(Settle(rest), (conf \ (ids \ {b.shown})) \ {b.shown}, {})
    BY <1>4, <1>5, <2>1, SettleOK
  <2>3. (conf \ (ids \ {b.shown})) \ {b.shown} = conf \ ids
    BY <1>6
  <2>4. Withdraw(b, ids) = Settle(rest)
    BY <1>6 DEF Withdraw, rest
  <2> QED BY <2>1, <2>2, <2>3, <2>4
<1>7. CASE b.shown \notin ids
  <2>1. Withdraw(b, ids) = rest
    BY <1>7 DEF Withdraw, rest
  <2>2. conf \ (ids \ {b.shown}) = conf \ ids
    BY <1>7
  <2> QED BY <1>4, <2>1, <2>2
<1> QED BY <1>6, <1>7

\* A form is opened if nothing is open, and then nothing waits either.
LEMMA OpenFormOK ==
  ASSUME NEW b, NEW conf, NEW forms, BrokerOK(b, conf, forms), b.owner = None,
         NEW id \in PromptIds
  PROVE  conf = {} /\ forms = {} /\ BrokerOK(OpenForm(b, id), {}, {id})
<1>1. b.shown = None /\ b.form = None /\ b.queue = <<>> /\ id # None
  BY PluginHostAssumption DEF BrokerOK, Broker, PromptIds
<1>2. Range(<<>>) = {} /\ IsInjective(<<>>) /\ <<>> \in Seq(PromptIds)
  BY DEF Range, IsInjective
<1>3. OpenForm(b, id) = [owner |-> id, shown |-> None, queue |-> <<>>, form |-> id]
  BY <1>1, BrokerFields DEF BrokerOK, OpenForm
<1> QED BY <1>1, <1>2, <1>3 DEF BrokerOK, Broker

\* When a form is closed nothing else is open.
LEMMA CloseFormOK ==
  ASSUME NEW b, NEW conf, NEW forms, BrokerOK(b, conf, forms), b.form # None
  PROVE  conf = {} /\ BrokerOK(CloseForm(b), {}, {})
<1>1. b.shown = None /\ b.queue = <<>>
  BY DEF BrokerOK, Broker
<1>2. Range(<<>>) = {} /\ IsInjective(<<>>) /\ <<>> \in Seq(PromptIds)
  BY DEF Range, IsInjective
<1>3. CloseForm(b) = [owner |-> None, shown |-> None, queue |-> <<>>, form |-> None]
  BY <1>1, BrokerFields DEF BrokerOK, CloseForm
<1> QED BY <1>1, <1>2, <1>3 DEF BrokerOK, Broker
\* The dialogs go: nobody waits for the user any more, and the gate is free.
LEMMA RejectAllOK ==
  ASSUME NEW b, NEW conf, NEW forms, BrokerOK(b, conf, forms), b.form = None
  PROVE  BrokerOK(RejectAll(b), {}, {})
<1>1. Range(<<>>) = {} /\ IsInjective(<<>>) /\ <<>> \in Seq(PromptIds)
  BY DEF Range, IsInjective
<1>2. RejectAll(b) \in Broker
  BY <1>1 DEF BrokerOK, Broker, RejectAll
<1>3. /\ RejectAll(b).owner = None /\ RejectAll(b).shown = None
      /\ RejectAll(b).queue = <<>> /\ RejectAll(b).form = None
  BY DEF BrokerOK, Broker, RejectAll
<1> QED BY <1>1, <1>2, <1>3 DEF BrokerOK

-----------------------------------------------------------------------------
\* The inductive invariant.  The types of the variables its other parts speak
\* of: the calls, what is remembered, the intents, the frame and its navigation.
Steps == {"idle", "checking", "listing", "asking", "choosing", "sent", "working", "running",
          "returned", "done"}

Core == {"sent", "working", "running", "returned"}

Results == {"ok", "failed", "canceled", "refused", "busy", "limited", "denied", "declined", None}

Dialogs == {"sourceTrust", "network", "replaceConfig"}

Call == [at : Steps, plugin : Plugins \cup {None}, method : (DOMAIN Route) \cup {None},
         id : Ids \cup {None}, intent : Intents \cup {None}, next : Nat,
         dialogs : Seq(Dialogs), result : Results]

FrameOK(f) ==
  /\ f \in [plugin : Plugins \cup {None}, route : Intents \cup {None}, ready : BOOLEAN]
  /\ f.ready => f.plugin \in Plugins

TypeOK ==
  /\ call \in [Calls -> Call]
  /\ remembered \in Seq(Plugins \X Ids)
  /\ stopped \subseteq Calls
  /\ intents \in [Intents -> {"none", "live", "expired", "gone"}]
  /\ FrameOK(frame)
  /\ navigation \in Seq(Intents \cup {None})

Active(k) == k.at \notin {"idle", "done"}

\* What is true of a call at each of its steps, given the prompts agreed to: a
\* dialog that is not to be asked any more has been agreed to.
Fits(c, k, agreed) ==
  /\ k.at = "idle" => k = Idle
  /\ Active(k) =>
       /\ k.plugin \in Plugins /\ k.method \in DOMAIN Route
       /\ k.method \in Operations \cup {"repositories.cancelNetworkOperation"} => k.id \in Ids
  /\ k.at \in {"checking", "listing"} => k.dialogs = <<>>
  /\ k.at = "listing" => k.method = "providers.requestReadAccess"
  /\ k.at = "asking" => (k.method \in Forms <=> k.dialogs = <<>>)
  /\ k.at = "choosing" => k.method = "repositories.clone"
  /\ k.at \in {"choosing"} \cup Core => k.dialogs = <<>>
  /\ k.at \in {"asking", "choosing"} \cup Core /\ k.method \in Operations =>
       \A dialogs \in Confirmations(k.method) : \A n \in DOMAIN dialogs :
         n > Len(k.dialogs) => <<c, n>> \in agreed
  /\ k.at \in Core /\ k.method \in Forms => <<c, 0>> \in agreed
  /\ k.at \in {"working", "running"} /\ k.method = "repositories.clone" => IntentFits(k)

CallsFit == \A c \in Calls : Fits(c, call[c], yes)

\* The calls that were made are finitely many.
Started(f) == {c \in Calls : f[c] # Idle}

\* A stopped call is over, or its operation is one the broker remembers.
Knows(memory, k) == k.id # None /\ <<k.plugin, k.id>> \in Range(memory)

Stays(k, memory) ==
  \/ k.at = "done"
  \/ k.at \in {"checking", "asking", "choosing"} /\ k.method \in Operations /\ Knows(memory, k)

StoppedStay == \A c \in stopped : Stays(call[c], remembered)

\* The calls that wait for a confirmation, and for a form; their prompts are
\* those of the brokers, and not too many.
ConfCalls(f) == {c \in Calls : f[c].at = "asking" /\ f[c].dialogs # <<>>}
FormCalls(f) == {c \in Calls : f[c].at = "asking" /\ f[c].dialogs = <<>>}

IdsOf(f, S) == {PromptId(c, f[c]) : c \in S}
ConfIds(f) == IdsOf(f, ConfCalls(f))
FormIds(f) == IdsOf(f, FormCalls(f))

Within(f) ==
  /\ Cardinality(ConfCalls(f)) <= MaxPending
  /\ \A p \in Plugins : Cardinality({c \in ConfCalls(f) : f[c].plugin = p}) <= MaxPerPlugin

Prompted(b, f) == BrokerOK(b, ConfIds(f), FormIds(f))

PromptsFit == Prompted(prompts, call) /\ Within(call)

\* The calls that take one of a plugin's slots.
Taking(f, p) == {c \in Calls : Active(f[c]) /\ f[c].plugin = p /\ Limited(f[c])}

SlotsFit ==
  /\ slots = [p \in Plugins |-> Cardinality(Taking(call, p))]
  /\ \A p \in Plugins : Cardinality(Taking(call, p)) <= NetworkLimit

\* An intent that was spent is gone, so that nobody spends it again.
SpentFit ==
  /\ \A s \in spent : /\ s[4] = "live" /\ s[2] = GitClient /\ <<s[1], 1>> \in yes
                      /\ s[3] \in Intents /\ intents[s[3]] = "gone"
  /\ \A s, t \in spent : s[3] = t[3] => s = t

HostInv ==
  /\ TypeOK /\ CallsFit /\ IsFiniteSet(Started(call))
  /\ StoppedStay /\ PromptsFit /\ SlotsFit /\ SpentFit
-----------------------------------------------------------------------------
\* No two calls have the same prompt.
LEMMA PromptIdFacts ==
  ASSUME NEW c \in Calls, NEW k \in Call
  PROVE  /\ PromptId(c, k) \in PromptIds /\ PromptId(c, k) # None
         /\ PromptId(c, k)[1] = c
         /\ \A d \in Calls, l \in Call : PromptId(c, k) = PromptId(d, l) => c = d
<1>1. Len(k.dialogs) \in Nat
  BY DEF Call
<1>2. PromptId(c, k) \in PromptIds
  BY <1>1 DEF PromptId, PromptIds
<1>3. PromptId(c, k)[1] = c
  BY DEF PromptId
<1>4. \A d \in Calls, l \in Call : PromptId(c, k) = PromptId(d, l) => c = d
  BY DEF PromptId
<1> QED BY <1>2, <1>3, <1>4, PluginHostAssumption DEF PromptIds

\* There are as many prompts as there are calls that have one.
LEMMA CardIds ==
  ASSUME NEW f \in [Calls -> Call], NEW S \in SUBSET Calls, IsFiniteSet(S)
  PROVE  Cardinality(IdsOf(f, S)) = Cardinality(S)
<1> DEFINE g == [c \in S |-> PromptId(c, f[c])]
<1>1. g \in Bijection(S, IdsOf(f, S))
  BY PromptIdFacts DEF IdsOf, Bijection, Injection, Surjection, IsInjective
<1>2. ExistsBijection(S, IdsOf(f, S))
  BY <1>1 DEF ExistsBijection
<1> QED BY <1>2, FS_Bijection

\* One call goes on as k.
Changes(f, g, c, k) ==
  /\ f \in [Calls -> Call] /\ c \in Calls /\ k \in Call
  /\ g = [f EXCEPT ![c] = k]

\* When one call changes the others keep their prompts.
LEMMA OneCall ==
  ASSUME NEW f, NEW c, NEW k, NEW g, Changes(f, g, c, k)
  PROVE  /\ g \in [Calls -> Call] /\ g[c] = k
         /\ \A d \in Calls : d # c => g[d] = f[d]
         /\ k.at # "asking" => /\ ConfCalls(g) = ConfCalls(f) \ {c}
                               /\ FormCalls(g) = FormCalls(f) \ {c}
         /\ k.at = "asking" /\ k.dialogs # <<>> =>
              /\ ConfCalls(g) = (ConfCalls(f) \ {c}) \cup {c}
              /\ FormCalls(g) = FormCalls(f) \ {c}
         /\ k.at = "asking" /\ k.dialogs = <<>> =>
              /\ ConfCalls(g) = ConfCalls(f) \ {c}
              /\ FormCalls(g) = (FormCalls(f) \ {c}) \cup {c}
<1>1. /\ g \in [Calls -> Call] /\ g[c] = k
      /\ \A d \in Calls : d # c => g[d] = f[d]
  BY DEF Changes
<1> QED BY <1>1 DEF Changes, ConfCalls, FormCalls

LEMMA OneIds ==
  ASSUME NEW f, NEW c, NEW k, NEW g, Changes(f, g, c, k)
  PROVE  /\ k.at # "asking" => /\ ConfIds(g) = ConfIds(f) \ {PromptId(c, f[c])}
                               /\ FormIds(g) = FormIds(f) \ {PromptId(c, f[c])}
         /\ k.at = "asking" /\ k.dialogs # <<>> =>
              /\ ConfIds(g) = (ConfIds(f) \ {PromptId(c, f[c])}) \cup {PromptId(c, k)}
              /\ FormIds(g) = FormIds(f) \ {PromptId(c, f[c])}
         /\ k.at = "asking" /\ k.dialogs = <<>> =>
              /\ ConfIds(g) = ConfIds(f) \ {PromptId(c, f[c])}
              /\ FormIds(g) = (FormIds(f) \ {PromptId(c, f[c])}) \cup {PromptId(c, k)}
<1>1. g \in [Calls -> Call] /\ g[c] = k /\ \A d \in Calls : d # c => g[d] = f[d]
  BY OneCall
<1>0. f \in [Calls -> Call] /\ c \in Calls /\ k \in Call
  BY DEF Changes
<1>2. ASSUME NEW S \in SUBSET Calls, NEW T
      PROVE  /\ T = S \ {c} => IdsOf(g, T) = IdsOf(f, S) \ {PromptId(c, f[c])}
             /\ T = (S \ {c}) \cup {c} =>
                  IdsOf(g, T) = (IdsOf(f, S) \ {PromptId(c, f[c])}) \cup {PromptId(c, k)}
  <2>2. IdsOf(g, S \ {c}) = IdsOf(f, S \ {c})
    BY <1>1 DEF IdsOf
  <2>3. IdsOf(f, S \ {c}) = IdsOf(f, S) \ {PromptId(c, f[c])}
    BY <1>0, PromptIdFacts DEF IdsOf
  <2>4. IdsOf(g, (S \ {c}) \cup {c}) = IdsOf(g, S \ {c}) \cup {PromptId(c, k)}
    BY <1>1 DEF IdsOf
  <2> QED BY <2>2, <2>3, <2>4
<1>3. ConfCalls(f) \in SUBSET Calls /\ FormCalls(f) \in SUBSET Calls
  BY DEF ConfCalls, FormCalls
<1>4. CASE k.at # "asking"
  <2>1. ConfCalls(g) = ConfCalls(f) \ {c} /\ FormCalls(g) = FormCalls(f) \ {c}
    BY <1>4, OneCall
  <2> QED BY <1>2, <1>3, <1>4, <2>1 DEF ConfIds, FormIds
<1>5. CASE k.at = "asking" /\ k.dialogs # <<>>
  <2>1. ConfCalls(g) = (ConfCalls(f) \ {c}) \cup {c} /\ FormCalls(g) = FormCalls(f) \ {c}
    BY <1>5, OneCall
  <2> QED BY <1>2, <1>3, <1>5, <2>1 DEF ConfIds, FormIds
<1>6. CASE k.at = "asking" /\ k.dialogs = <<>>
  <2>1. ConfCalls(g) = ConfCalls(f) \ {c} /\ FormCalls(g) = (FormCalls(f) \ {c}) \cup {c}
    BY <1>6, OneCall
  <2> QED BY <1>2, <1>3, <1>6, <2>1 DEF ConfIds, FormIds
<1> QED BY <1>4, <1>5, <1>6

\* A call that leaves a prompt, or has none, makes the brokers no fuller.
LEMMA WithinLess ==
  ASSUME NEW f \in [Calls -> Call], NEW g \in [Calls -> Call], IsFiniteSet(Started(f)),
         Within(f), ConfCalls(g) \subseteq ConfCalls(f),
         \A c \in ConfCalls(g) : g[c].plugin = f[c].plugin
  PROVE  Within(g)
<1>0. MaxPending \in Nat /\ MaxPerPlugin \in Nat
  BY PluginHostAssumption
<1>1. ConfCalls(f) \in SUBSET Started(f)
  BY DEF ConfCalls, Started, Idle
<1>2. IsFiniteSet(ConfCalls(f))
  BY <1>1, FS_Subset
<1>3. ASSUME NEW S \in SUBSET ConfCalls(f), NEW T \in SUBSET S, NEW m \in Nat,
             Cardinality(S) <= m
      PROVE  Cardinality(T) <= m
  <2>1. IsFiniteSet(S)
    BY <1>2, FS_Subset
  <2>2. IsFiniteSet(T) /\ Cardinality(T) <= Cardinality(S)
    BY <2>1, FS_Subset
  <2> QED BY <2>1, <2>2, <1>3, FS_CardinalityType
<1>4. Cardinality(ConfCalls(g)) <= MaxPending
  BY <1>0, <1>3 DEF Within
<1>5. ASSUME NEW p \in Plugins
      PROVE  Cardinality({c \in ConfCalls(g) : g[c].plugin = p}) <= MaxPerPlugin
  <2>1. {c \in ConfCalls(g) : g[c].plugin = p} \in SUBSET {c \in ConfCalls(f) : f[c].plugin = p}
    OBVIOUS
  <2>2. {c \in ConfCalls(f) : f[c].plugin = p} \in SUBSET ConfCalls(f)
    OBVIOUS
  <2> QED BY <1>0, <1>3, <2>1, <2>2 DEF Within
<1> QED BY <1>4, <1>5 DEF Within

\* A call that neither leaves a prompt nor comes to one.
LEMMA PromptsElsewhere ==
  ASSUME NEW f, NEW c, NEW k, NEW g, Changes(f, g, c, k), NEW b, IsFiniteSet(Started(f)),
         Prompted(b, f), Within(f), f[c].at # "asking", k.at # "asking"
  PROVE  Prompted(b, g) /\ Within(g)
<1>0. f \in [Calls -> Call] /\ c \in Calls /\ k \in Call
  BY DEF Changes
<1>1. /\ g \in [Calls -> Call] /\ \A d \in Calls : d # c => g[d] = f[d]
      /\ ConfCalls(g) = ConfCalls(f) \ {c} /\ FormCalls(g) = FormCalls(f) \ {c}
  BY OneCall
<1>2. c \notin ConfCalls(f) /\ c \notin FormCalls(f)
  BY DEF ConfCalls, FormCalls
<1>3. ConfCalls(g) = ConfCalls(f) /\ FormCalls(g) = FormCalls(f)
  BY <1>1, <1>2
<1>4. /\ ConfIds(g) = ConfIds(f)
      /\ FormIds(g) = FormIds(f)
  <2>1. ConfCalls(g) \subseteq Calls /\ FormCalls(g) \subseteq Calls
    BY DEF ConfCalls, FormCalls
  <2>2. \A d \in ConfCalls(g) \cup FormCalls(g) : g[d] = f[d]
    BY <1>1, <1>2, <1>3, <2>1
  <2> QED BY <1>3, <2>2 DEF IdsOf, ConfIds, FormIds
<1>5. \A d \in ConfCalls(g) : g[d].plugin = f[d].plugin
  <2>1. \A d \in ConfCalls(g) : d \in Calls /\ d # c
    BY <1>1 DEF ConfCalls
  <2> QED BY <1>1, <2>1
<1> QED BY <1>0, <1>1, <1>3, <1>4, <1>5, WithinLess DEF Prompted

\* A confirmation that is settled: the next one is shown.
LEMMA PromptsSettle ==
  ASSUME NEW f, NEW c, NEW k, NEW g, Changes(f, g, c, k), NEW b, IsFiniteSet(Started(f)),
         Prompted(b, f), Within(f), b.shown = PromptId(c, f[c]),
         k.at # "asking"
  PROVE  Prompted(Settle(b), g) /\ Within(g) /\ FormIds(g) = {}
<1>0. f \in [Calls -> Call] /\ c \in Calls /\ k \in Call
  BY DEF Changes
<1>1. /\ g \in [Calls -> Call] /\ \A d \in Calls : d # c => g[d] = f[d]
      /\ ConfCalls(g) = ConfCalls(f) \ {c} /\ FormCalls(g) = FormCalls(f) \ {c}
  BY OneCall
<1>3. b.shown # None
  BY <1>0, PromptIdFacts
<1>4. FormIds(f) = {}
  BY <1>3 DEF Prompted, BrokerOK
<1>5. FormCalls(f) = {}
  BY <1>4 DEF IdsOf, ConfIds, FormIds
<1>6. BrokerOK(Settle(b), ConfIds(f) \ {b.shown}, {})
  BY <1>3, <1>4, SettleOK DEF Prompted
<1>7. ConfIds(g) = ConfIds(f) \ {b.shown}
  BY OneIds
<1>8. FormIds(g) = {}
  BY <1>1, <1>5 DEF IdsOf, ConfIds, FormIds
<1>9. \A d \in ConfCalls(g) : g[d].plugin = f[d].plugin
  <2>1. \A d \in ConfCalls(g) : d \in Calls /\ d # c
    BY <1>1 DEF ConfCalls
  <2> QED BY <1>1, <2>1
<1>10. Within(g)
  BY <1>0, <1>1, <1>9, WithinLess
<1> QED BY <1>6, <1>7, <1>8, <1>10 DEF Prompted

\* There is room for one more confirmation of a plugin.
Room(ids, f, p) ==
  /\ ~(Cardinality(ids) >= MaxPending)
  /\ ~(Cardinality({id \in ids : f[id[1]].plugin = p}) >= MaxPerPlugin)

\* All there is in the broker of the confirmations.
LEMMA AllPrompts ==
  ASSUME NEW b, NEW f, Prompted(b, f)
  PROVE  Prompts(b) \ {None} = ConfIds(f)
<1>1. Range(b.queue) \subseteq PromptIds
  BY SequenceFacts DEF Prompted, BrokerOK, Broker
<1>2. None \notin PromptIds
  BY PluginHostAssumption DEF PromptIds
<1>3. ConfIds(f) = ({b.shown} \ {None}) \cup Range(b.queue)
  BY DEF Prompted, BrokerOK
<1> QED BY <1>1, <1>2, <1>3 DEF Prompts

\* A confirmation that is asked for while there is room.
LEMMA PromptsEnter ==
  ASSUME NEW f, NEW c, NEW k, NEW g, Changes(f, g, c, k), NEW b, IsFiniteSet(Started(f)),
         Prompted(b, f), Within(f), f[c].at # "asking",
         k.at = "asking", k.dialogs # <<>>, b.form = None, Room(ConfIds(f), f, k.plugin)
  PROVE  Prompted(Enqueue(b, PromptId(c, k)), g) /\ Within(g)
<1>0. f \in [Calls -> Call] /\ c \in Calls /\ k \in Call
  BY DEF Changes
<1>1. /\ g \in [Calls -> Call] /\ g[c] = k /\ \A d \in Calls : d # c => g[d] = f[d]
      /\ ConfCalls(g) = (ConfCalls(f) \ {c}) \cup {c}
  BY OneCall
<1>2. c \notin ConfCalls(f) /\ c \notin FormCalls(f) /\ ConfCalls(f) \in SUBSET Calls
      /\ FormCalls(f) \in SUBSET Calls
  BY DEF ConfCalls, FormCalls
<1>3. PromptId(c, k) \notin ConfIds(f) /\ PromptId(c, f[c]) \notin ConfIds(f)
      /\ PromptId(c, k) \in PromptIds
  <2>1. f[c] \in Call /\ \A d \in Calls : f[d] \in Call
    BY <1>0
  <2>2. \A d \in ConfCalls(f) : d \in Calls /\ d # c
    BY <1>2
  <2> QED BY <1>0, <2>1, <2>2, PromptIdFacts DEF ConfIds, IdsOf
<1>4. FormIds(f) = {}
  BY DEF Prompted, BrokerOK
<1>5. ConfIds(g) = ConfIds(f) \cup {PromptId(c, k)} /\ FormIds(g) = {}
  BY <1>3, <1>4, OneIds
<1>6. BrokerOK(Enqueue(b, PromptId(c, k)), ConfIds(f) \cup {PromptId(c, k)}, {})
  BY <1>3, <1>4, EnqueueOK DEF Prompted
<1>8. IsFiniteSet(ConfCalls(f)) /\ Cardinality(ConfCalls(f)) \in Nat
  <2>1. ConfCalls(f) \in SUBSET Started(f)
    BY DEF ConfCalls, Started, Idle
  <2> QED BY <2>1, FS_Subset, FS_CardinalityType
<1>9. Cardinality(ConfCalls(g)) <= MaxPending
  <2>0. Cardinality(ConfIds(f)) = Cardinality(ConfCalls(f))
    BY <1>0, <1>2, <1>8, CardIds DEF ConfIds
  <2>1. Cardinality(ConfCalls(f)) < MaxPending
    BY <1>8, <2>0, PluginHostAssumption DEF Room
  <2>2. ConfCalls(g) = ConfCalls(f) \cup {c}
    BY <1>1, <1>2
  <2>3. Cardinality(ConfCalls(f) \cup {c}) = Cardinality(ConfCalls(f)) + 1
    BY <1>2, <1>8, FS_AddElement
  <2> QED BY <1>8, <2>1, <2>2, <2>3, PluginHostAssumption
<1>10. ASSUME NEW p \in Plugins
       PROVE  Cardinality({d \in ConfCalls(g) : g[d].plugin = p}) <= MaxPerPlugin
  <2> DEFINE S == {d \in ConfCalls(f) : f[d].plugin = p}
             T == {d \in ConfCalls(g) : g[d].plugin = p}
  <2>1. S \in SUBSET ConfCalls(f) /\ S \in SUBSET Calls /\ c \notin S
    BY <1>2
  <2>2. IsFiniteSet(S) /\ Cardinality(S) \in Nat
    BY <1>8, <2>1, FS_Subset, FS_CardinalityType
  <2>3. Cardinality(S) <= MaxPerPlugin
    BY DEF Within
  <2>4. \A d \in ConfCalls(f) : d # c /\ g[d] = f[d]
    BY <1>1, <1>2
  <2>5. CASE p = k.plugin
    <3>1. {id \in ConfIds(f) : f[id[1]].plugin = p} = IdsOf(f, S)
      <4>1. \A d \in ConfCalls(f) : f[PromptId(d, f[d])[1]] = f[d]
        BY <1>0, <1>2, PromptIdFacts
      <4>2. ASSUME NEW id \in ConfIds(f), f[id[1]].plugin = p PROVE id \in IdsOf(f, S)
        <5>1. PICK d \in ConfCalls(f) : id = PromptId(d, f[d])
          BY DEF ConfIds, IdsOf
        <5>2. d \in S
          BY <4>1, <4>2, <5>1
        <5> QED BY <5>1, <5>2 DEF IdsOf
      <4>3. ASSUME NEW id \in IdsOf(f, S) PROVE id \in ConfIds(f) /\ f[id[1]].plugin = p
        <5>1. PICK d \in S : id = PromptId(d, f[d])
          BY DEF IdsOf
        <5> QED BY <4>1, <5>1 DEF ConfIds, IdsOf
      <4> QED BY <4>2, <4>3
    <3>2. ~(Cardinality({id \in ConfIds(f) : f[id[1]].plugin = p}) >= MaxPerPlugin)
      BY <2>5 DEF Room
    <3>3. Cardinality(IdsOf(f, S)) = Cardinality(S)
      BY <1>0, <2>1, <2>2, CardIds
    <3>4. T = S \cup {c}
      BY <1>1, <2>4, <2>5
    <3>5. Cardinality(S \cup {c}) = Cardinality(S) + 1
      BY <2>1, <2>2, FS_AddElement
    <3>0. ~(Cardinality(S) >= MaxPerPlugin)
      BY <3>1, <3>2, <3>3
    <3>6. Cardinality(S) < MaxPerPlugin
      <4> HIDE DEF S
      <4> QED BY <2>2, <3>0, PluginHostAssumption
    <3>7. Cardinality(T) = Cardinality(S) + 1
      BY <3>4, <3>5
    <3>8. MaxPerPlugin \in Nat
      BY PluginHostAssumption
    <3>9. Cardinality(T) <= MaxPerPlugin
      <4> HIDE DEF S, T
      <4> QED BY <2>2, <3>6, <3>7, <3>8
    <3> QED BY <3>9
  <2>6. CASE p # k.plugin
    <3>1. T = S
      BY <1>1, <2>4, <2>6
    <3> QED BY <2>3, <3>1
  <2> QED BY <2>5, <2>6
<1> QED BY <1>5, <1>6, <1>9, <1>10 DEF Prompted, Within

\* A form that is opened while nothing else is.
LEMMA PromptsForm ==
  ASSUME NEW f, NEW c, NEW k, NEW g, Changes(f, g, c, k), NEW b, IsFiniteSet(Started(f)),
         Prompted(b, f), Within(f), f[c].at # "asking",
         k.at = "asking", k.dialogs = <<>>, b.owner = None
  PROVE  Prompted(OpenForm(b, PromptId(c, k)), g) /\ Within(g)
<1>0. f \in [Calls -> Call] /\ c \in Calls /\ k \in Call
  BY DEF Changes
<1>1. /\ g \in [Calls -> Call] /\ \A d \in Calls : d # c => g[d] = f[d]
      /\ ConfCalls(g) = ConfCalls(f) \ {c}
  BY OneCall
<1>2. PromptId(c, k) \in PromptIds
  BY <1>0, PromptIdFacts
<1>3. /\ ConfIds(f) = {} /\ FormIds(f) = {}
      /\ BrokerOK(OpenForm(b, PromptId(c, k)), {}, {PromptId(c, k)})
  BY <1>2, OpenFormOK DEF Prompted
<1>4. ConfIds(g) = {} /\ FormIds(g) = {PromptId(c, k)}
  BY <1>3, OneIds
<1>5. \A d \in ConfCalls(g) : g[d].plugin = f[d].plugin
  <2>1. \A d \in ConfCalls(g) : d \in Calls /\ d # c
    BY <1>1 DEF ConfCalls
  <2> QED BY <1>1, <2>1
<1>6. Within(g)
  BY <1>0, <1>1, <1>5, WithinLess
<1> QED BY <1>3, <1>4, <1>6 DEF Prompted

\* A form that is closed.
LEMMA PromptsClose ==
  ASSUME NEW f, NEW c, NEW k, NEW g, Changes(f, g, c, k), NEW b, IsFiniteSet(Started(f)),
         Prompted(b, f), Within(f), b.form = PromptId(c, f[c]), k.at # "asking"
  PROVE  Prompted(CloseForm(b), g) /\ Within(g)
<1>0. f \in [Calls -> Call] /\ c \in Calls /\ k \in Call /\ f[c] \in Call
  BY DEF Changes
<1>1. /\ g \in [Calls -> Call] /\ \A d \in Calls : d # c => g[d] = f[d]
      /\ ConfCalls(g) = ConfCalls(f) \ {c}
  BY OneCall
<1>2. b.form # None
  BY <1>0, PromptIdFacts
<1>3. ConfIds(f) = {} /\ BrokerOK(CloseForm(b), {}, {})
  BY <1>2, CloseFormOK DEF Prompted
<1>4. FormIds(f) = {PromptId(c, f[c])}
  BY <1>2 DEF Prompted, BrokerOK
<1>5. ConfIds(g) = {} /\ FormIds(g) = {}
  BY <1>3, <1>4, OneIds
<1>6. \A d \in ConfCalls(g) : g[d].plugin = f[d].plugin
  <2>1. \A d \in ConfCalls(g) : d \in Calls /\ d # c
    BY <1>1 DEF ConfCalls
  <2> QED BY <1>1, <2>1
<1>7. Within(g)
  BY <1>0, <1>1, <1>6, WithinLess
<1> QED BY <1>3, <1>5, <1>7 DEF Prompted

\* Confirmations that are withdrawn.
LEMMA PromptsWithdraw ==
  ASSUME NEW f \in [Calls -> Call], NEW g \in [Calls -> Call], NEW b, IsFiniteSet(Started(f)),
         Prompted(b, f), Within(f), NEW W \in SUBSET ConfCalls(f),
         ConfCalls(g) = ConfCalls(f) \ W, FormCalls(g) = FormCalls(f),
         \A d \in ConfCalls(g) \cup FormCalls(g) : g[d] = f[d]
  PROVE  Prompted(Withdraw(b, IdsOf(f, W)), g) /\ Within(g)
<1>1. ConfCalls(f) \in SUBSET Calls /\ ConfCalls(g) \subseteq ConfCalls(f)
  BY DEF ConfCalls
<1>2. IdsOf(f, W) \in SUBSET PromptIds
  BY <1>1, PromptIdFacts DEF IdsOf
<1>3. BrokerOK(Withdraw(b, IdsOf(f, W)), ConfIds(f) \ IdsOf(f, W), FormIds(f))
  BY <1>2, WithdrawOK DEF Prompted
<1>4. ConfIds(g) = ConfIds(f) \ IdsOf(f, W)
  <2>1. ConfIds(g) = {PromptId(d, f[d]) : d \in ConfCalls(g)}
    BY DEF ConfIds, IdsOf
  <2>2. ASSUME NEW d \in ConfCalls(g) PROVE PromptId(d, f[d]) \in ConfIds(f) \ IdsOf(f, W)
    <3>1. d \in ConfCalls(f) /\ d \notin W
      OBVIOUS
    <3>2. \A e \in W : PromptId(e, f[e]) # PromptId(d, f[d])
      BY <1>1, <3>1, PromptIdFacts
    <3> QED BY <3>1, <3>2 DEF ConfIds, IdsOf
  <2>3. ASSUME NEW id \in ConfIds(f), id \notin IdsOf(f, W)
        PROVE  id \in {PromptId(d, f[d]) : d \in ConfCalls(g)}
    <3>1. PICK d \in ConfCalls(f) : id = PromptId(d, f[d])
      BY DEF ConfIds, IdsOf
    <3>2. d \notin W
      BY <2>3, <3>1 DEF IdsOf
    <3> QED BY <3>1, <3>2
  <2> QED BY <2>1, <2>2, <2>3
<1>5. FormIds(g) = FormIds(f)
  BY DEF FormIds, IdsOf
<1>6. Within(g)
  BY <1>1, WithinLess
<1> QED BY <1>3, <1>4, <1>5, <1>6 DEF Prompted
-----------------------------------------------------------------------------
\* The calls that were made, and the slots they take, after a step of some.
LEMMA StartedOne ==
  ASSUME NEW f, NEW c, NEW k, NEW g, Changes(f, g, c, k), IsFiniteSet(Started(f))
  PROVE  IsFiniteSet(Started(g))
<1>1. \A d \in Calls : d # c => g[d] = f[d]
  BY OneCall
<1>2. Started(g) \in SUBSET (Started(f) \cup {c})
  BY <1>1 DEF Started
<1>3. IsFiniteSet(Started(f) \cup {c})
  BY FS_AddElement
<1> QED BY <1>2, <1>3, FS_Subset

LEMMA TakingFinite ==
  ASSUME NEW f, IsFiniteSet(Started(f)), NEW p
  PROVE  IsFiniteSet(Taking(f, p)) /\ Cardinality(Taking(f, p)) \in Nat
<1>1. Taking(f, p) \in SUBSET Started(f)
  BY DEF Taking, Started, Active, Idle
<1> QED BY <1>1, FS_Subset, FS_CardinalityType

\* How a step may change a call that is under way.
GoesOn(k, l) ==
  \/ l.at = "done"
  \/ Active(l) /\ l.plugin = k.plugin /\ l.method = k.method

\* Some calls go on, the others stay as they are.
GoOnTogether(f, g, D) ==
  /\ f \in [Calls -> Call] /\ g \in [Calls -> Call] /\ D \subseteq Calls
  /\ \A d \in Calls : d \notin D => g[d] = f[d]
  /\ \A d \in D : Active(f[d]) /\ GoesOn(f[d], g[d])

\* Some calls go on or end: those that end give their slots back.
LEMMA TakingMove ==
  ASSUME NEW f, NEW g, NEW D, GoOnTogether(f, g, D), IsFiniteSet(Started(f)), NEW p
  PROVE  LET back == {d \in D : f[d].plugin = p /\ Limited(f[d]) /\ g[d].at = "done"}
         IN /\ Cardinality(Taking(g, p)) = Cardinality(Taking(f, p)) - Cardinality(back)
            /\ Cardinality(Taking(g, p)) <= Cardinality(Taking(f, p))
            /\ Cardinality(Taking(g, p)) \in Int
<1> DEFINE back == {d \in D : f[d].plugin = p /\ Limited(f[d]) /\ g[d].at = "done"}
<1>1. back \in SUBSET Taking(f, p)
  BY DEF Taking, GoOnTogether
<1>2. Taking(g, p) = Taking(f, p) \ back
  <2>1. ASSUME NEW d \in Calls PROVE d \in Taking(g, p) <=> d \in Taking(f, p) /\ d \notin back
    <3>1. CASE d \in D
      BY <3>1 DEF Taking, Active, Limited, GoOnTogether, GoesOn
    <3>2. CASE d \notin D
      BY <3>2 DEF Taking, GoOnTogether
    <3> QED BY <3>1, <3>2
  <2> QED BY <2>1 DEF Taking
<1> HIDE DEF back
<1>3. IsFiniteSet(Taking(f, p)) /\ Cardinality(Taking(f, p)) \in Nat
  BY TakingFinite
<1>4. IsFiniteSet(back) /\ Cardinality(back) \in Nat
  BY <1>1, <1>3, FS_Subset, FS_CardinalityType
<1>5. Taking(f, p) \cap back = back
  BY <1>1
<1>6. Cardinality(Taking(f, p) \ back) = Cardinality(Taking(f, p)) - Cardinality(back)
  BY <1>3, <1>5, FS_Difference
<1>7. /\ Cardinality(Taking(g, p)) = Cardinality(Taking(f, p)) - Cardinality(back)
      /\ Cardinality(Taking(g, p)) <= Cardinality(Taking(f, p))
      /\ Cardinality(Taking(g, p)) \in Int
  BY <1>2, <1>3, <1>4, <1>6
<1> QED BY <1>7 DEF back

LEMMA MoveKeeps ==
  ASSUME TypeOK, IsFiniteSet(Started(call)), SlotsFit, NEW ks, Move(ks),
         DOMAIN ks \in SUBSET Calls,
         \A d \in DOMAIN ks : ks[d] \in Call /\ Active(call[d]) /\ GoesOn(call[d], ks[d])
  PROVE  /\ call' \in [Calls -> Call]
         /\ SlotsFit'
<1> DEFINE D == DOMAIN ks
<1>1. call \in [Calls -> Call]
  BY DEF TypeOK
<1>2. call' = [c \in Calls |-> IF c \in D THEN ks[c] ELSE call[c]]
  BY DEF Move
<1>3. call' \in [Calls -> Call]
  BY <1>1, <1>2
<1>4. PICK g \in [Calls -> Call] : g = call'
  BY <1>3
<1>5. /\ \A d \in Calls : d \notin D => g[d] = call[d]
      /\ \A d \in D : g[d] = ks[d]
  BY <1>2, <1>4
<1>6. ASSUME NEW p \in Plugins
      PROVE  /\ slots'[p] = Cardinality(Taking(g, p))
             /\ Cardinality(Taking(g, p)) <= Cardinality(Taking(call, p))
             /\ Cardinality(Taking(g, p)) \in Int
  <2> DEFINE back == {d \in D : call[d].plugin = p /\ Limited(call[d]) /\ g[d].at = "done"}
  <2>1. /\ Cardinality(Taking(g, p)) = Cardinality(Taking(call, p)) - Cardinality(back)
        /\ Cardinality(Taking(g, p)) <= Cardinality(Taking(call, p))
        /\ Cardinality(Taking(g, p)) \in Int
    <3>1. GoOnTogether(call, g, D)
      BY <1>1, <1>5 DEF GoOnTogether
    <3> HIDE DEF D
    <3> QED BY <3>1, TakingMove
  <2>2. slots'[p] = slots[p] - Cardinality({d \in D : /\ call[d].plugin = p /\ Limited(call[d])
                                                      /\ ks[d].at = "done"})
    <3> DEFINE B(q) == {d \in D : /\ call[d].plugin = q /\ Limited(call[d])
                                 /\ ks[d].at = "done"}
    <3>1. slots' = [q \in Plugins |-> slots[q] - Cardinality(B(q))]
      BY DEF Move
    <3> HIDE DEF B
    <3>2. slots'[p] = slots[p] - Cardinality(B(p))
      BY <3>1
    <3> QED BY <3>2 DEF B
  <2>3. {d \in D : call[d].plugin = p /\ Limited(call[d]) /\ ks[d].at = "done"} = back
    BY <1>5
  <2>4. slots[p] = Cardinality(Taking(call, p))
    BY DEF SlotsFit
  <2> QED BY <2>1, <2>2, <2>3, <2>4
<1>7. slots' = [p \in Plugins |-> Cardinality(Taking(g, p))]
  <2>1. slots' = [p \in Plugins |-> slots'[p]]
    BY DEF Move
  <2> QED BY <1>6, <2>1
<1>8. ASSUME NEW p \in Plugins PROVE Cardinality(Taking(g, p)) <= NetworkLimit
  <2>1. /\ Cardinality(Taking(g, p)) <= Cardinality(Taking(call, p))
        /\ Cardinality(Taking(g, p)) \in Int
        /\ Cardinality(Taking(call, p)) <= NetworkLimit /\ NetworkLimit \in Nat
    BY <1>6, PluginHostAssumption DEF SlotsFit
  <2>2. Cardinality(Taking(call, p)) \in Nat
    BY TakingFinite
  <2> QED BY <2>1, <2>2
<1> QED BY <1>3, <1>4, <1>7, <1>8 DEF SlotsFit
-----------------------------------------------------------------------------
\* A call that goes on with its method.
LEMMA EndedFacts ==
  ASSUME NEW c, NEW r \in Results, NEW agreed
  PROVE  /\ Ended(r) \in Call /\ Ended(r).at = "done" /\ Ended(r) # Idle
         /\ Ended(r).result = r
         /\ Fits(c, Ended(r), agreed)
<1>1. <<>> \in Seq(Dialogs)
  OBVIOUS
<1>2. Idle \in Call
  BY <1>1 DEF Idle, Call, Steps, Results
<1>3. Ended(r) \in Call /\ Ended(r).at = "done" /\ Ended(r).result = r
  BY <1>2 DEF Ended, Call, Steps
<1>4. Idle.at = "idle"
  BY DEF Idle
<1> QED BY <1>3, <1>4 DEF Fits, Active, Core

\* What is known of a call whose method asks for confirmations.
Willing(c, k, agreed) ==
  /\ k \in Call /\ k.plugin \in Plugins /\ k.method \in (DOMAIN Route) \ Forms
  /\ k.method \in Operations \cup {"repositories.cancelNetworkOperation"} => k.id \in Ids
  /\ k.method \in Operations =>
       \A dialogs \in Confirmations(k.method) : \A n \in DOMAIN dialogs :
         n > Len(k.dialogs) => <<c, n>> \in agreed

\* The outcomes of GoOn.
Stopping(k) == Knows(remembered, k) /\ k.method \in Operations

At(k, at) == [k EXCEPT !.at = at]

LEMMA GoOnFacts ==
  ASSUME NEW c, NEW k, NEW b, NEW g, g = GoOn(c, k, b)
  PROVE  \/ g.call \in {Ended("declined"), Ended("busy")} /\ g.prompts = b
         \/ /\ k.dialogs # <<>> /\ ~Stopping(k) /\ ~Crowded(b, k.plugin) /\ b.form = None
            /\ g.call = At(k, "asking") /\ g.prompts = Enqueue(b, PromptId(c, k))
         \/ /\ k.dialogs = <<>> /\ ~Stopping(k) /\ g.prompts = b
            /\ \/ g.call = At(k, "choosing") /\ k.method = "repositories.clone"
               \/ g.call = At(k, "sent")
<1>1. Remembered(k) <=> Knows(remembered, k)
  BY DEF Remembered, Knows
<1>2. CASE Stopping(k)
  BY <1>1, <1>2 DEF GoOn, Stopping, At
<1>3. CASE ~Stopping(k) /\ k.dialogs # <<>>
  <2>1. g = Confirm(c, k, b)
    BY <1>1, <1>3 DEF GoOn, Stopping, At
  <2> QED BY <1>3, <2>1 DEF Confirm, At
<1>4. CASE ~Stopping(k) /\ k.dialogs = <<>>
  BY <1>1, <1>4 DEF GoOn, Stopping, At
<1> QED BY <1>2, <1>3, <1>4

LEMMA GoOnFits ==
  ASSUME NEW c, NEW k, NEW b, NEW g, g = GoOn(c, k, b), NEW agreed, Willing(c, k, agreed)
  PROVE  /\ g.call \in Call /\ Fits(c, g.call, agreed) /\ GoesOn(k, g.call)
         /\ Stopping(k) => g.call.at = "done"
<1>1. CASE g.call \in {Ended("declined"), Ended("busy")}
  BY <1>1, EndedFacts DEF Results, GoesOn
<1>2. ASSUME NEW at \in {"asking", "choosing", "sent"}, g.call = At(k, at),
             ~Stopping(k), k.dialogs = <<>> <=> at # "asking",
             at = "choosing" => k.method = "repositories.clone"
      PROVE  g.call \in Call /\ Fits(c, g.call, agreed) /\ GoesOn(k, g.call)
  <2>1. k \in Call
    BY DEF Willing
  <2>2. /\ g.call \in Call /\ g.call.at = at
        /\ g.call.plugin = k.plugin /\ g.call.method = k.method /\ g.call.id = k.id
        /\ g.call.dialogs = k.dialogs
    BY <1>2, <2>1 DEF Call, Steps, At
  <2> QED BY <1>2, <2>2 DEF Fits, Willing, Active, Core, GoesOn
<1>3. CASE g.call = At(k, "asking") /\ k.dialogs # <<>> /\ ~Stopping(k)
  BY <1>2, <1>3
<1>4. CASE /\ g.call = At(k, "choosing") /\ k.dialogs = <<>> /\ ~Stopping(k)
           /\ k.method = "repositories.clone"
  BY <1>2, <1>4
<1>5. CASE g.call = At(k, "sent") /\ k.dialogs = <<>> /\ ~Stopping(k)
  BY <1>2, <1>5
<1>6. \/ g.call \in {Ended("declined"), Ended("busy")}
      \/ g.call = At(k, "asking") /\ k.dialogs # <<>> /\ ~Stopping(k)
      \/ /\ g.call = At(k, "choosing") /\ k.dialogs = <<>> /\ ~Stopping(k)
         /\ k.method = "repositories.clone"
      \/ g.call = At(k, "sent") /\ k.dialogs = <<>> /\ ~Stopping(k)
  BY GoOnFacts
<1> QED BY <1>1, <1>3, <1>4, <1>5, <1>6

\* The brokers after GoOn: h says what the calls are before the call comes to
\* the brokers again.
LEMMA GoOnPrompts ==
  ASSUME NEW c \in Calls, NEW k \in Call, NEW b, NEW g, g = GoOn(c, k, b), call \in [Calls -> Call],
         NEW h, IsFiniteSet(Started(h)), Prompted(b, h), Within(h), h[c].at # "asking",
         NEW f, Changes(h, f, c, g.call),
         \A d \in Calls : d # c => h[d] = call[d]
  PROVE  Prompted(g.prompts, f) /\ Within(f)
<1>0. h \in [Calls -> Call]
  BY DEF Changes
<1>1. CASE g.call \in {Ended("declined"), Ended("busy")} /\ g.prompts = b
  <2>1. g.call.at # "asking"
    BY <1>1, EndedFacts DEF Results
  <2> QED BY <1>1, <2>1, PromptsElsewhere
<1>2. CASE /\ k.dialogs # <<>> /\ ~Crowded(b, k.plugin) /\ b.form = None
           /\ g.call = At(k, "asking") /\ g.prompts = Enqueue(b, PromptId(c, k))
  <2>1. /\ g.call.at = "asking" /\ g.call.dialogs = k.dialogs /\ g.call.plugin = k.plugin
        /\ PromptId(c, g.call) = PromptId(c, k)
    BY <1>2 DEF Call, PromptId, At
  <2>2. Prompts(b) \ {None} = ConfIds(h)
    BY AllPrompts
  <2>3. {id \in ConfIds(h) : call[id[1]].plugin = k.plugin} =
        {id \in ConfIds(h) : h[id[1]].plugin = k.plugin}
    <3>1. ASSUME NEW id \in ConfIds(h) PROVE h[id[1]] = call[id[1]]
      <4>1. PICK d \in ConfCalls(h) : id = PromptId(d, h[d])
        BY DEF ConfIds, IdsOf
      <4>2. d \in Calls /\ d # c
        BY DEF ConfCalls
      <4>3. id[1] = d
        BY <1>0, <4>1, <4>2, PromptIdFacts
      <4> QED BY <4>2, <4>3
    <3> QED BY <3>1
  <2>4. \A ids : ids = Prompts(b) \ {None} => Room(ids, call, k.plugin)
    BY <1>2 DEF Crowded, Room
  <2>5. Room(ConfIds(h), call, k.plugin)
    BY <2>2, <2>4
  <2>6. Room(ConfIds(h), h, k.plugin)
    BY <2>3, <2>5 DEF Room
  <2>7. b.form = None /\ Room(ConfIds(h), h, g.call.plugin) /\ g.call.dialogs # <<>>
    BY <1>2, <2>1, <2>6
  <2>8. Prompted(Enqueue(b, PromptId(c, g.call)), f) /\ Within(f)
    BY <2>1, <2>7, PromptsEnter
  <2> QED BY <1>2, <2>1, <2>8
<1>3. CASE /\ g.prompts = b
           /\ \/ g.call = At(k, "choosing") \/ g.call = At(k, "sent")
  <2>1. g.call.at # "asking"
    BY <1>3 DEF Call, At
  <2> QED BY <1>3, <2>1, PromptsElsewhere
<1>4. \/ g.call \in {Ended("declined"), Ended("busy")} /\ g.prompts = b
      \/ /\ k.dialogs # <<>> /\ ~Crowded(b, k.plugin) /\ b.form = None
         /\ g.call = At(k, "asking") /\ g.prompts = Enqueue(b, PromptId(c, k))
      \/ /\ g.prompts = b
         /\ \/ g.call = At(k, "choosing") \/ g.call = At(k, "sent")
  BY GoOnFacts
<1> QED BY <1>1, <1>2, <1>3, <1>4
-----------------------------------------------------------------------------
\* What the kinds of methods have to do with one another.
LEMMA MethodFacts ==
  /\ Operations \cap Forms = {}
  /\ "repositories.cancelNetworkOperation" \notin Operations \cup Forms
  /\ "cloneIntents.create" \notin Operations \cup Forms
  /\ "repositories.clone" \in Operations
  /\ "providers.requestReadAccess" \in Forms
  /\ \A m : \A d \in Confirmations(m) : d \in Seq(Dialogs)
  /\ \A m \in Operations : \A d, e \in Confirmations(m) : d = e
  /\ \A d \in Confirmations("repositories.clone") : 1 \in DOMAIN d
<1>1. /\ Operations \cap Forms = {}
      /\ "repositories.cancelNetworkOperation" \notin Operations \cup Forms
      /\ "cloneIntents.create" \notin Operations \cup Forms
      /\ "repositories.clone" \in Operations
      /\ "providers.requestReadAccess" \in Forms
  BY DEF Operations, Forms
<1>2. /\ <<>> \in Seq(Dialogs) /\ <<"network">> \in Seq(Dialogs)
      /\ <<"replaceConfig">> \in Seq(Dialogs) /\ <<"sourceTrust", "network">> \in Seq(Dialogs)
  <2>1. \A a, e \in Dialogs : <<a>> \in Seq(Dialogs) /\ <<a, e>> \in Seq(Dialogs)
    OBVIOUS
  <2>2. "network" \in Dialogs /\ "replaceConfig" \in Dialogs /\ "sourceTrust" \in Dialogs
    BY DEF Dialogs
  <2> QED BY <2>1, <2>2
<1>3. \A m : \A d \in Confirmations(m) :
        d \in {<<>>, <<"network">>, <<"replaceConfig">>, <<"sourceTrust", "network">>}
  BY DEF Confirmations
<1>4. /\ \A m \in Operations : \A d, e \in Confirmations(m) : d = e
      /\ Confirmations("repositories.clone") = {<<"sourceTrust", "network">>}
  BY DEF Confirmations, Operations
<1>5. 1 \in DOMAIN <<"sourceTrust", "network">>
  OBVIOUS
<1>6. \A m : \A d \in Confirmations(m) : d \in Seq(Dialogs)
  BY <1>2, <1>3
<1>7. \A d \in Confirmations("repositories.clone") : 1 \in DOMAIN d
  BY <1>4, <1>5
<1> QED BY <1>1, <1>4, <1>6, <1>7

\* What has been agreed to stays so.
LEMMA FitsMono ==
  ASSUME NEW c, NEW k, NEW few, NEW more, few \subseteq more, Fits(c, k, few)
  PROVE  Fits(c, k, more)
BY DEF Fits

LEMMA FitsOne ==
  ASSUME CallsFit, NEW c, NEW k, Changes(call, call', c, k), yes \subseteq yes',
         Fits(c, k, yes')
  PROVE  CallsFit'
<1>1. /\ call'[c] = k /\ c \in Calls
      /\ \A d \in Calls : d # c => call'[d] = call[d]
  BY DEF Changes
<1>2. ASSUME NEW d \in Calls PROVE Fits(d, call'[d], yes')
  <2>1. Fits(d, call[d], yes')
    BY FitsMono DEF CallsFit
  <2> QED BY <1>1, <2>1
<1> QED BY <1>2 DEF CallsFit

LEMMA StoppedOne ==
  ASSUME StoppedStay, TypeOK, NEW c, NEW k, Changes(call, call', c, k),
         UNCHANGED <<remembered, stopped>>, c \in stopped => Stays(k, remembered)
  PROVE  StoppedStay'
<1>1. /\ call'[c] = k /\ c \in Calls
      /\ \A d \in Calls : d # c => call'[d] = call[d]
  BY DEF Changes
<1>2. ASSUME NEW d \in stopped PROVE Stays(call'[d], remembered)
  <2>1. d \in Calls
    BY DEF TypeOK
  <2> QED BY <1>1, <2>1 DEF StoppedStay
<1> QED BY <1>2 DEF StoppedStay

\* A step of one call in the hands of the host.
LEMMA HostMove ==
  ASSUME HostInv, NEW c \in Calls, NEW k \in Call, Active(call[c]), GoesOn(call[c], k),
         Move(One(c, k)), yes \subseteq yes', Fits(c, k, yes')
  PROVE  /\ Changes(call, call', c, k) /\ call' \in [Calls -> Call]
         /\ SlotsFit' /\ IsFiniteSet(Started(call')) /\ CallsFit'
<1>1. One(c, k) = [d \in {c} |-> k]
  BY DEF One
<1>2. /\ DOMAIN One(c, k) \in SUBSET Calls
      /\ \A d \in DOMAIN One(c, k) : d = c /\ One(c, k)[d] = k
  BY <1>1
<1>3. call' \in [Calls -> Call] /\ SlotsFit'
  BY <1>2, MoveKeeps DEF HostInv
<1>4. Changes(call, call', c, k)
  <2>1. call' = [d \in Calls |-> IF d \in {c} THEN k ELSE call[d]]
    BY <1>1 DEF Move
  <2>2. call \in [Calls -> Call]
    BY DEF HostInv, TypeOK
  <2> QED BY <2>1, <2>2 DEF Changes
<1>5. IsFiniteSet(Started(call'))
  BY <1>4, StartedOne DEF HostInv
<1>6. CallsFit'
  BY <1>4, FitsOne DEF HostInv
<1> QED BY <1>3, <1>4, <1>5, <1>6

\* The parts of the invariant that no step of the host's variables touches.
LEMMA SpentKept ==
  ASSUME SpentFit, UNCHANGED spent, yes \subseteq yes', TypeOK,
         \A i \in Intents : intents[i] = "gone" => intents'[i] = "gone"
  PROVE  SpentFit'
BY DEF SpentFit
-----------------------------------------------------------------------------
\* Steps of the frame, the screen, the memory and the clock.
LEMMA ShownOK ==
  ASSUME NEW f, FrameOK(f), NEW plugin \in Plugins, NEW route \in Intents \cup {None}
  PROVE  FrameOK(Shown(f, plugin, route))
BY DEF Shown, FrameOK

LEMMA CallsUntouched ==
  ASSUME HostInv, UNCHANGED <<call, slots, prompts, spent>>, yes \subseteq yes'
  PROVE  CallsFit' /\ IsFiniteSet(Started(call))' /\ PromptsFit' /\ SlotsFit'
<1>1. CallsFit'
  BY FitsMono DEF HostInv, CallsFit
<1>2. IsFiniteSet(Started(call))' /\ PromptsFit' /\ SlotsFit'
  BY DEF HostInv, PromptsFit, SlotsFit
<1> QED BY <1>1, <1>2

LEMMA SelectKeeps ==
  ASSUME HostInv, NEW plugin \in Plugins, Select(plugin)
  PROVE  HostInv'
<1>1. CallsFit' /\ IsFiniteSet(Started(call))' /\ PromptsFit' /\ SlotsFit'
  BY CallsUntouched DEF Select, coreVars
<1>2. StoppedStay' /\ SpentFit'
  BY DEF HostInv, StoppedStay, SpentFit, Select, coreVars
<1>3. TypeOK'
  <2>1. FrameOK(frame')
    BY ShownOK DEF Select, HostInv, TypeOK
  <2> QED BY <2>1 DEF HostInv, TypeOK, Select, coreVars
<1> QED BY <1>1, <1>2, <1>3 DEF HostInv

LEMMA ReadyKeeps ==
  ASSUME HostInv, Ready
  PROVE  HostInv'
<1>1. CallsFit' /\ IsFiniteSet(Started(call))' /\ PromptsFit' /\ SlotsFit'
  BY CallsUntouched DEF Ready, coreVars
<1>2. StoppedStay' /\ SpentFit'
  BY DEF HostInv, StoppedStay, SpentFit, Ready, coreVars
<1>3. TypeOK'
  <2> DEFINE ready == [frame EXCEPT !.ready = TRUE]
  <2>1. FrameOK(ready)
    BY DEF Ready, HostInv, TypeOK, FrameOK
  <2>2. navigation' \in Seq(Intents \cup {None})
    BY DEF Ready, HostInv, TypeOK
  <2>3. frame' = ready \/ (Len(navigation) > 1 /\ frame' = Shown(ready, GitClient, navigation[2]))
    BY DEF Ready
  <2>4. Len(navigation) > 1 => navigation[2] \in Intents \cup {None}
    BY DEF HostInv, TypeOK
  <2>5. GitClient \in Plugins
    BY PluginHostAssumption DEF Plugins
  <2> HIDE DEF ready
  <2>6. FrameOK(frame')
    BY <2>1, <2>3, <2>4, <2>5, ShownOK
  <2> QED BY <2>2, <2>6 DEF HostInv, TypeOK, Ready, coreVars
<1> QED BY <1>1, <1>2, <1>3 DEF HostInv

LEMMA RenderKeeps ==
  ASSUME HostInv, Render
  PROVE  HostInv'
<1>1. CallsFit' /\ IsFiniteSet(Started(call))' /\ PromptsFit' /\ SlotsFit'
  BY CallsUntouched DEF Render, coreVars
<1>2. StoppedStay' /\ SpentFit' /\ TypeOK'
  BY DEF HostInv, StoppedStay, SpentFit, TypeOK, Render, coreVars
<1> QED BY <1>1, <1>2 DEF HostInv

\* What is forgotten stops nobody any more.
LEMMA ForgetKeeps ==
  ASSUME HostInv, Forget
  PROVE  HostInv'
<1>1. CallsFit' /\ IsFiniteSet(Started(call))' /\ PromptsFit' /\ SlotsFit'
  BY CallsUntouched DEF Forget, coreVars
<1>2. SpentFit'
  BY DEF HostInv, SpentFit, Forget, coreVars
<1>3. /\ remembered \in Seq(Plugins \X Ids) /\ remembered # <<>>
      /\ remembered' = Tail(remembered)
      /\ stopped' = {c \in stopped : <<call[c].plugin, call[c].id>> # Head(remembered)}
      /\ call' = call
  BY DEF HostInv, TypeOK, Forget
<1>4. remembered' \in Seq(Plugins \X Ids) /\ Range(remembered) = Range(remembered') \cup {Head(remembered)}
  BY <1>3, SequenceFacts
<1>5. StoppedStay'
  <2>1. ASSUME NEW c \in stopped' PROVE Stays(call[c], remembered')
    <3>1. c \in stopped /\ Stays(call[c], remembered)
      BY <1>3 DEF HostInv, StoppedStay
    <3>2. <<call[c].plugin, call[c].id>> # Head(remembered)
      BY <1>3
    <3> QED BY <1>4, <3>1, <3>2 DEF Stays, Knows
  <2> QED BY <1>3, <2>1 DEF StoppedStay
<1>6. TypeOK'
  BY <1>3, <1>4 DEF HostInv, TypeOK, Forget, coreVars
<1> QED BY <1>1, <1>2, <1>5, <1>6 DEF HostInv

LEMMA ExpireKeeps ==
  ASSUME HostInv, NEW i \in Intents, Expire(i)
  PROVE  HostInv'
<1>1. CallsFit' /\ IsFiniteSet(Started(call))' /\ PromptsFit' /\ SlotsFit'
  BY CallsUntouched DEF Expire, hostVars
<1>2. StoppedStay'
  BY DEF HostInv, StoppedStay, Expire, hostVars
<1>3. TypeOK'
  BY DEF HostInv, TypeOK, Expire, hostVars
<1>4. SpentFit'
  BY SpentKept DEF HostInv, Expire, hostVars, TypeOK
<1> QED BY <1>1, <1>2, <1>3, <1>4 DEF HostInv

LEMMA StutterKeeps ==
  ASSUME HostInv, UNCHANGED vars
  PROVE  HostInv'
<1>1. CallsFit' /\ IsFiniteSet(Started(call))' /\ PromptsFit' /\ SlotsFit'
  BY CallsUntouched DEF vars
<1>2. StoppedStay' /\ SpentFit' /\ TypeOK'
  BY DEF HostInv, StoppedStay, SpentFit, TypeOK, vars
<1> QED BY <1>1, <1>2 DEF HostInv
-----------------------------------------------------------------------------
\* Steps of a call in the hands of the host.
LEMMA AskingFacts ==
  ASSUME HostInv, NEW id, id # None
  PROVE  /\ id = prompts.shown =>
              \E c \in Calls : /\ c = id[1] /\ id = PromptId(c, call[c])
                               /\ call[c].at = "asking" /\ call[c].dialogs # <<>>
         /\ id = prompts.form =>
              \E c \in Calls : /\ c = id[1] /\ id = PromptId(c, call[c])
                               /\ call[c].at = "asking" /\ call[c].dialogs = <<>>
         /\ prompts.shown = None \/ prompts.form = None
<1>1. call \in [Calls -> Call]
  BY DEF HostInv, TypeOK
<1>2. /\ id = prompts.shown => id \in ConfIds(call)
      /\ id = prompts.form => id \in FormIds(call)
      /\ prompts.shown = None \/ prompts.form = None
  BY DEF HostInv, PromptsFit, Prompted, BrokerOK
<1>3. ASSUME NEW c \in Calls, id = PromptId(c, call[c]) PROVE c = id[1]
  BY <1>1, <1>3, PromptIdFacts
<1>4. id \in ConfIds(call) => \E c \in ConfCalls(call) : id = PromptId(c, call[c])
  BY DEF ConfIds, IdsOf
<1>5. id \in FormIds(call) => \E c \in FormCalls(call) : id = PromptId(c, call[c])
  BY DEF FormIds, IdsOf
<1> QED BY <1>2, <1>3, <1>4, <1>5 DEF ConfCalls, FormCalls

\* An answer to a form: the credential is sent, or not.
LEMMA FormAnswerKeeps ==
  ASSUME HostInv, NEW c \in Calls, prompts.form = PromptId(c, call[c]),
         call[c].at = "asking", call[c].dialogs = <<>>,
         NEW k \in {At(call[c], "sent"), Ended("declined")}, Move(One(c, k)),
         prompts' = CloseForm(prompts), yes \subseteq yes',
         k.at = "sent" => PromptId(c, call[c]) \in yes',
         UNCHANGED <<remembered, stopped, frame, navigation, spent, intents>>
  PROVE  HostInv'
<1>1. call[c] \in Call /\ Fits(c, call[c], yes)
  BY DEF HostInv, TypeOK, CallsFit
<1>2. call[c].method \in Forms /\ call[c].method \notin Operations
  BY <1>1, MethodFacts DEF Fits
<1>3. k \in Call /\ Fits(c, k, yes') /\ GoesOn(call[c], k) /\ k.at # "asking"
  <2>1. CASE k = Ended("declined")
    BY <2>1, EndedFacts DEF Results, GoesOn
  <2>2. CASE k = At(call[c], "sent")
    <3>1. /\ k \in Call /\ k.at = "sent" /\ k.plugin = call[c].plugin
          /\ k.method = call[c].method /\ k.id = call[c].id /\ k.dialogs = <<>>
      BY <1>1, <2>2 DEF At, Call, Steps
    <3>2. <<c, 0>> \in yes'
      BY <3>1 DEF PromptId
    <3>3. Active(call[c]) /\ Active(k)
      BY <3>1 DEF Active
    <3> QED BY <1>1, <1>2, <3>1, <3>2, <3>3 DEF Fits, Core, GoesOn
  <2> QED BY <2>1, <2>2
<1>4. Active(call[c])
  BY DEF Active
<1>5. /\ Changes(call, call', c, k) /\ call' \in [Calls -> Call]
      /\ SlotsFit' /\ IsFiniteSet(Started(call')) /\ CallsFit'
  BY <1>3, <1>4, HostMove
<1>6. PromptsFit'
  BY <1>3, <1>5, PromptsClose DEF HostInv, PromptsFit
<1>7. StoppedStay'
  <2>1. c \notin stopped
    BY <1>2 DEF HostInv, StoppedStay, Stays
  <2> QED BY <1>5, <2>1, StoppedOne DEF HostInv
<1>8. SpentFit'
  BY SpentKept DEF HostInv
<1>9. TypeOK'
  BY <1>5 DEF HostInv, TypeOK
<1> QED BY <1>5, <1>6, <1>7, <1>8, <1>9 DEF HostInv

\* A confirmation that is declined.
LEMMA DeclineKeeps ==
  ASSUME HostInv, NEW c \in Calls, prompts.shown = PromptId(c, call[c]),
         call[c].at = "asking", Move(One(c, Ended("declined"))),
         prompts' = Settle(prompts), yes \subseteq yes',
         UNCHANGED <<remembered, stopped, frame, navigation, spent, intents>>
  PROVE  HostInv'
<1> DEFINE k == Ended("declined")
<1>1. k \in Call /\ Fits(c, k, yes') /\ GoesOn(call[c], k) /\ k.at = "done"
  BY EndedFacts DEF Results, GoesOn
<1>2. Active(call[c])
  BY DEF Active
<1> HIDE DEF k
<1>3. Move(One(c, k))
  BY DEF k
<1>5. /\ Changes(call, call', c, k) /\ call' \in [Calls -> Call]
      /\ SlotsFit' /\ IsFiniteSet(Started(call')) /\ CallsFit'
  BY <1>1, <1>2, <1>3, HostMove
<1>6. PromptsFit'
  BY <1>1, <1>5, PromptsSettle DEF HostInv, PromptsFit
<1>7. StoppedStay'
  BY <1>1, <1>5, StoppedOne DEF HostInv, Stays
<1>8. SpentFit'
  BY SpentKept DEF HostInv
<1>9. TypeOK'
  BY <1>5 DEF HostInv, TypeOK
<1> QED BY <1>5, <1>6, <1>7, <1>8, <1>9 DEF HostInv

\* A call comes to the brokers and goes on: from its authorization, or, when
\* it has settled its prompt, from the dialog before.
LEMMA WentKeeps ==
  ASSUME HostInv, NEW c \in Calls, Active(call[c]), NEW k, NEW b, NEW g, g = GoOn(c, k, b),
         Willing(c, k, yes'), yes \subseteq yes',
         k.plugin = call[c].plugin, k.method = call[c].method, k.id = call[c].id,
         call[c].at \in {"checking", "asking"},
         NEW h, h \in [Calls -> Call], IsFiniteSet(Started(h)), Prompted(b, h), Within(h),
         h[c].at # "asking", \A d \in Calls : d # c => h[d] = call[d],
         Went(c, g),
         UNCHANGED <<remembered, stopped, frame, navigation, spent, intents>>
  PROVE  HostInv'
<1>1. /\ g.call \in Call /\ Fits(c, g.call, yes') /\ GoesOn(k, g.call)
      /\ Stopping(k) => g.call.at = "done"
  BY GoOnFits
<1>2. GoesOn(call[c], g.call)
  BY <1>1 DEF GoesOn
<1>3. Move(One(c, g.call)) /\ prompts' = g.prompts
  BY DEF Went
<1>5. /\ Changes(call, call', c, g.call) /\ call' \in [Calls -> Call]
      /\ SlotsFit' /\ IsFiniteSet(Started(call')) /\ CallsFit'
  BY <1>1, <1>2, <1>3, HostMove
<1>6. PromptsFit'
  <2>1. Changes(h, call', c, g.call)
    <3>1. call' = [call EXCEPT ![c] = g.call] /\ call \in [Calls -> Call]
      BY <1>5 DEF Changes
    <3>2. call' = [h EXCEPT ![c] = g.call]
      BY <3>1
    <3> QED BY <1>1, <3>2 DEF Changes
  <2>2. k \in Call /\ call \in [Calls -> Call]
    BY DEF Willing, HostInv, TypeOK
  <2>3. Prompted(g.prompts, call') /\ Within(call')
    BY <2>1, <2>2, GoOnPrompts
  <2> QED BY <1>3, <2>3 DEF PromptsFit
<1>7. StoppedStay'
  <2>1. ASSUME c \in stopped PROVE Stays(g.call, remembered)
    <3>1. Stays(call[c], remembered)
      BY <2>1 DEF HostInv, StoppedStay
    <3>2. Stopping(k)
      BY <3>1 DEF Stays, Stopping, Knows
    <3> QED BY <1>1, <3>2 DEF Stays
  <2> QED BY <1>5, <2>1, StoppedOne DEF HostInv
<1>8. SpentFit'
  BY SpentKept DEF HostInv
<1>9. TypeOK'
  BY <1>5 DEF HostInv, TypeOK
<1> QED BY <1>5, <1>6, <1>7, <1>8, <1>9 DEF HostInv

\* The user answers: a prompt that is no longer the active one changes nothing.
LEMMA AnswerKeeps ==
  ASSUME HostInv, NEW agree \in BOOLEAN, Answer(agree)
  PROVE  HostInv'
<1> DEFINE c == seen[1]
           k == call[c]
<1>1. /\ seen # None /\ yes' = (IF agree THEN yes \cup {seen} ELSE yes)
      /\ UNCHANGED <<seen, remembered, stopped, frame, navigation, grants, table, intents, spent>>
  BY DEF Answer, coreVars
<1>2. yes \subseteq yes' /\ (agree => seen \in yes')
  BY <1>1
<1>3. /\ seen \notin {prompts.form, prompts.shown} => UNCHANGED <<call, slots, prompts>>
      /\ seen = prompts.form =>
           /\ Move(One(c, IF agree THEN [k EXCEPT !.at = "sent"] ELSE Ended("declined")))
           /\ prompts' = CloseForm(prompts)
      /\ seen = prompts.shown /\ agree =>
           Went(c, GoOn(c, [k EXCEPT !.dialogs = Tail(@)], Settle(prompts)))
      /\ seen = prompts.shown /\ ~agree =>
           Move(One(c, Ended("declined"))) /\ prompts' = Settle(prompts)
  <2>1. ~(seen = prompts.form /\ seen = prompts.shown)
    BY <1>1, AskingFacts
  <2> QED BY <2>1 DEF Answer
<1>4. CASE seen \notin {prompts.form, prompts.shown}
  <2>1. CallsFit' /\ IsFiniteSet(Started(call))' /\ PromptsFit' /\ SlotsFit'
    BY <1>1, <1>2, <1>3, <1>4, CallsUntouched
  <2>2. StoppedStay' /\ TypeOK'
    BY <1>1, <1>3, <1>4 DEF HostInv, StoppedStay, TypeOK
  <2>3. SpentFit'
    BY <1>1, <1>2, SpentKept DEF HostInv
  <2> QED BY <2>1, <2>2, <2>3 DEF HostInv
<1>5. CASE seen = prompts.form
  <2>1. /\ c \in Calls /\ prompts.form = PromptId(c, call[c])
        /\ call[c].at = "asking" /\ call[c].dialogs = <<>>
    BY <1>1, <1>5, AskingFacts
  <2> DEFINE l == IF agree THEN At(call[c], "sent") ELSE Ended("declined")
  <2>2. Move(One(c, l)) /\ prompts' = CloseForm(prompts)
    BY <1>3, <1>5 DEF At
  <2>3. l \in {At(call[c], "sent"), Ended("declined")}
    OBVIOUS
  <2>4. l.at = "sent" => agree
    BY EndedFacts DEF Results
  <2>5. l.at = "sent" => PromptId(c, call[c]) \in yes'
    BY <1>2, <1>5, <2>1, <2>4
  <2> HIDE DEF l, c
  <2> QED BY <1>1, <1>2, <2>1, <2>2, <2>3, <2>5, FormAnswerKeeps
<1>6. CASE seen = prompts.shown /\ ~agree
  <2>1. /\ c \in Calls /\ prompts.shown = PromptId(c, call[c])
        /\ call[c].at = "asking"
    BY <1>1, <1>6, AskingFacts
  <2>2. Move(One(c, Ended("declined"))) /\ prompts' = Settle(prompts)
    BY <1>3, <1>6
  <2> HIDE DEF c
  <2> QED BY <1>1, <1>2, <2>1, <2>2, DeclineKeeps
<1>7. CASE seen = prompts.shown /\ agree
  <2>1. /\ c \in Calls /\ prompts.shown = PromptId(c, call[c])
        /\ call[c].at = "asking" /\ call[c].dialogs # <<>> /\ PromptId(c, call[c]) \in yes'
    BY <1>1, <1>2, <1>7, AskingFacts
  <2>2. /\ call \in [Calls -> Call] /\ call[c] \in Call /\ Fits(c, call[c], yes')
        /\ IsFiniteSet(Started(call)) /\ Prompted(prompts, call) /\ Within(call)
    BY <1>2, <2>1, FitsMono DEF HostInv, TypeOK, CallsFit, PromptsFit
  <2> DEFINE l == [call[c] EXCEPT !.dialogs = Tail(@)]
             h == [call EXCEPT ![c] = Ended("declined")]
             g == GoOn(c, l, Settle(prompts))
  <2>3. Went(c, g)
    BY <1>3, <1>7
  <2>4. /\ l \in Call /\ l.plugin = call[c].plugin /\ l.method = call[c].method
        /\ l.id = call[c].id /\ l.dialogs = Tail(call[c].dialogs)
    <3>1. PICK m \in Call : m = call[c]
      BY <2>2
    <3>2. m.dialogs \in Seq(Dialogs) /\ m.dialogs # <<>>
      BY <2>1, <3>1 DEF Call
    <3>3. Tail(m.dialogs) \in Seq(Dialogs)
      BY <3>2, SequenceFacts
    <3>4. PICK rest \in Seq(Dialogs) : rest = Tail(m.dialogs)
      BY <3>3
    <3>5. l = [m EXCEPT !.dialogs = rest]
      BY <3>1, <3>4
    <3>6. /\ [m EXCEPT !.dialogs = rest] \in Call
          /\ [m EXCEPT !.dialogs = rest].plugin = m.plugin
          /\ [m EXCEPT !.dialogs = rest].method = m.method
          /\ [m EXCEPT !.dialogs = rest].id = m.id
          /\ [m EXCEPT !.dialogs = rest].dialogs = rest
      BY DEF Call
    <3> HIDE DEF l
    <3> QED BY <3>1, <3>4, <3>5, <3>6
  <2>5. Ended("declined") \in Call /\ Ended("declined").at # "asking"
    BY EndedFacts DEF Results
  <2>6. Changes(call, h, c, Ended("declined")) /\ h[c].at # "asking"
        /\ h \in [Calls -> Call] /\ \A d \in Calls : d # c => h[d] = call[d]
    BY <2>1, <2>2, <2>5 DEF Changes
  <2> HIDE DEF c, l, h
  <2>7. IsFiniteSet(Started(h)) /\ Prompted(Settle(prompts), h) /\ Within(h)
    BY <2>1, <2>2, <2>5, <2>6, StartedOne, PromptsSettle
  <2>8. Willing(c, l, yes')
    <3>1. /\ call[c].plugin \in Plugins /\ call[c].method \in (DOMAIN Route) \ Forms
          /\ call[c].method \in Operations \cup {"repositories.cancelNetworkOperation"} =>
               call[c].id \in Ids
      BY <2>1, <2>2 DEF Fits, Active
    <3>2. ASSUME call[c].method \in Operations, NEW dialogs \in Confirmations(call[c].method),
                 NEW n \in DOMAIN dialogs, n > Len(l.dialogs)
          PROVE  <<c, n>> \in yes'
      <4>1. Len(l.dialogs) = Len(call[c].dialogs) - 1 /\ Len(call[c].dialogs) \in Nat
        BY <2>1, <2>2, <2>4 DEF Call
      <4>2. n \in Nat
        BY MethodFacts
      <4>3. CASE n = Len(call[c].dialogs)
        BY <2>1, <4>3 DEF PromptId
      <4>4. CASE n > Len(call[c].dialogs)
        BY <2>1, <2>2, <3>2, <4>4 DEF Fits
      <4> QED BY <3>2, <4>1, <4>2, <4>3, <4>4
    <3> QED BY <2>4, <3>1, <3>2 DEF Willing
  <2>9. Active(call[c]) /\ call[c].at \in {"checking", "asking"}
    BY <2>1 DEF Active
  <2>10. g = GoOn(c, l, Settle(prompts))
    OBVIOUS
  <2> HIDE DEF g
  <2> QED BY <1>1, <1>2, <2>1, <2>3, <2>4, <2>6, <2>7, <2>8, <2>9, <2>10, WentKeeps
<1> QED BY <1>4, <1>5, <1>6, <1>7

\* A step that leaves the brokers alone.
LEMMA PlainKeeps ==
  ASSUME HostInv, NEW c \in Calls, NEW k \in Call, Active(call[c]), GoesOn(call[c], k),
         Fits(c, k, yes), call[c].at # "asking", k.at # "asking", Move(One(c, k)),
         c \in stopped => Stays(k, remembered),
         UNCHANGED <<prompts, yes, remembered, stopped, spent, intents>>,
         FrameOK(frame'), navigation' \in Seq(Intents \cup {None})
  PROVE  HostInv'
<1>1. /\ Changes(call, call', c, k) /\ call' \in [Calls -> Call]
      /\ SlotsFit' /\ IsFiniteSet(Started(call')) /\ CallsFit'
  BY HostMove
<1>2. PromptsFit'
  BY <1>1, PromptsElsewhere DEF HostInv, PromptsFit
<1>3. StoppedStay'
  BY <1>1, StoppedOne DEF HostInv
<1>4. SpentFit'
  BY SpentKept DEF HostInv
<1>5. TypeOK'
  BY <1>1 DEF HostInv, TypeOK
<1> QED BY <1>1, <1>2, <1>3, <1>4, <1>5 DEF HostInv

LEMMA CallFacts ==
  ASSUME HostInv, NEW c \in Calls
  PROVE  /\ call \in [Calls -> Call] /\ call[c] \in Call /\ Fits(c, call[c], yes)
         /\ FrameOK(frame) /\ navigation \in Seq(Intents \cup {None})
         /\ c \in stopped => Stays(call[c], remembered)
         /\ IsFiniteSet(Started(call)) /\ Prompted(prompts, call) /\ Within(call)
BY DEF HostInv, TypeOK, CallsFit, StoppedStay, PromptsFit

LEMMA AtFacts ==
  ASSUME NEW k \in Call, NEW at \in Steps
  PROVE  /\ At(k, at) \in Call /\ At(k, at).at = at
         /\ At(k, at).plugin = k.plugin /\ At(k, at).method = k.method /\ At(k, at).id = k.id
         /\ At(k, at).intent = k.intent /\ At(k, at).dialogs = k.dialogs
BY DEF At, Call

\* A call is over, in whichever way, without a prompt to be settled.
LEMMA EndKeeps ==
  ASSUME HostInv, NEW c \in Calls, Active(call[c]), call[c].at # "asking",
         NEW r \in Results, Move(One(c, Ended(r))),
         UNCHANGED <<prompts, yes, remembered, stopped, spent, intents>>,
         FrameOK(frame'), navigation' \in Seq(Intents \cup {None})
  PROVE  HostInv'
<1> DEFINE k == Ended(r)
<1>1. k \in Call /\ k.at = "done" /\ Fits(c, k, yes)
  BY EndedFacts
<1>2. Move(One(c, k))
  OBVIOUS
<1> HIDE DEF k
<1>3. GoesOn(call[c], k) /\ Stays(k, remembered)
  BY <1>1 DEF GoesOn, Stays
<1> QED BY <1>1, <1>2, <1>3, PlainKeeps

LEMMA ReturnKeeps ==
  ASSUME HostInv, NEW c \in Calls, Return(c)
  PROVE  HostInv'
<1>1. /\ call[c] \in Call /\ FrameOK(frame) /\ navigation \in Seq(Intents \cup {None})
  BY CallFacts
<1>2. Active(call[c]) /\ call[c].at # "asking"
  BY DEF Return, Active
<1>3. PICK r \in Results : r = call[c].result
  BY <1>1 DEF Call
<1>4. PICK i \in Intents \cup {None} : i = call[c].intent
  BY <1>1 DEF Call
<1>5. Move(One(c, Ended(r)))
  BY <1>3 DEF Return
<1>6. navigation' \in Seq(Intents \cup {None})
  <2>1. navigation' \in {navigation, Append(navigation, i)}
    BY <1>4 DEF Return
  <2> QED BY <1>1, <2>1
<1>7. FrameOK(frame')
  <2>1. frame' \in {frame, Shown(frame, GitClient, i)}
    BY <1>4 DEF Return
  <2>2. GitClient \in Plugins
    BY PluginHostAssumption DEF Plugins
  <2> QED BY <1>1, <2>1, <2>2, ShownOK
<1>8. UNCHANGED <<prompts, yes, remembered, stopped, spent, intents>>
  BY DEF Return, coreVars
<1> QED BY <1>2, <1>5, <1>6, <1>7, <1>8, EndKeeps

LEMMA ChooseKeeps ==
  ASSUME HostInv, NEW c \in Calls, Choose(c)
  PROVE  HostInv'
<1>1. /\ call[c] \in Call /\ FrameOK(frame) /\ navigation \in Seq(Intents \cup {None})
      /\ Fits(c, call[c], yes) /\ (c \in stopped => Stays(call[c], remembered))
  BY CallFacts
<1>2. /\ call[c].at = "choosing" /\ Active(call[c])
      /\ UNCHANGED <<prompts, yes, remembered, stopped, spent, intents, frame, navigation>>
  BY DEF Choose, Active, coreVars
<1>3. CASE Move(One(c, Ended("declined")))
  BY <1>1, <1>2, <1>3, EndKeeps DEF Results
<1>4. CASE ~Remembered(call[c]) /\ Move(One(c, [call[c] EXCEPT !.at = "sent"]))
  <2> DEFINE k == At(call[c], "sent")
  <2>1. Move(One(c, k))
    BY <1>4 DEF At
  <2>2. /\ k \in Call /\ k.at = "sent" /\ k.plugin = call[c].plugin
        /\ k.method = call[c].method /\ k.id = call[c].id /\ k.dialogs = call[c].dialogs
    BY <1>1, AtFacts DEF Steps
  <2>3. call[c].method = "repositories.clone" /\ call[c].method \notin Forms
    BY <1>1, <1>2, MethodFacts DEF Fits
  <2> HIDE DEF k
  <2>4. Fits(c, k, yes) /\ GoesOn(call[c], k)
    BY <1>1, <1>2, <2>2, <2>3 DEF Fits, Active, Core, GoesOn
  <2>5. c \notin stopped
    <3>1. ~Knows(remembered, call[c])
      BY <1>4 DEF Remembered, Knows
    <3> QED BY <1>1, <1>2, <3>1 DEF Stays
  <2> QED BY <1>1, <1>2, <2>1, <2>2, <2>4, <2>5, PlainKeeps
<1> QED BY <1>3, <1>4 DEF Choose

\* A form is asked for: it is opened, or the call is over.
LEMMA FormKeeps ==
  ASSUME HostInv, NEW c \in Calls, call[c].at \in {"checking", "listing"},
         call[c].method \in Forms, Form(c, call[c]),
         UNCHANGED <<yes, remembered, stopped, spent, intents, frame, navigation>>
  PROVE  HostInv'
<1>1. /\ call \in [Calls -> Call] /\ call[c] \in Call
      /\ FrameOK(frame) /\ navigation \in Seq(Intents \cup {None})
      /\ Fits(c, call[c], yes) /\ (c \in stopped => Stays(call[c], remembered))
      /\ IsFiniteSet(Started(call)) /\ Prompted(prompts, call) /\ Within(call)
  BY CallFacts
<1>2. Active(call[c]) /\ call[c].at # "asking"
  BY DEF Active
<1>3. CASE prompts.owner # None
  <2>1. Move(One(c, Ended("busy"))) /\ prompts' = prompts
    BY <1>3 DEF Form
  <2> QED BY <1>1, <1>2, <2>1, EndKeeps DEF Results
<1>4. CASE prompts.owner = None
  <2> DEFINE k == At(call[c], "asking")
  <2>1. Move(One(c, k)) /\ prompts' = OpenForm(prompts, PromptId(c, call[c]))
    BY <1>4 DEF Form, At
  <2>2. /\ k \in Call /\ k.at = "asking" /\ k.plugin = call[c].plugin
        /\ k.method = call[c].method /\ k.id = call[c].id /\ k.dialogs = call[c].dialogs
    BY <1>1, AtFacts DEF Steps
  <2>3. k.dialogs = <<>> /\ call[c].method \notin Operations
    BY <1>1, <2>2, MethodFacts DEF Fits
  <2> HIDE DEF k
  <2>4. Fits(c, k, yes) /\ GoesOn(call[c], k)
    BY <1>1, <1>2, <2>2, <2>3 DEF Fits, Active, Core, GoesOn
  <2>5. PromptId(c, call[c]) = PromptId(c, k)
    BY <2>2 DEF PromptId
  <2>6. /\ Changes(call, call', c, k) /\ call' \in [Calls -> Call]
        /\ SlotsFit' /\ IsFiniteSet(Started(call')) /\ CallsFit'
    BY <1>2, <2>1, <2>2, <2>4, HostMove
  <2>7. PromptsFit'
    BY <1>1, <1>2, <1>4, <2>1, <2>2, <2>3, <2>5, <2>6, PromptsForm DEF PromptsFit
  <2>8. StoppedStay'
    <3>1. c \notin stopped
      BY <1>1, <1>2, <2>3 DEF Stays, Active
    <3> QED BY <2>6, <3>1, StoppedOne DEF HostInv
  <2>9. SpentFit'
    BY SpentKept DEF HostInv
  <2>10. TypeOK'
    BY <2>6 DEF HostInv, TypeOK
  <2> QED BY <2>6, <2>7, <2>8, <2>9, <2>10 DEF HostInv
<1> QED BY <1>3, <1>4

LEMMA ListKeeps ==
  ASSUME HostInv, NEW c \in Calls, List(c)
  PROVE  HostInv'
<1>1. /\ call[c].at = "listing" /\ Active(call[c])
      /\ UNCHANGED <<yes, remembered, stopped, spent, intents, frame, navigation>>
  BY DEF List, Active, coreVars
<1>2. /\ call[c].method \in Forms
      /\ FrameOK(frame) /\ navigation \in Seq(Intents \cup {None})
  BY <1>1, CallFacts, MethodFacts DEF Fits
<1>3. CASE Form(c, call[c])
  BY <1>1, <1>2, <1>3, FormKeeps
<1>4. CASE Move(One(c, Ended("failed"))) /\ UNCHANGED prompts
  BY <1>1, <1>2, <1>4, EndKeeps DEF Results
<1> QED BY <1>3, <1>4 DEF List

\* A cancellation: what its operation asks for is withdrawn, and the calls it
\* found stay for as long as it is remembered.
LEMMA CancelKeeps ==
  ASSUME HostInv, NEW c \in Calls, call[c].at = "checking",
         call[c].method = "repositories.cancelNetworkOperation", Cancel(c, call[c]),
         UNCHANGED <<yes, spent, intents, frame, navigation>>
  PROVE  HostInv'
<1> DEFINE key == <<call[c].plugin, call[c].id>>
           others == Without(remembered, {key})
           room == IF Len(others) >= MaxRemembered THEN Tail(others) ELSE others
           memory == Append(room, key)
           named == {d \in Calls : /\ call[d].method \in Operations
                                   /\ <<call[d].plugin, call[d].id>> = key
                                   /\ call[d].at \in {"checking", "asking", "choosing"}}
           asking == {d \in named : call[d].at = "asking"}
           ks == [d \in asking \cup {c} |-> IF d = c THEN [call[c] EXCEPT !.at = "sent"]
                                            ELSE Ended("declined")]
<1>1. /\ Move(ks) /\ prompts' = Withdraw(prompts, {PromptId(d, call[d]) : d \in asking})
      /\ remembered' = memory
      /\ stopped' = {d \in stopped \cup named :
                       <<call[d].plugin, call[d].id>> \in Range(memory)}
  BY DEF Cancel
<1>2. /\ call \in [Calls -> Call] /\ call[c] \in Call
      /\ \A d \in Calls : Fits(d, call[d], yes) /\ (d \in stopped => Stays(call[d], remembered))
      /\ IsFiniteSet(Started(call)) /\ Prompted(prompts, call) /\ Within(call)
      /\ remembered \in Seq(Plugins \X Ids) /\ stopped \subseteq Calls
  BY CallFacts DEF HostInv, TypeOK
<1>3. Active(call[c]) /\ call[c].method \notin Operations /\ call[c].method \notin Forms
  BY MethodFacts DEF Active
<1>4. call[c].plugin \in Plugins /\ call[c].id \in Ids /\ call[c].dialogs = <<>>
  BY <1>2, <1>3 DEF Fits
<1>5. key \in Plugins \X Ids
  BY <1>4
<1>6. memory \in Seq(Plugins \X Ids)
  <2>1. others \in Seq(Plugins \X Ids)
    BY <1>2, WithoutFacts
  <2>2. Len(others) >= MaxRemembered => others # <<>>
    BY <2>1, PluginHostAssumption
  <2> HIDE DEF others, key
  <2>3. others # <<>> => Tail(others) \in Seq(Plugins \X Ids)
    BY <2>1, SequenceFacts
  <2>4. room \in Seq(Plugins \X Ids)
    BY <2>1, <2>2, <2>3
  <2> HIDE DEF room
  <2> QED BY <1>5, <2>4
<1>7. /\ asking \subseteq named /\ named \subseteq Calls /\ c \notin named
      /\ \A d \in named : /\ call[d].method \in Operations
                          /\ <<call[d].plugin, call[d].id>> = key
                          /\ call[d].at \in {"checking", "asking", "choosing"}
      /\ \A d \in asking : d # c /\ call[d].at = "asking"
      /\ \A d \in named : d \notin asking => call[d].at # "asking"
  BY <1>3
<1>8. /\ DOMAIN ks = asking \cup {c} /\ ks[c] = At(call[c], "sent")
      /\ \A d \in asking : ks[d] = Ended("declined")
  BY <1>7 DEF At
<1>9. PICK gone : gone = asking
  OBVIOUS
<1>10. prompts' = Withdraw(prompts, IdsOf(call, gone))
  BY <1>1, <1>9 DEF IdsOf
<1> HIDE DEF key, memory, named, asking, ks, others, room
<1>11. /\ At(call[c], "sent") \in Call /\ At(call[c], "sent").at = "sent"
       /\ At(call[c], "sent").plugin = call[c].plugin
       /\ At(call[c], "sent").method = call[c].method /\ At(call[c], "sent").id = call[c].id
       /\ At(call[c], "sent").dialogs = <<>>
  BY <1>2, <1>4, AtFacts DEF Steps
<1>12. /\ Ended("declined") \in Call /\ Ended("declined").at = "done"
       /\ \A d : Fits(d, Ended("declined"), yes)
  BY EndedFacts DEF Results
<1>13. call' \in [Calls -> Call] /\ SlotsFit'
  <2>1. DOMAIN ks \in SUBSET Calls
    BY <1>7, <1>8
  <2>2. ASSUME NEW d \in DOMAIN ks
        PROVE  ks[d] \in Call /\ Active(call[d]) /\ GoesOn(call[d], ks[d])
    <3>1. CASE d = c
      BY <1>3, <1>8, <1>11, <3>1 DEF GoesOn, Active
    <3>2. CASE d \in asking
      BY <1>7, <1>8, <1>12, <3>2 DEF GoesOn, Active
    <3> QED BY <1>8, <3>1, <3>2
  <2> QED BY <1>1, <2>1, <2>2, MoveKeeps DEF HostInv
<1>14. /\ call'[c] = At(call[c], "sent")
       /\ \A d \in asking : call'[d] = Ended("declined")
       /\ \A d \in Calls : d # c /\ d \notin asking => call'[d] = call[d]
  <2>1. call' = [d \in Calls |-> IF d \in asking \cup {c} THEN ks[d] ELSE call[d]]
    BY <1>1, <1>8 DEF Move
  <2> QED BY <1>7, <1>8, <2>1
<1>15. CallsFit'
  <2>1. Fits(c, At(call[c], "sent"), yes)
    BY <1>2, <1>3, <1>4, <1>11 DEF Fits, Active, Core
  <2>2. ASSUME NEW d \in Calls PROVE Fits(d, call'[d], yes)
    BY <1>2, <1>12, <1>14, <2>1
  <2> QED BY <2>2 DEF CallsFit
<1>16. IsFiniteSet(Started(call'))
  <2>1. \A d \in Calls : call[d] = Idle => call'[d] = call[d]
    <3>1. Idle.at = "idle"
      BY DEF Idle
    <3> QED BY <1>7, <1>14, <3>1
  <2>2. Started(call') \in SUBSET Started(call)
    BY <2>1 DEF Started
  <2> QED BY <1>2, <2>2, FS_Subset
<1>17. StoppedStay'
  <2>1. ASSUME NEW d \in stopped' PROVE Stays(call'[d], remembered')
    <3>1. d \in Calls /\ (d \in stopped \/ d \in named)
          /\ <<call[d].plugin, call[d].id>> \in Range(memory)
      BY <1>1, <1>2, <1>7
    <3>2. d # c
      BY <1>2, <1>3, <1>7, <3>1 DEF Stays
    <3>3. CASE d \in asking
      BY <1>12, <1>14, <3>3 DEF Stays
    <3>4. CASE d \notin asking /\ d \in named
      <4>1. call'[d] = call[d] /\ call[d].id = call[c].id
        BY <1>7, <1>14, <3>1, <3>2, <3>4 DEF key
      <4>2. call[d].id # None
        BY <1>4, <4>1, PluginHostAssumption
      <4> QED BY <1>1, <1>7, <3>1, <3>4, <4>1, <4>2 DEF Stays, Knows
    <3>5. CASE d \notin asking /\ d \in stopped
      <4>1. call'[d] = call[d] /\ Stays(call[d], remembered)
        BY <1>2, <1>14, <3>1, <3>2, <3>5
      <4> QED BY <1>1, <3>1, <4>1 DEF Stays, Knows
    <3> QED BY <3>1, <3>3, <3>4, <3>5
  <2> QED BY <2>1 DEF StoppedStay
<1>18. PromptsFit'
  <2>1. gone \in SUBSET ConfCalls(call)
    <3>1. ASSUME NEW d \in asking PROVE d \in ConfCalls(call)
      <4>1. call[d].method \notin Forms /\ Fits(d, call[d], yes) /\ d \in Calls
            /\ call[d].at = "asking"
        BY <1>2, <1>7, MethodFacts
      <4> QED BY <4>1 DEF Fits, ConfCalls
    <3> QED BY <1>9, <3>1
  <2>2. \A d \in Calls : call'[d].at = "asking" <=> call[d].at = "asking" /\ d \notin gone
    BY <1>7, <1>9, <1>11, <1>12, <1>14
  <2>3. \A d \in Calls : call'[d].at = "asking" => call'[d] = call[d]
    BY <1>9, <1>11, <1>12, <1>14
  <2>4. ConfCalls(call') = ConfCalls(call) \ gone
    BY <2>2, <2>3 DEF ConfCalls
  <2>5. FormCalls(call') = FormCalls(call)
    <3>1. \A d \in gone : call[d].dialogs # <<>>
      BY <2>1 DEF ConfCalls
    <3> QED BY <2>2, <2>3, <3>1 DEF FormCalls
  <2>6. \A d \in ConfCalls(call') \cup FormCalls(call') : call'[d] = call[d]
    BY <2>3 DEF ConfCalls, FormCalls
  <2>7. Prompted(Withdraw(prompts, IdsOf(call, gone)), call') /\ Within(call')
    BY <1>2, <1>13, <2>1, <2>4, <2>5, <2>6, PromptsWithdraw
  <2> QED BY <1>10, <2>7 DEF PromptsFit
<1>19. SpentFit'
  BY SpentKept DEF HostInv
<1>20. TypeOK'
  <2>1. stopped' \subseteq Calls
    BY <1>1, <1>2, <1>7
  <2> QED BY <1>1, <1>6, <1>13, <2>1 DEF HostInv, TypeOK
<1> QED BY <1>13, <1>15, <1>16, <1>17, <1>18, <1>19, <1>20 DEF HostInv

\* Whoever was asked is over, and has given back its slot.
LEMMA UnmountKeeps ==
  ASSUME HostInv, Unmount
  PROVE  HostInv'
<1> DEFINE ks == [c \in Asking |-> Ended(IF call[c].dialogs = <<>> THEN "declined" ELSE "failed")]
<1>1. /\ Move(ks) /\ UNCHANGED <<yes, remembered, stopped, frame, navigation>>
      /\ UNCHANGED <<grants, table, intents, spent>>
      /\ prompts' = IF prompts.form # None THEN CloseForm(prompts) ELSE RejectAll(prompts)
  BY DEF Unmount, coreVars
<1>2. /\ call \in [Calls -> Call] /\ IsFiniteSet(Started(call))
      /\ Prompted(prompts, call) /\ Within(call)
      /\ stopped \subseteq Calls /\ \A d \in Calls : Fits(d, call[d], yes)
  BY CallFacts DEF HostInv, TypeOK, PromptsFit
<1>3. /\ Asking \subseteq Calls /\ DOMAIN ks = Asking
      /\ \A d \in Asking : /\ call[d].at = "asking" /\ ks[d] \in Call
                           /\ ks[d].at = "done" /\ Fits(d, ks[d], yes)
  <2>1. \A d : /\ Ended("declined") \in Call /\ Ended("declined").at = "done"
               /\ Fits(d, Ended("declined"), yes)
    BY EndedFacts DEF Results
  <2>2. \A d : /\ Ended("failed") \in Call /\ Ended("failed").at = "done"
               /\ Fits(d, Ended("failed"), yes)
    BY EndedFacts DEF Results
  <2>3. \A d \in Asking : ks[d] \in {Ended("declined"), Ended("failed")}
    OBVIOUS
  <2>4. \A d \in Asking : call[d].at = "asking" /\ d \in Calls
    BY DEF Asking
  <2> HIDE DEF ks
  <2>5. \A d \in Asking : ks[d] \in Call /\ ks[d].at = "done" /\ Fits(d, ks[d], yes)
    BY <2>1, <2>2, <2>3
  <2> QED BY <2>4, <2>5 DEF ks
<1> HIDE DEF ks
<1>4. call' \in [Calls -> Call] /\ SlotsFit'
  <2>1. DOMAIN ks \in SUBSET Calls
    BY <1>3
  <2>2. \A d \in DOMAIN ks : ks[d] \in Call /\ Active(call[d]) /\ GoesOn(call[d], ks[d])
    BY <1>3 DEF GoesOn, Active
  <2> QED BY <1>1, <2>1, <2>2, MoveKeeps DEF HostInv
<1>5. /\ \A d \in Asking : call'[d] = ks[d]
      /\ \A d \in Calls : d \notin Asking => call'[d] = call[d] /\ call[d].at # "asking"
  <2>1. call' = [d \in Calls |-> IF d \in Asking THEN ks[d] ELSE call[d]]
    BY <1>1, <1>3 DEF Move
  <2> QED BY <1>3, <2>1 DEF Asking
<1>6. \A d \in Calls : Fits(d, call'[d], yes) /\ call'[d].at # "asking"
  BY <1>2, <1>3, <1>5
<1>7. CallsFit'
  BY <1>1, <1>6 DEF CallsFit
<1>8. IsFiniteSet(Started(call'))
  <2>1. Idle.at = "idle"
    BY DEF Idle
  <2>2. \A d \in Calls : call[d] = Idle => call'[d] = call[d]
    BY <1>3, <1>5, <2>1
  <2>3. Started(call') \in SUBSET Started(call)
    BY <2>2 DEF Started
  <2> QED BY <1>2, <2>3, FS_Subset
<1>9. StoppedStay'
  <2>1. ASSUME NEW d \in stopped PROVE Stays(call'[d], remembered)
    <3>1. CASE d \in Asking
      BY <1>3, <1>5, <3>1 DEF Stays
    <3>2. CASE d \notin Asking
      BY <1>2, <1>5, <3>2 DEF HostInv, StoppedStay
    <3> QED BY <3>1, <3>2
  <2> QED BY <1>1, <2>1 DEF StoppedStay
<1>10. PromptsFit'
  <2>1. ConfCalls(call') = {} /\ FormCalls(call') = {}
    BY <1>6 DEF ConfCalls, FormCalls
  <2>2. ConfIds(call') = {} /\ FormIds(call') = {}
    BY <2>1 DEF ConfIds, FormIds, IdsOf
  <2>3. BrokerOK(prompts', {}, {})
    BY <1>1, <1>2, CloseFormOK, RejectAllOK DEF Prompted
  <2>4. Within(call')
    BY <1>2, <1>4, <2>1, WithinLess
  <2> QED BY <2>2, <2>3, <2>4 DEF PromptsFit, Prompted
<1>11. SpentFit'
  BY <1>1, SpentKept DEF HostInv
<1>12. TypeOK'
  BY <1>1, <1>4 DEF HostInv, TypeOK
<1> QED BY <1>4, <1>7, <1>8, <1>9, <1>10, <1>11, <1>12 DEF HostInv

\* What the host does with an authorized request.
LEMMA ExecuteKeeps ==
  ASSUME HostInv, NEW c \in Calls, call[c].at = "checking", Execute(c, call[c]),
         UNCHANGED <<yes, spent, intents, frame, navigation>>
  PROVE  HostInv'
<1>1. /\ call \in [Calls -> Call] /\ call[c] \in Call
      /\ FrameOK(frame) /\ navigation \in Seq(Intents \cup {None})
      /\ Fits(c, call[c], yes) /\ (c \in stopped => Stays(call[c], remembered))
      /\ IsFiniteSet(Started(call)) /\ Prompted(prompts, call) /\ Within(call)
  BY CallFacts
<1>2. /\ Active(call[c]) /\ call[c].plugin \in Plugins /\ call[c].method \in DOMAIN Route
      /\ call[c].dialogs = <<>>
      /\ call[c].method \in Operations \cup {"repositories.cancelNetworkOperation"} =>
           call[c].id \in Ids
  BY <1>1 DEF Fits, Active
<1>3. CASE call[c].method = "repositories.cancelNetworkOperation"
  <2>1. Cancel(c, call[c])
    BY <1>3 DEF Execute
  <2> QED BY <1>3, <2>1, CancelKeeps
<1>4. CASE call[c].method = "providers.requestReadAccess"
  <2>1. /\ Move(One(c, At(call[c], "listing")))
        /\ UNCHANGED <<prompts, remembered, stopped>>
    BY <1>4 DEF Execute, At
  <2> DEFINE k == At(call[c], "listing")
  <2>2. /\ k \in Call /\ k.at = "listing" /\ k.plugin = call[c].plugin
        /\ k.method = call[c].method /\ k.id = call[c].id /\ k.dialogs = call[c].dialogs
    BY <1>1, AtFacts DEF Steps
  <2>3. call[c].method \notin Operations
    BY <1>4, MethodFacts
  <2>4. Move(One(c, k))
    BY <2>1
  <2> HIDE DEF k
  <2>5. Fits(c, k, yes) /\ GoesOn(call[c], k)
    BY <1>2, <1>4, <2>2, <2>3 DEF Fits, Active, Core, GoesOn
  <2>6. c \notin stopped
    BY <1>1, <2>3 DEF Stays
  <2> QED BY <1>1, <1>2, <2>1, <2>2, <2>4, <2>5, <2>6, PlainKeeps
<1>5. CASE call[c].method \in Forms \ {"providers.requestReadAccess"}
  <2>1. call[c].method # "repositories.cancelNetworkOperation"
    BY <1>5, MethodFacts
  <2>2. Form(c, call[c]) /\ UNCHANGED <<remembered, stopped>>
    BY <1>5, <2>1 DEF Execute
  <2> QED BY <1>5, <2>2, FormKeeps
<1>6. CASE call[c].method \notin Forms \cup {"repositories.cancelNetworkOperation"}
  <2>1. PICK dialogs \in Confirmations(call[c].method) :
          /\ Went(c, GoOn(c, [call[c] EXCEPT !.dialogs = dialogs], prompts))
          /\ UNCHANGED <<remembered, stopped>>
    BY <1>6, MethodFacts DEF Execute
  <2>2. PICK k : k = [call[c] EXCEPT !.dialogs = dialogs]
    OBVIOUS
  <2>3. /\ k \in Call /\ k.plugin = call[c].plugin /\ k.method = call[c].method
        /\ k.id = call[c].id /\ k.dialogs = dialogs
    <3>1. PICK rest \in Seq(Dialogs) : rest = dialogs
      BY MethodFacts
    <3>2. PICK m \in Call : m = call[c]
      BY <1>1
    <3>3. /\ [m EXCEPT !.dialogs = rest] \in Call
          /\ [m EXCEPT !.dialogs = rest].plugin = m.plugin
          /\ [m EXCEPT !.dialogs = rest].method = m.method
          /\ [m EXCEPT !.dialogs = rest].id = m.id
          /\ [m EXCEPT !.dialogs = rest].dialogs = rest
      BY DEF Call
    <3> QED BY <2>2, <3>1, <3>2, <3>3
  <2>4. Willing(c, k, yes')
    <3>1. ASSUME call[c].method \in Operations, NEW d \in Confirmations(call[c].method),
                 NEW n \in DOMAIN d
          PROVE  ~(n > Len(k.dialogs))
      <4>1. d = k.dialogs /\ d \in Seq(Dialogs)
        BY <2>3, <3>1, MethodFacts
      <4> QED BY <4>1
    <3> QED BY <1>2, <1>6, <2>3, <3>1 DEF Willing
  <2>5. PICK g : g = GoOn(c, k, prompts)
    OBVIOUS
  <2>6. Went(c, g)
    BY <2>1, <2>2, <2>5
  <2> QED BY <1>1, <1>2, <2>1, <2>3, <2>4, <2>5, <2>6, WentKeeps
<1> QED BY <1>3, <1>4, <1>5, <1>6

LEMMA CheckKeeps ==
  ASSUME HostInv, NEW c \in Calls, Check(c)
  PROVE  HostInv'
<1>1. /\ call[c] \in Call /\ FrameOK(frame) /\ navigation \in Seq(Intents \cup {None})
      /\ Fits(c, call[c], yes) /\ (c \in stopped => Stays(call[c], remembered))
  BY CallFacts
<1>2. /\ call[c].at = "checking" /\ Active(call[c])
      /\ UNCHANGED <<yes, spent, intents, frame, navigation>>
  BY DEF Check, Active, coreVars
<1>3. CASE Move(One(c, Ended("denied"))) /\ UNCHANGED <<prompts, remembered, stopped>>
  BY <1>1, <1>2, <1>3, EndKeeps DEF Results
<1>4. CASE /\ Move(One(c, [call[c] EXCEPT !.next = @ + 1]))
           /\ UNCHANGED <<prompts, remembered, stopped>>
  <2> DEFINE k == [call[c] EXCEPT !.next = @ + 1]
  <2>1. /\ k \in Call /\ k.at = call[c].at /\ k.plugin = call[c].plugin
        /\ k.method = call[c].method /\ k.id = call[c].id /\ k.dialogs = call[c].dialogs
    BY <1>1 DEF Call
  <2>2. Move(One(c, k))
    BY <1>4
  <2> HIDE DEF k
  <2>3. Fits(c, k, yes) /\ GoesOn(call[c], k)
    BY <1>1, <1>2, <2>1 DEF Fits, Active, Core, GoesOn
  <2>4. c \in stopped => Stays(k, remembered)
    BY <1>1, <2>1 DEF Stays, Knows
  <2> QED BY <1>1, <1>2, <1>4, <2>1, <2>2, <2>3, <2>4, PlainKeeps
<1>5. CASE Execute(c, call[c])
  BY <1>2, <1>5, ExecuteKeeps
<1>6. \/ Move(One(c, Ended("denied"))) /\ UNCHANGED <<prompts, remembered, stopped>>
      \/ /\ Move(One(c, [call[c] EXCEPT !.next = @ + 1]))
         /\ UNCHANGED <<prompts, remembered, stopped>>
      \/ Execute(c, call[c])
  BY DEF Check
<1> QED BY <1>3, <1>4, <1>5, <1>6

\* A request comes in: it takes a slot if there is one.
LEMMA SendKeeps ==
  ASSUME HostInv, NEW c \in Calls, Send(c)
  PROVE  HostInv'
<1>1. /\ call \in [Calls -> Call] /\ FrameOK(frame)
      /\ (c \in stopped => Stays(call[c], remembered))
      /\ IsFiniteSet(Started(call)) /\ Prompted(prompts, call) /\ Within(call)
  BY CallFacts
<1>2. /\ call[c] = Idle /\ call[c].at = "idle" /\ frame.plugin \in Plugins
      /\ UNCHANGED <<prompts, yes, remembered, stopped, frame, navigation, spent, intents>>
  BY <1>1 DEF Send, Idle, FrameOK, coreVars
<1>3. PICK m \in Methods[c], id \in Ids \cup {None}, i \in Intents \cup {None} :
        /\ (id # None) <=> (m \in Operations \cup {"repositories.cancelNetworkOperation"})
        /\ LET k == Request(frame.plugin, m, id, i)
               full == Limited(k) /\ slots[k.plugin] >= NetworkLimit
           IN /\ call' = [call EXCEPT ![c] = IF full THEN Ended("limited") ELSE k]
              /\ slots' = [slots EXCEPT ![k.plugin] = IF Limited(k) /\ ~full THEN @ + 1 ELSE @]
  BY DEF Send
<1>4. m \in DOMAIN Route
  BY PluginHostAssumption
<1>5. PICK p \in Plugins : p = frame.plugin
  BY <1>2
<1> DEFINE k == Request(frame.plugin, m, id, i)
           full == Limited(k) /\ slots[k.plugin] >= NetworkLimit
           l == IF full THEN Ended("limited") ELSE k
<1>6. k = [at |-> "checking", plugin |-> p, method |-> m, id |-> id, intent |-> i,
           next |-> 1, dialogs |-> <<>>, result |-> None]
  BY <1>5 DEF Request
<1>7. /\ call' = [call EXCEPT ![c] = l]
      /\ slots' = [slots EXCEPT ![k.plugin] = IF Limited(k) /\ ~full THEN @ + 1 ELSE @]
  BY <1>3
<1> HIDE DEF k
<1>8. /\ k \in Call /\ k.at = "checking" /\ k.plugin = p /\ k.method = m /\ k.id = id
      /\ k.dialogs = <<>>
  <2>1. <<>> \in Seq(Dialogs)
    OBVIOUS
  <2> QED BY <1>4, <1>6, <2>1 DEF Call, Steps, Results
<1>9. Fits(c, k, yes)
  BY <1>3, <1>4, <1>8 DEF Fits, Active, Core
<1>10. /\ Ended("limited") \in Call /\ Ended("limited").at = "done"
       /\ Fits(c, Ended("limited"), yes)
  BY EndedFacts DEF Results
<1>11. l \in Call /\ Fits(c, l, yes) /\ l.at # "asking"
  BY <1>8, <1>9, <1>10
<1> DEFINE taken == Limited(k) /\ ~full
<1>12. slots' = [slots EXCEPT ![p] = IF taken THEN @ + 1 ELSE @]
  BY <1>7, <1>8
<1>13. /\ taken => l = k /\ ~(slots[p] >= NetworkLimit)
       /\ ~taken => (l = k /\ ~Limited(k)) \/ l.at = "done"
  BY <1>8, <1>10
<1> HIDE DEF l, taken, full
<1>14. Changes(call, call', c, l)
  BY <1>1, <1>7, <1>11 DEF Changes
<1>15. call' \in [Calls -> Call] /\ call'[c] = l /\ \A d \in Calls : d # c => call'[d] = call[d]
  BY <1>14, OneCall
<1>16. CallsFit'
  BY <1>2, <1>11, <1>14, FitsOne DEF HostInv
<1>17. IsFiniteSet(Started(call'))
  BY <1>1, <1>14, StartedOne
<1>18. PromptsFit'
  BY <1>1, <1>2, <1>11, <1>14, PromptsElsewhere DEF PromptsFit
<1>19. StoppedStay'
  <2>1. c \notin stopped
    BY <1>1, <1>2 DEF Stays
  <2> QED BY <1>2, <1>14, <2>1, StoppedOne DEF HostInv
<1>20. ASSUME NEW q \in Plugins
       PROVE  /\ slots'[q] = Cardinality(Taking(call', q))
              /\ Cardinality(Taking(call', q)) <= NetworkLimit
  <2>1. /\ slots = [r \in Plugins |-> Cardinality(Taking(call, r))]
        /\ Cardinality(Taking(call, q)) <= NetworkLimit
        /\ IsFiniteSet(Taking(call, q)) /\ Cardinality(Taking(call, q)) \in Nat
    BY <1>1, TakingFinite DEF HostInv, SlotsFit
  <2>2. c \notin Taking(call, q)
    BY <1>2 DEF Taking, Active
  <2>3. CASE taken /\ q = p
    <3>1. Taking(call', q) = Taking(call, q) \cup {c}
      <4>1. ASSUME NEW d \in Calls
            PROVE  d \in Taking(call', q) <=> d \in Taking(call, q) \/ d = c
        BY <1>8, <1>13, <1>15, <2>3 DEF Taking, Active, taken
      <4> QED BY <4>1 DEF Taking
    <3>2. Cardinality(Taking(call, q) \cup {c}) = Cardinality(Taking(call, q)) + 1
      BY <2>1, <2>2, FS_AddElement
    <3>3. slots'[q] = slots[q] + 1 /\ slots[q] = Cardinality(Taking(call, q))
      BY <1>12, <2>1, <2>3
    <3>4. ~(Cardinality(Taking(call, q)) >= NetworkLimit)
      BY <1>13, <2>3, <3>3
    <3> QED BY <2>1, <3>1, <3>2, <3>3, <3>4, PluginHostAssumption
  <2>4. CASE ~(taken /\ q = p)
    <3>1. Taking(call', q) = Taking(call, q)
      <4>1. c \notin Taking(call', q)
        BY <1>8, <1>13, <1>15, <2>4 DEF Taking, Active
      <4>2. ASSUME NEW d \in Calls
            PROVE  d \in Taking(call', q) <=> d \in Taking(call, q)
        BY <1>15, <2>2, <4>1 DEF Taking
      <4> QED BY <4>2 DEF Taking
    <3>2. slots'[q] = slots[q] /\ slots[q] = Cardinality(Taking(call, q))
      BY <1>12, <2>1, <2>4
    <3> QED BY <2>1, <3>1, <3>2
  <2> QED BY <2>3, <2>4
<1>21. SlotsFit'
  <2>1. slots' = [q \in Plugins |-> slots'[q]]
    BY <1>12 DEF HostInv, SlotsFit
  <2> QED BY <1>20, <2>1 DEF SlotsFit
<1>22. SpentFit'
  BY <1>2, SpentKept DEF HostInv
<1>23. TypeOK'
  BY <1>2, <1>15 DEF HostInv, TypeOK
<1> QED BY <1>16, <1>17, <1>18, <1>19, <1>21, <1>22, <1>23 DEF HostInv
-----------------------------------------------------------------------------
\* Steps of a call in the hands of the core.
LEMMA CoreMove ==
  ASSUME HostInv, NEW c \in Calls, NEW k \in Call, call' = [call EXCEPT ![c] = k],
         UNCHANGED hostVars, call[c].at \in Core, k.at \in Core,
         k.plugin = call[c].plugin, k.method = call[c].method, k.id = call[c].id,
         k.dialogs = call[c].dialogs,
         k.at \in {"working", "running"} /\ k.method = "repositories.clone" => IntentFits(k)
  PROVE  /\ call' \in [Calls -> Call] /\ CallsFit' /\ IsFiniteSet(Started(call))'
         /\ StoppedStay' /\ PromptsFit' /\ SlotsFit'
<1>1. /\ call \in [Calls -> Call] /\ call[c] \in Call /\ Fits(c, call[c], yes)
      /\ (c \in stopped => Stays(call[c], remembered))
      /\ IsFiniteSet(Started(call)) /\ Prompted(prompts, call) /\ Within(call)
  BY CallFacts
<1>2. UNCHANGED <<slots, prompts, yes, remembered, stopped>>
  BY DEF hostVars
<1>3. Changes(call, call', c, k)
  BY <1>1 DEF Changes
<1>4. call' \in [Calls -> Call] /\ call'[c] = k /\ \A d \in Calls : d # c => call'[d] = call[d]
  BY <1>1
<1>5. Active(k) /\ Active(call[c]) /\ call[c].at # "asking" /\ k.at # "asking"
  BY DEF Active, Core
<1>6. Fits(c, k, yes)
  BY <1>1, <1>5 DEF Fits, Core
<1>7. CallsFit'
  BY <1>2, <1>3, <1>6, FitsOne DEF HostInv
<1>8. IsFiniteSet(Started(call'))
  BY <1>1, <1>3, StartedOne
<1>9. PromptsFit'
  BY <1>1, <1>2, <1>3, <1>5, PromptsElsewhere DEF PromptsFit
<1>10. StoppedStay'
  <2>1. c \notin stopped
    BY <1>1 DEF Stays, Core
  <2> QED BY <1>2, <1>3, <2>1, StoppedOne DEF HostInv
<1>11. \A p \in Plugins : Taking(call', p) = Taking(call, p)
  BY <1>4, <1>5 DEF Taking, Limited
<1>12. SlotsFit'
  BY <1>2, <1>11 DEF HostInv, SlotsFit
<1> QED BY <1>4, <1>7, <1>8, <1>9, <1>10, <1>12

\* What the clone intents may become: those that are gone stay so.
Fewer(few) ==
  /\ few \in [Intents -> {"none", "live", "expired", "gone"}]
  /\ \A i \in Intents : intents[i] = "gone" => few[i] = "gone"

LEMMA PurgedFacts ==
  ASSUME TypeOK
  PROVE  /\ Fewer(intents) /\ Fewer(Purged)
         /\ \A i \in Intents : intents[i] # "expired" => Purged[i] = intents[i]
BY DEF TypeOK, Fewer, Purged

LEMMA CoreKeeps ==
  ASSUME HostInv, NEW c \in Calls, NEW k \in Call, call' = [call EXCEPT ![c] = k],
         UNCHANGED <<spent, hostVars>>, Fewer(intents'),
         call[c].at \in Core, k.at \in Core,
         k.plugin = call[c].plugin, k.method = call[c].method, k.id = call[c].id,
         k.dialogs = call[c].dialogs,
         k.at \in {"working", "running"} /\ k.method = "repositories.clone" => IntentFits(k)
  PROVE  HostInv'
<1>1. /\ call' \in [Calls -> Call] /\ CallsFit' /\ IsFiniteSet(Started(call))'
      /\ StoppedStay' /\ PromptsFit' /\ SlotsFit'
  BY CoreMove
<1>2. UNCHANGED <<yes, remembered, stopped, frame, navigation>>
  BY DEF hostVars
<1>3. SpentFit'
  BY <1>2, SpentKept DEF HostInv, Fewer
<1>4. TypeOK'
  BY <1>1, <1>2 DEF HostInv, TypeOK, Fewer
<1> QED BY <1>1, <1>3, <1>4 DEF HostInv

\* A command returns to the host.
LEMMA ReturnedKeeps ==
  ASSUME HostInv, NEW c \in Calls, NEW k \in Call, NEW r \in Results, Returned(c, k, r),
         UNCHANGED <<spent, hostVars>>, Fewer(intents'), call[c].at \in Core,
         k.plugin = call[c].plugin, k.method = call[c].method, k.id = call[c].id,
         k.dialogs = call[c].dialogs
  PROVE  HostInv'
<1> DEFINE l == [k EXCEPT !.at = "returned", !.result = r]
<1>1. /\ l \in Call /\ l.at = "returned" /\ l.plugin = k.plugin /\ l.method = k.method
      /\ l.id = k.id /\ l.dialogs = k.dialogs
  BY DEF Call, Steps
<1>2. call' = [call EXCEPT ![c] = l]
  BY DEF Returned
<1> HIDE DEF l
<1>3. l.at \in Core /\ l.at \notin {"working", "running"}
  BY <1>1 DEF Core
<1> QED BY <1>1, <1>2, <1>3, CoreKeeps

\* A command goes to work.
LEMMA WorksKeeps ==
  ASSUME HostInv, NEW c \in Calls, call' = [call EXCEPT ![c].at = "working"],
         UNCHANGED <<spent, intents, hostVars>>, call[c].at \in Core, IntentFits(call[c])
  PROVE  HostInv'
<1>1. call \in [Calls -> Call] /\ call[c] \in Call /\ TypeOK
  BY CallFacts DEF HostInv
<1> DEFINE k == At(call[c], "working")
<1>2. call' = [call EXCEPT ![c] = k]
  BY <1>1 DEF At
<1>3. /\ k \in Call /\ k.at = "working" /\ k.plugin = call[c].plugin
      /\ k.method = call[c].method /\ k.id = call[c].id /\ k.intent = call[c].intent
      /\ k.dialogs = call[c].dialogs
  BY <1>1, AtFacts DEF Steps
<1> HIDE DEF k
<1>4. k.at \in Core /\ IntentFits(k)
  BY <1>3 DEF Core, IntentFits
<1>5. Fewer(intents')
  BY <1>1, PurgedFacts
<1> QED BY <1>2, <1>3, <1>4, <1>5, CoreKeeps

LEMMA ArriveKeeps ==
  ASSUME HostInv, NEW c \in Calls, Arrive(c)
  PROVE  HostInv'
<1> DEFINE k == call[c]
<1>1. k \in Call /\ TypeOK
  BY CallFacts DEF HostInv
<1>2. k.at \in Core /\ UNCHANGED <<spent, hostVars>>
  BY DEF Arrive, Core
<1>3. ASSUME NEW r \in Results, Returned(c, k, r), intents' \in {intents, Purged}
      PROVE  HostInv'
  BY <1>1, <1>2, <1>3, ReturnedKeeps, PurgedFacts
<1>4. ASSUME \E r \in {"ok", "failed", "refused", "busy"} : Returned(c, k, r),
             intents' \in {intents, Purged}
      PROVE  HostInv'
  BY <1>3, <1>4 DEF Results
<1>5. CASE CancelCommand(c, k)
  BY <1>4, <1>5 DEF CancelCommand
<1>6. CASE ~Permitted(k) /\ Returned(c, k, "refused") /\ UNCHANGED <<grants, table, intents>>
  BY <1>4, <1>6
<1>7. CASE Permitted(k) /\ Reserve(c, k)
  <2>1. CASE Returned(c, k, "busy")
    BY <1>4, <1>7, <2>1 DEF Reserve
  <2>2. CASE call' = [call EXCEPT ![c].at = "working"]
    BY <1>2, <1>7, <2>2, WorksKeeps DEF Reserve, Permitted
  <2> QED BY <1>7, <2>1, <2>2 DEF Reserve
<1>8. CASE /\ Permitted(k) /\ call' = [call EXCEPT ![c].at = "working"]
           /\ UNCHANGED <<grants, table, intents>>
  BY <1>2, <1>8, WorksKeeps DEF Permitted
<1>9. CASE Lookup(c, k)
  BY <1>4, <1>9 DEF Lookup
<1>10. CASE Grant(c, k)
  BY <1>4, <1>10 DEF Grant
<1>11. CASE Revoke(c, k)
  BY <1>4, <1>11 DEF Revoke
<1>12. CASE /\ \E r \in {"ok", "failed"} : Returned(c, k, r)
            /\ UNCHANGED <<grants, table, intents>>
  BY <1>4, <1>12
<1>13. \/ CancelCommand(c, k)
       \/ ~Permitted(k) /\ Returned(c, k, "refused") /\ UNCHANGED <<grants, table, intents>>
       \/ Permitted(k) /\ Reserve(c, k)
       \/ /\ Permitted(k) /\ call' = [call EXCEPT ![c].at = "working"]
          /\ UNCHANGED <<grants, table, intents>>
       \/ Lookup(c, k) \/ Grant(c, k) \/ Revoke(c, k)
       \/ /\ \E r \in {"ok", "failed"} : Returned(c, k, r)
          /\ UNCHANGED <<grants, table, intents>>
  BY DEF Arrive
<1> QED BY <1>5, <1>6, <1>7, <1>8, <1>9, <1>10, <1>11, <1>12, <1>13

LEMMA InsertKeeps ==
  ASSUME HostInv, NEW c \in Calls, Insert(c)
  PROVE  HostInv'
<1> DEFINE k == call[c]
<1>1. k \in Call /\ TypeOK
  BY CallFacts DEF HostInv
<1>2. k.at \in Core /\ UNCHANGED <<spent, hostVars>>
  BY DEF Insert, Core
<1>3. Fewer(intents) /\ Fewer(Purged)
  BY <1>1, PurgedFacts
<1>4. CASE Returned(c, k, "failed") /\ intents' \in {intents, Purged}
  <2>1. "failed" \in Results /\ Fewer(intents')
    BY <1>3, <1>4 DEF Results
  <2> QED BY <1>1, <1>2, <1>4, <2>1, ReturnedKeeps
<1>5. ASSUME NEW i \in Intents, intents[i] = "none", Returned(c, [k EXCEPT !.intent = i], "ok"),
             intents' = [Purged EXCEPT ![i] = "live"]
      PROVE  HostInv'
  <2> DEFINE l == [k EXCEPT !.intent = i]
  <2>1. /\ l \in Call /\ l.plugin = k.plugin /\ l.method = k.method /\ l.id = k.id
        /\ l.dialogs = k.dialogs
    BY <1>1 DEF Call
  <2>2. Returned(c, l, "ok") /\ "ok" \in Results
    BY <1>5 DEF Results
  <2>3. Fewer(intents')
    BY <1>3, <1>5 DEF Fewer
  <2> HIDE DEF l
  <2> QED BY <1>2, <2>1, <2>2, <2>3, ReturnedKeeps
<1>6. \/ Returned(c, k, "failed") /\ intents' \in {intents, Purged}
      \/ \E i \in Intents : /\ intents[i] = "none" /\ Returned(c, [k EXCEPT !.intent = i], "ok")
                            /\ intents' = [Purged EXCEPT ![i] = "live"]
  BY DEF Insert
<1> QED BY <1>4, <1>5, <1>6

\* The intent is alive until it is spent, so that nobody has spent it before.
LEMMA ConsumeKeeps ==
  ASSUME HostInv, NEW c \in Calls, Consume(c)
  PROVE  HostInv'
<1>1. /\ call \in [Calls -> Call] /\ call[c] \in Call /\ TypeOK /\ SpentFit
      /\ Fits(c, call[c], yes)
  BY CallFacts DEF HostInv
<1> DEFINE k == At(call[c], "running")
<1>2. call' = [call EXCEPT ![c] = k]
  BY <1>1 DEF Consume, At
<1>3. /\ k \in Call /\ k.at = "running" /\ k.plugin = call[c].plugin
      /\ k.method = call[c].method /\ k.id = call[c].id /\ k.intent = call[c].intent
      /\ k.dialogs = call[c].dialogs
  BY <1>1, AtFacts DEF Steps
<1> HIDE DEF k
<1>4. /\ call[c].at = "working" /\ call[c].method = "repositories.clone"
      /\ call[c].intent # None /\ UNCHANGED hostVars
  BY DEF Consume
<1>5. IntentFits(call[c]) /\ call[c].plugin = GitClient
  BY <1>1, <1>4 DEF Fits, IntentFits
<1>6. call[c].at \in Core /\ k.at \in Core /\ IntentFits(k)
  BY <1>3, <1>4, <1>5 DEF Core, IntentFits
<1>7. /\ call' \in [Calls -> Call] /\ CallsFit' /\ IsFiniteSet(Started(call))'
      /\ StoppedStay' /\ PromptsFit' /\ SlotsFit'
  BY <1>2, <1>3, <1>4, <1>6, CoreMove
<1>8. UNCHANGED <<yes, remembered, stopped, frame, navigation>>
  BY <1>4 DEF hostVars
<1>9. PICK i \in Intents : i = call[c].intent
  BY <1>1, <1>4 DEF Call
<1>10. /\ intents[i] = "live" /\ intents' = [Purged EXCEPT ![i] = "gone"]
       /\ spent' = spent \cup {<<c, GitClient, i, "live">>}
  BY <1>5, <1>9 DEF Consume
<1>11. Fewer(Purged)
  BY <1>1, PurgedFacts
<1>12. Fewer(intents') /\ intents'[i] = "gone"
  BY <1>10, <1>11 DEF Fewer
<1>13. TypeOK'
  BY <1>1, <1>7, <1>8, <1>12 DEF TypeOK, Fewer
<1>14. <<c, 1>> \in yes
  <2>1. PICK dialogs \in Confirmations("repositories.clone") : 1 \in DOMAIN dialogs
    BY MethodFacts DEF Confirmations
  <2>2. call[c].dialogs = <<>> /\ call[c].method \in Operations
    BY <1>1, <1>4, <1>6, MethodFacts DEF Fits
  <2>3. 1 > Len(call[c].dialogs)
    BY <2>2
  <2> QED BY <1>1, <1>4, <1>6, <2>1, <2>2, <2>3 DEF Fits
<1>15. SpentFit'
  <2> DEFINE new == <<c, GitClient, i, "live">>
  <2>1. /\ new[1] = c /\ new[2] = GitClient /\ new[3] = i /\ new[4] = "live"
    OBVIOUS
  <2> HIDE DEF new
  <2>2. spent' = spent \cup {new}
    BY <1>10 DEF new
  <2>3. \A s \in spent : s[3] # i
    BY <1>1, <1>10 DEF SpentFit
  <2>4. ASSUME NEW s \in spent'
        PROVE  /\ s[4] = "live" /\ s[2] = GitClient /\ <<s[1], 1>> \in yes
               /\ s[3] \in Intents /\ intents'[s[3]] = "gone"
    BY <1>1, <1>12, <1>14, <2>1, <2>2 DEF SpentFit, Fewer
  <2>5. ASSUME NEW s \in spent', NEW t \in spent', s[3] = t[3]
        PROVE  s = t
    BY <1>1, <2>1, <2>2, <2>3, <2>5 DEF SpentFit
  <2> QED BY <1>8, <2>4, <2>5 DEF SpentFit
<1> QED BY <1>7, <1>13, <1>15 DEF HostInv

LEMMA FinishKeeps ==
  ASSUME HostInv, NEW c \in Calls, Finish(c)
  PROVE  HostInv'
<1>1. call[c] \in Call /\ TypeOK
  BY CallFacts DEF HostInv
<1>2. /\ call[c].at \in Core /\ UNCHANGED <<intents, spent, hostVars>>
  BY DEF Finish, Core
<1>3. PICK r \in {"ok", "failed", "canceled"} : Returned(c, call[c], r)
  BY DEF Finish
<1>4. r \in Results /\ Fewer(intents')
  BY <1>1, <1>2, PurgedFacts DEF Results
<1> QED BY <1>1, <1>2, <1>3, <1>4, ReturnedKeeps
-----------------------------------------------------------------------------
\* At the start nothing has been asked, and no slot is taken.
LEMMA InitHost == Init => HostInv
<1> SUFFICES ASSUME Init PROVE HostInv
  OBVIOUS
<1>1. <<>> \in Seq(Dialogs) /\ Idle \in Call /\ Idle.at = "idle"
  <2>1. <<>> \in Seq(Dialogs)
    OBVIOUS
  <2> QED BY <2>1 DEF Idle, Call, Steps, Results
<1>2. call \in [Calls -> Call] /\ \A c \in Calls : call[c] = Idle
  BY <1>1 DEF Init
<1>3. TypeOK
  <2>1. /\ remembered \in Seq(Plugins \X Ids) /\ navigation \in Seq(Intents \cup {None})
    BY DEF Init
  <2>2. FrameOK(frame)
    BY DEF Init, FrameOK
  <2>3. intents \in [Intents -> {"none", "live", "expired", "gone"}]
    BY DEF Init
  <2> QED BY <1>2, <2>1, <2>2, <2>3 DEF TypeOK, Init
<1>4. CallsFit
  <2>1. \A c \in Calls : Fits(c, Idle, yes)
    BY <1>1 DEF Fits, Active, Core
  <2> QED BY <1>2, <2>1 DEF CallsFit
<1>5. Started(call) = {}
  BY <1>2 DEF Started
<1>6. IsFiniteSet({}) /\ Cardinality({}) = 0
  BY FS_EmptySet
<1>7. StoppedStay
  BY DEF Init, StoppedStay
<1>8. ConfCalls(call) = {} /\ FormCalls(call) = {}
  BY <1>1, <1>2 DEF ConfCalls, FormCalls
<1>9. PromptsFit
  <2>1. ConfIds(call) = {} /\ FormIds(call) = {}
    BY <1>8 DEF ConfIds, FormIds, IdsOf
  <2>2. BrokerOK(NothingAsked, {}, {})
    BY DEF BrokerOK, NothingAsked, Broker, IsInjective, Range
  <2>3. \A p \in Plugins : {c \in ConfCalls(call) : call[c].plugin = p} = {}
    BY <1>8
  <2>4. MaxPending \in Nat /\ MaxPerPlugin \in Nat
    BY PluginHostAssumption
  <2>5. Within(call)
    BY <1>6, <1>8, <2>3, <2>4 DEF Within
  <2> QED BY <2>1, <2>2, <2>5 DEF PromptsFit, Prompted, Init
<1>10. SlotsFit
  <2>1. \A p \in Plugins : Taking(call, p) = {}
    BY <1>1, <1>2 DEF Taking, Active
  <2>2. NetworkLimit \in Nat
    BY PluginHostAssumption
  <2>3. \A p \in Plugins : Cardinality(Taking(call, p)) = 0
    BY <1>6, <2>1
  <2>4. slots = [p \in Plugins |-> Cardinality(Taking(call, p))]
    BY <2>3 DEF Init
  <2>5. \A p \in Plugins : Cardinality(Taking(call, p)) <= NetworkLimit
    BY <2>2, <2>3
  <2> QED BY <2>4, <2>5 DEF SlotsFit
<1>11. SpentFit
  BY DEF Init, SpentFit
<1> QED BY <1>3, <1>4, <1>5, <1>6, <1>7, <1>9, <1>10, <1>11 DEF HostInv

LEMMA NextKeeps == HostInv /\ [Next]_vars => HostInv'
<1> SUFFICES ASSUME HostInv, [Next]_vars PROVE HostInv'
  OBVIOUS
<1>1. CASE Next
  <2>1. CASE \E plugin \in Plugins : Select(plugin)
    BY <2>1, SelectKeeps
  <2>2. CASE Ready \/ Render \/ Unmount \/ Forget
    BY <2>2, ReadyKeeps, RenderKeeps, UnmountKeeps, ForgetKeeps
  <2>3. CASE \E agree \in BOOLEAN : Answer(agree)
    BY <2>3, AnswerKeeps
  <2>4. CASE \E i \in Intents : Expire(i)
    BY <2>4, ExpireKeeps
  <2>5. ASSUME NEW c \in Calls, Send(c) \/ Check(c) \/ List(c) \/ Choose(c)
        PROVE  HostInv'
    BY <2>5, SendKeeps, CheckKeeps, ListKeeps, ChooseKeeps
  <2>6. ASSUME NEW c \in Calls,
               Arrive(c) \/ Insert(c) \/ Consume(c) \/ Finish(c) \/ Return(c)
        PROVE  HostInv'
    BY <2>6, ArriveKeeps, InsertKeeps, ConsumeKeeps, FinishKeeps, ReturnKeeps
  <2> QED BY <1>1, <2>1, <2>2, <2>3, <2>4, <2>5, <2>6 DEF Next
<1>2. CASE UNCHANGED vars
  BY <1>2, StutterKeeps
<1> QED BY <1>1, <1>2

\* HostInv is an invariant of the host: its calls, the prompt brokers, the
\* slots of the limiter, the cancellations and the intents go together.
THEOREM HostInvariant == Spec => []HostInv
<1> QED BY InitHost, NextKeeps, PTL DEF Spec
-----------------------------------------------------------------------------
\* As many wait in a queue without repetition as the queue is long.
LEMMA CardQueue ==
  ASSUME NEW S, NEW q \in Seq(S), IsInjective(q)
  PROVE  IsFiniteSet(Range(q)) /\ Cardinality(Range(q)) = Len(q)
<1>1. Len(q) \in Nat /\ DOMAIN q = 1..Len(q)
  OBVIOUS
<1> DEFINE g == [n \in 1..Len(q) |-> q[n]]
<1>2. g \in Bijection(1..Len(q), Range(q))
  BY <1>1 DEF IsInjective, Range, Bijection, Injection, Surjection
<1>3. ExistsBijection(1..Len(q), Range(q))
  BY <1>2 DEF ExistsBijection
<1>4. Cardinality(Range(q)) = Len(q)
  BY <1>1, <1>3, FS_CountingElements
<1>5. IsFiniteSet(1..Len(q))
  BY <1>1, FS_Interval
<1> QED BY <1>3, <1>4, <1>5, FS_Bijection

\* The gate belongs to the one prompt that is open, and the prompts are those
\* of the calls that wait, one for each.
LEMMA PromptsWaited == HostInv => PromptsAreWaitedFor
<1> SUFFICES ASSUME HostInv PROVE PromptsAreWaitedFor
  OBVIOUS
<1> DEFINE open == {prompts.shown, prompts.form} \ {None}
           waiting == Range(prompts.queue)
<1>1. /\ call \in [Calls -> Call] /\ IsFiniteSet(Started(call)) /\ Within(call)
      /\ BrokerOK(prompts, ConfIds(call), FormIds(call))
  BY DEF HostInv, TypeOK, PromptsFit, Prompted
<1>2. prompts.queue \in Seq(PromptIds) /\ IsInjective(prompts.queue)
  BY <1>1 DEF BrokerOK, Broker
<1>3. None \notin waiting
  <2>1. waiting \subseteq PromptIds
    BY <1>2, SequenceFacts
  <2> QED BY <2>1, PluginHostAssumption DEF PromptIds
<1>4. open = {prompts.owner} \ {None}
  BY <1>1 DEF BrokerOK
<1>5. open \cap waiting = {}
  <2>1. CASE prompts.form = None
    BY <1>1, <2>1 DEF BrokerOK
  <2>2. CASE prompts.form # None
    <3>1. prompts.shown = None /\ prompts.queue = <<>>
      BY <1>1, <2>2 DEF BrokerOK
    <3>2. waiting = {}
      BY <1>2, <3>1, SequenceFacts
    <3> QED BY <3>2
  <2> QED BY <2>1, <2>2
<1>6. Asking = ConfCalls(call) \cup FormCalls(call)
  BY DEF Asking, ConfCalls, FormCalls
<1>7. open \cup waiting = IdsOf(call, Asking)
  <2>1. /\ ConfIds(call) = ({prompts.shown} \ {None}) \cup waiting
        /\ FormIds(call) = {prompts.form} \ {None}
    BY <1>1 DEF BrokerOK
  <2>2. IdsOf(call, Asking) = ConfIds(call) \cup FormIds(call)
    BY <1>6 DEF IdsOf, ConfIds, FormIds
  <2> QED BY <2>1, <2>2
<1>8. Asking \in SUBSET Calls /\ IsFiniteSet(Asking)
  <2>1. Asking \in SUBSET Started(call)
    BY DEF Asking, Started, Idle
  <2> QED BY <1>1, <2>1, FS_Subset DEF Asking
<1>9. IsFiniteSet(open) /\ Cardinality(open) \in Nat
  <2>1. IsFiniteSet({}) /\ IsFiniteSet({prompts.owner})
    BY FS_EmptySet, FS_Singleton
  <2>2. open \in SUBSET {prompts.owner}
    BY <1>4
  <2> QED BY <2>1, <2>2, FS_Subset, FS_CardinalityType
<1>10. IsFiniteSet(waiting) /\ Cardinality(waiting) = Len(prompts.queue)
  BY <1>2, CardQueue
<1>11. Cardinality(Asking) = Cardinality(open) + Len(prompts.queue)
  <2>1. Cardinality(IdsOf(call, Asking)) = Cardinality(Asking)
    BY <1>1, <1>8, CardIds
  <2>2. Cardinality(open \cup waiting) =
        Cardinality(open) + Cardinality(waiting) - Cardinality(open \cap waiting)
    BY <1>9, <1>10, FS_Union
  <2>3. Cardinality(open \cap waiting) = 0
    BY <1>5, FS_EmptySet
  <2>4. Len(prompts.queue) \in Nat
    BY <1>2
  <2> HIDE DEF open, waiting
  <2>5. Cardinality(open \cup waiting) = Cardinality(Asking)
    BY <1>7, <2>1
  <2> QED BY <1>9, <1>10, <2>2, <2>3, <2>4, <2>5
<1>12. {c \in Asking : call[c].dialogs # <<>>} = ConfCalls(call)
  BY DEF Asking, ConfCalls
<1>13. \A p \in Plugins : {c \in Asking : call[c].dialogs # <<>> /\ call[c].plugin = p} =
                          {c \in ConfCalls(call) : call[c].plugin = p}
  BY DEF Asking, ConfCalls
<1>14. prompts.queue # <<>> => prompts.shown # None
  BY <1>1 DEF BrokerOK
<1>15. open \cup waiting = {PromptId(c, call[c]) : c \in Asking}
  BY <1>7 DEF IdsOf
<1>16. /\ Cardinality({c \in Asking : call[c].dialogs # <<>>}) <= MaxPending
       /\ \A p \in Plugins :
            Cardinality({c \in Asking : call[c].dialogs # <<>> /\ call[c].plugin = p})
              <= MaxPerPlugin
  BY <1>1, <1>12, <1>13 DEF Within
<1> QED BY <1>4, <1>11, <1>14, <1>15, <1>16 DEF PromptsAreWaitedFor

\* Nothing is left to be asked of a call that was sent.
LEMMA AskedFor == HostInv => NothingRunsUnasked
<1> SUFFICES ASSUME HostInv, NEW c \in Calls, AtCore(c) \/ call[c].at = "choosing"
             PROVE  /\ call[c].method \in Operations =>
                         \A dialogs \in Confirmations(call[c].method) :
                           \A n \in DOMAIN dialogs : <<c, n>> \in yes
                    /\ call[c].method \in Forms => <<c, 0>> \in yes
  BY DEF NothingRunsUnasked
<1>1. Fits(c, call[c], yes)
  BY CallFacts
<1>2. call[c].at \in {"choosing"} \cup Core
  BY DEF AtCore, Core
<1>3. call[c].dialogs = <<>>
  BY <1>1, <1>2 DEF Fits
<1>4. ASSUME call[c].method \in Operations,
             NEW dialogs \in Confirmations(call[c].method), NEW n \in DOMAIN dialogs
      PROVE  <<c, n>> \in yes
  <2>1. dialogs \in Seq(Dialogs)
    BY <1>4, MethodFacts
  <2>2. n > Len(call[c].dialogs)
    BY <1>3, <2>1
  <2> QED BY <1>1, <1>2, <1>4, <2>2 DEF Fits
<1>5. call[c].method \in Forms => <<c, 0>> \in yes
  BY <1>1, <1>2, MethodFacts DEF Fits
<1> QED BY <1>4, <1>5

\* An operation canceled before it was sent is not sent.
THEOREM CanceledAlwaysStays == Spec => []CanceledStaysAtHome
<1>1. HostInv => CanceledStaysAtHome
  BY DEF HostInv, StoppedStay, Stays, CanceledStaysAtHome, AtCore
<1> QED BY <1>1, HostInvariant, PTL

\* Every prompt is that of a call which waits for it, and every call that waits
\* has its prompt; the gate is not left with anybody else, and the limits hold.
THEOREM PromptsAlwaysWaited == Spec => []PromptsAreWaitedFor
<1> QED BY PromptsWaited, HostInvariant, PTL

\* No operation goes to the core before the user agreed to all its dialogs.
THEOREM NothingEverUnasked == Spec => []NothingRunsUnasked
<1> QED BY AskedFor, HostInvariant, PTL

\* The limiter counts the requests under way, and no others.
THEOREM SlotsAlwaysReturn == Spec => []SlotsAreGivenBack
<1>1. HostInv => SlotsAreGivenBack
  <2> SUFFICES ASSUME HostInv PROVE SlotsAreGivenBack
    OBVIOUS
  <2>1. \A p \in Plugins : {c \in Calls : /\ call[c].at \notin {"idle", "done"}
                                          /\ call[c].plugin = p /\ Limited(call[c])}
                           = Taking(call, p)
    BY DEF Taking, Active
  <2> QED BY <2>1 DEF HostInv, SlotsFit, SlotsAreGivenBack
<1> QED BY <1>1, HostInvariant, PTL

\* An intent serves one clone, of the git client, that the user agreed to.
THEOREM IntentsAlwaysOnce == Spec => []IntentsAreSpentOnce
<1>1. HostInv => IntentsAreSpentOnce
  BY DEF HostInv, SpentFit, IntentsAreSpentOnce
<1> QED BY <1>1, HostInvariant, PTL
=============================================================================
