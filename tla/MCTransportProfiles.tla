------------------------- MODULE MCTransportProfiles -------------------------
(***************************************************************************)
(* Two profiles, which may say the same or not, and two keys: a write that *)
(* fails between the keys, and a switch from one profile to the other.     *)
(***************************************************************************)
EXTENDS TransportProfiles, ManagedConfig, TLC

\* No profile, no content and no repository is special.
Symmetry ==
  Permutations(Profiles) \cup Permutations(Contents) \cup Permutations(Repositories)

-----------------------------------------------------------------------------
\* The keys and values themselves.
MCLower == ("H" :> "h") @@ ("h" :> "h") @@ ("[::1]" :> "[::1]")
MCBare == ("r.git" :> "r") @@ ("r.git.git" :> "r.git")

Remotes2 ==
  {Url(scheme, user, host, port, path) :
     scheme \in {"https", "ssh"}, user \in {"", "git"}, host \in DOMAIN MCLower,
     port \in {NoPort, 22, 443, 8443}, path \in {<<"g", "r.git">>, <<"g", "r.git.git">>, <<"g", ".", "r">>}}
  \cup {Scp("git", host, <<"g", "r">>) : host \in {"H", "h"}}

Texts == UNION {[1..n -> {"q", "\\", " ", "k"}] : n \in 1..4}
ProfilesOf(kind) ==
  [kind : {kind}, fit : BOOLEAN, only : {TRUE}, text : {<<"k">>, <<"q", " ">>}]

\* What git config prints after the plan has been written.
Written(plan) ==
  {<<[p[1] EXCEPT !.name = IF @ \in DOMAIN Printed THEN Printed[@] ELSE @], p[2]>> : p \in plan}

\* What a profile writes is read back as just that, and can be restored
\* later: so a repository that nobody has touched never looks drifted.  But an
\* address with an IPv6 host makes a key that is not recognised again.
ASSUME PlansAreReadBack ==
  \A t \in {x \in Remotes2 : Valid(x) # NoAddress} :
    \A profile \in ProfilesOf(Valid(t).kind) :
      LET plan    == Plan(profile, Valid(t))
          printed == SetToSeq(Written(plan))
      IN /\ plan # {} <=> profile.fit
         /\ plan # {} =>
              (/\ \A i \in DOMAIN printed : Owned(printed[i][1])
               /\ CanBeRead(printed)
               /\ ParsedConfig(printed) = PlanSnapshot(plan) /\ Restorable(PlanSnapshot(plan)))
              <=> ~(Valid(t).kind = "https" /\ Lower[t.host] \in Bracketed)

\* A name that the user has given for a whole host is read as one of the keys
\* of the program, and cannot be: with it, no managed key can be read.
ASSUME HostWideNamesCannotBeRead ==
  \A host \in {"h"}, port \in {NoPort, 8443} :
    LET key == Key(UserName, Url("https", "", host, port, <<>>))
    IN Owned(key) /\ ~CanBeRead(<<<<key, <<"k">> >> >>)

\* The shell, of which the parts in quotes and the escaped characters become
\* one word, gives git the very file that was chosen.
Word[text \in Seq({"q", "\\", " ", "k"}), inside \in BOOLEAN] ==
  CASE text = <<>> -> IF inside THEN <<"open">> ELSE <<>>
    [] text # <<>> /\ Head(text) = "q" -> Word[Tail(text), ~inside]
    [] text # <<>> /\ inside /\ Head(text) # "q" -> <<Head(text)>> \o Word[Tail(text), TRUE]
    [] text # <<>> /\ ~inside /\ Head(text) = "\\" ->
         <<text[2]>> \o Word[SubSeq(text, 3, Len(text)), FALSE]
    [] text # <<>> /\ ~inside /\ Head(text) \notin {"q", "\\"} -> <<"split">>

ASSUME QuotingIsUndoneByTheShell == \A text \in Texts : Word[Quoted(text), FALSE] = text
=============================================================================
