----------------------------- MODULE MCIdentities -----------------------------
(***************************************************************************)
(* Two profiles that may differ in the flag, one repository, and two       *)
(* calls: a writer and a commit, two commits, or two writers that wait.    *)
(***************************************************************************)
EXTENDS Identities, TLC

MCContents == {<<"ann", "off">>, <<"ann", "on">>}

\* No profile and no call is special.
Symmetry == Permutations(Profiles) \cup Permutations(Calls)
=============================================================================
