-------------------------- MODULE MCProviderAccounts --------------------------
(***************************************************************************)
(* Two accounts, so that there is a default to hand over, and two calls,   *)
(* on one account or on both.  A second run looks at what a rotation and a *)
(* validation of one account do to each other.                             *)
(***************************************************************************)
EXTENDS ProviderAccounts, TLC

\* No account and no call is special.
Symmetry == Permutations(Accounts) \cup Permutations(Calls)
=============================================================================
