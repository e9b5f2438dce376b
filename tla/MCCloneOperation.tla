-------------------------- MODULE MCCloneOperation --------------------------
(***************************************************************************)
(* Two clones to one final path, with the same id or with two, while       *)
(* somebody else may take the path and the process may die at every step.  *)
(***************************************************************************)
EXTENDS CloneOperation
=============================================================================
