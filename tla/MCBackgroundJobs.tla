-------------------------- MODULE MCBackgroundJobs --------------------------
(***************************************************************************)
(* Two jobs, each an echo job or a transport job, share the operation lock *)
(* and the start-up sweep.  FullProgress = 3 leaves two rounds to report:  *)
(* a first one and one that follows another.                               *)
(***************************************************************************)
EXTENDS BackgroundJobs
=============================================================================
