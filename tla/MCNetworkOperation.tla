------------------------- MODULE MCNetworkOperation -------------------------
(***************************************************************************)
(* Two calls and one local write on one repository: all three want its     *)
(* lock, and the two calls its registry entry.  With two ids the calls run *)
(* next to each other or one after the other under one id.                 *)
(***************************************************************************)
EXTENDS NetworkOperation
=============================================================================
