-------------------------- MODULE MCSubtreeRename --------------------------
(***************************************************************************)
(* Instance of SubtreeRename for TLC: a root and four rows, the second     *)
(* dropped by mapFn, the third with an occupied destination.               *)
(***************************************************************************)
EXTENDS SubtreeRename
=============================================================================
