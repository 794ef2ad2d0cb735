---------------------------- MODULE MCReadByKeys ----------------------------
(***************************************************************************)
(* Instance of ReadByKeys for TLC: two full chunks and a short one, with a *)
(* key that is wanted again in a later chunk.                              *)
(***************************************************************************)
EXTENDS ReadByKeys

MCWanted == <<"a", "b", "c", "a", "b">>
=============================================================================
