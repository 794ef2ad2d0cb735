---------------------------- MODULE MCApplyBatch ----------------------------
(***************************************************************************)
(* Instance of ApplyBatch for TLC: two full chunks and a short one.        *)
(***************************************************************************)
EXTENDS ApplyBatch
=============================================================================
