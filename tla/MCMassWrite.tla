----------------------------- MODULE MCMassWrite -----------------------------
(***************************************************************************)
(* Instance of MassWrite for TLC: a root and five rows, the second dropped *)
(* by mapFn, the third with an occupied destination.                       *)
(***************************************************************************)
EXTENDS MassWrite
=============================================================================
