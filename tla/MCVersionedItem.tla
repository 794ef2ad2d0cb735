--------------------------- MODULE MCVersionedItem ---------------------------
(***************************************************************************)
(* Instances of VersionedItem for TLC.  The clients are interchangeable,   *)
(* and so are the keys: nothing in the specification tells them apart.     *)
(***************************************************************************)
EXTENDS VersionedItem, TLC

Symmetry == Permutations(Clients) \cup Permutations(Keys)
=============================================================================
