--------------------------- MODULE MCProvisioning ---------------------------
(***************************************************************************)
(* Instance of Provisioning for TLC: two declarations that share an index  *)
(* and disagree on its shape, each with an index the other lacks.          *)
(***************************************************************************)
EXTENDS Provisioning, TLC

MCDeclared ==
    ("a" :> [gsi |-> <<"g1", "g2">>, descriptor |-> TRUE,
             shape |-> "base" :> 1 @@ "g1" :> 1 @@ "g2" :> 1])
    @@
    ("b" :> [gsi |-> <<"g2", "g3">>, descriptor |-> FALSE,
             shape |-> "base" :> 1 @@ "lsi" :> 1 @@ "g2" :> 2 @@ "g3" :> 1])
=============================================================================
