---------------------------- MODULE MCStoredShape ----------------------------
(***************************************************************************)
(* Instance of StoredShape for TLC: a hierarchy three deep with one value  *)
(* a tier, gaps in it, a searchable field with two values and another one. *)
(***************************************************************************)
EXTENDS StoredShape, TLC

MCKeyFields == <<"state", "city", "place">>
MCValuesOf ==
    ("state" :> {"x"}) @@ ("city" :> {"x"}) @@ ("place" :> {"x"})
        @@ ("name" :> {"Ann", "Bob"}) @@ ("note" :> {"n"})
MCMirrorOf == "name" :> "-search-name"
MCLower == ("Ann" :> "ann") @@ ("Bob" :> "bob")
MCStripped == Managed
MCProjections == {{"note"}, {"name", "-search-name"}, KeyNames \cup {"note"}}
=============================================================================
