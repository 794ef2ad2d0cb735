---------------------------- MODULE MCRestSession ----------------------------
(***************************************************************************)
(* Instance of RestSession for TLC: every route, a method nobody knows and *)
(* paths that match none; windows before, across and beyond the end of a   *)
(* short list, and queries below, inside and beyond the policy's bounds.   *)
(***************************************************************************)
EXTENDS RestSession

MCMethods ==
    {"by-names", "load", "clone", "move", "clone-by-names", "move-by-names", "other"}

MCPaths ==
    {<<>>, <<"key">>, <<"key", "key">>, <<"load", "clone">>}
        \cup {<<m>> : m \in MCMethods} \cup {<<"key", m>> : m \in MCMethods}
MCOffsets == -1..(N + 1)
MCLimits == 0..(N + 1)
MCAskedOffsets == {<<>>, <<-1>>, <<1>>, <<N + 2>>}
MCAskedLimits == {<<0>>, <<1>>, <<N + 1>>}
=============================================================================
