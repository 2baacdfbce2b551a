----------------------------- MODULE MCHotReload -----------------------------
(***************************************************************************)
(* A small program for HotReload: a literal, a slow table made from it, a  *)
(* cheap value made from the table, a value next to it that an added       *)
(* declaration changes, one that holds both, and a memoized scope.         *)
(***************************************************************************)
EXTENDS HotReload

Declarations == {"size", "table", "view", "names", "all", "draw", "shadow"}

Program ==
    [size |-> {}, table |-> {"size"}, view |-> {"table"}, names |-> {"shadow"},
     all |-> {"view", "names"}, draw |-> {}, shadow |-> {}]

Stores == <<<<"size">>, <<"table">>, <<"view">>, <<"names", "all">>>>

(* The table as an edit makes it raises. *)
Failing == {<<"table", 1>>}
=============================================================================
