----------------------------- MODULE MCGateway ------------------------------
(***************************************************************************)
(* Instances of Gateway for TLC.  Each .cfg gives a question the           *)
(* connections, the definitions and the bounds it needs.                   *)
(***************************************************************************)
EXTENDS Gateway, TLC

CONSTANTS c1, c2, c3, none

page == [origin |-> "o", app |-> "a", instance |-> 1, runtime |-> "r"]
other == [page EXCEPT !.instance = 2]

\* Two connections of one tab, and a third of another tab of the same Origin.
MCThree == {c1, c2, c3}
MCPages == {page, other}
MCPageOfThree == [c \in MCThree |-> IF c = c3 THEN other ELSE page]

\* Two connections of one tab.
MCTwo == {c1, c2}
MCOnePage == {page}
MCPageOfTwo == [c \in MCTwo |-> page]

\* One connection.
MCOne == {c1}
MCPageOfOne == [c \in MCOne |-> page]

MCSymmetry == Permutations({c1, c2})

MCNoDefinitions == {}
MCOneTool == {[id |-> "d", kind |-> "tool", name |-> "n", uri |-> "", bytes |-> 1]}
MCSafeName == [name \in {"n"} |-> name]
MCKinds == {"tool"}
MCBrowserErrors == {"HANDLER_ERROR"}
=============================================================================
