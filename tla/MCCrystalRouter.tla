----------------------------- MODULE MCCrystalRouter -----------------------------
(* Instances of CrystalRouter for TLC: groups of two to five ranks whose vertices  *)
(* are in the order of their global numbers, and one where they are not.           *)
EXTENDS CrystalRouter

New == [g \in 1 .. 10 |-> 20 - g]

Group(g, b, eager) == [gnum |-> g, block |-> b, eager |-> eager]

\* Vertices shared by two ranks, ranks without any, all vertices in one block, vertices
\* that are not in order.
Two   == {<<a, b>> : a, b \in {<<>>, <<1>>, <<1, 3>>, <<2, 3, 4>>, <<3, 4>>}}
Mixed == {<<<<3, 1, 4>>, <<2, 1>>>>}
Three == {<<a, b, c>> : a \in {<<1, 2, 6>>, <<5>>}, b \in {<<>>, <<1, 3, 5>>},
                        c \in {<<1, 2>>, <<2, 4, 6>>}}
Four  == {<<<<2, 7>>, <<1, 2, 8>>, <<>>, <<1, 4, 5>>>>}
Five  == {<<<<4, 9>>, <<1, 9>>, <<10>>, <<2, 7>>, <<1, 5>>>>}

RouterSetups ==
  {Group(g, 2, e) : g \in Two \cup Mixed \cup Three \cup Four \cup Five, e \in BOOLEAN}
===============================================================================
