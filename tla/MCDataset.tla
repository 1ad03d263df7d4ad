------------------------------ MODULE MCDataset ------------------------------
(***************************************************************************)
(* Dataset for TLC: three graphs, four triples of blank and other nodes,   *)
(* patterns with every kind of graph: fixed, unknown, variable.            *)
(***************************************************************************)
EXTENDS Dataset

CONSTANTS def, g1, g2, a, b, p, x, y, z

MCNames == {def, g1, g2}
MCNodes == {def, g1, g2, a, b, p}
MCVariables == {x, y, z}
MCTriples == {<<a, p, a>>, <<a, p, b>>, <<b, p, a>>, <<a, p, p>>}
MCBlankNodes == {a, b}
MCRank == [n \in {a, b, p} |-> IF n = a THEN 2 ELSE IF n = b THEN 1 ELSE 3]
MCPatterns == {<<z, x, p, y>>, <<z, a, p, y>>, <<z, b, p, b>>, <<z, b, p, a>>,
               <<g1, x, p, y>>, <<g1, x, p, a>>}
=============================================================================
