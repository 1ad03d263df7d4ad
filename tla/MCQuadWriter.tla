---------------------------- MODULE MCQuadWriter ----------------------------
(***************************************************************************)
(* QuadWriter for TLC: no graph, the default graph and two named graphs;    *)
(* two subjects and two predicates.                                        *)
(***************************************************************************)
EXTENDS QuadWriter

CONSTANTS def, g1, g2, a, b, p, q

MCNodes == {def, g1, g2, a, b, p, q}
MCQuads == {Null, def, g1, g2} \X {a, b} \X {p, q} \X {b}
=============================================================================
