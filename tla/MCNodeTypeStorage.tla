-------------------------- MODULE MCNodeTypeStorage --------------------------
(***************************************************************************)
(* NodeTypeStorage for TLC: values whose hashes collide in pairs, and words *)
(* of two bits, so that a store of a few values spans several words.        *)
(***************************************************************************)
EXTENDS NodeTypeStorage, TLC

CONSTANTS v1, v2, v3, v4, v5, v6

IriValues == {v1, v2, v3, v4, v5, v6}
IriHash == (v1 :> 0 @@ v3 :> 0 @@ v4 :> 0) @@ (v2 :> 1 @@ v5 :> 1 @@ v6 :> 2)

LiteralValues == {v3, v4, v5, v6}
LiteralHash == [v \in LiteralValues |-> IriHash[v]]

\* The IRI store: ids 1 and 3 are fixed datatypes, 2 is a gap between them.
MCReserved == 1 :> v1 @@ 3 :> v2
MCNoneReserved == <<>>
=============================================================================
