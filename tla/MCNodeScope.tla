----------------------------- MODULE MCNodeScope -----------------------------
(***************************************************************************)
(* NodeScope for TLC: two graph names with seeds of their own.              *)
(***************************************************************************)
EXTENDS NodeScope, TLC

CONSTANTS t1, t2, l1, l2

MCThreads == {t1, t2}
MCLabels == {l1, l2}
MCNames == {"g1", "g2"}
MCSeed == "g1" :> 1 @@ "g2" :> 2
=============================================================================
