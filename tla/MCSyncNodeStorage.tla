-------------------------- MODULE MCSyncNodeStorage --------------------------
(***************************************************************************)
(* SyncNodeStorage for TLC: three threads and three values, one of them     *)
(* reserved at id 1.                                                       *)
(***************************************************************************)
EXTENDS SyncNodeStorage, TLC

CONSTANTS t1, t2, t3, v1, v2, v3

MCThreads == {t1, t2, t3}
MCValues == {v1, v2, v3}
MCReserved == 1 :> v1
=============================================================================
