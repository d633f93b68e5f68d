-------------------------- MODULE MCOfflineActions --------------------------
(* TLC instance of OfflineActions.                                          *)
EXTENDS OfflineActions

CONSTANTS t1, t2, f1, f2
Singles == {<<f>> : f \in Fields}
=============================================================================
