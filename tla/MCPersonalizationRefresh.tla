----------------------- MODULE MCPersonalizationRefresh -----------------------
(* TLC instance of PersonalizationRefresh.                                 *)
EXTENDS PersonalizationRefresh, TLC

RequestSymmetry == Permutations(RequestIds) \cup Permutations(Slots)
=============================================================================
