-------------------------- MODULE MCEventMembership --------------------------
(* TLC instance of EventMembership.                                         *)
EXTENDS EventMembership, TLC

MCSymmetry == Permutations(Workers)
=============================================================================
