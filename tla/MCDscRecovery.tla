---------------------------- MODULE MCDscRecovery ----------------------------
(* DSC with sub-system restart for TLC: one psoc with one vdev.            *)
EXTENDS DscRecovery, TLC

CONSTANTS p1, v1

OneVdev == v1 :> p1

ClientSymmetry == Permutations(Client)
=============================================================================
