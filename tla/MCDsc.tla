------------------------------- MODULE MCDsc -------------------------------
(* DSC for TLC: the shapes of the context tree the runs use, by the parent *)
(* of each vdev, and the symmetry of the clients and of sibling vdevs.     *)
EXTENDS DscRefine, TLC

CONSTANTS p1, v1, v2

OneVdev == v1 :> p1
SiblingVdevs == v1 :> p1 @@ v2 :> p1

Symmetry == Permutations(Client) \cup Permutations(Vdevs)
=============================================================================
