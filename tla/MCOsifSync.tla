----------------------------- MODULE MCOsifSync -----------------------------
(* The registry for TLC: a psoc with two vdevs, and the symmetries of      *)
(* the clients and of the vdevs.                                           *)
EXTENDS OsifSync, TLC

CONSTANTS p1, v1, v2

SiblingVdevs == v1 :> p1 @@ v2 :> p1

Symmetry == Permutations(Client) \cup Permutations(Vdevs)
=============================================================================
