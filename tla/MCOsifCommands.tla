--------------------------- MODULE MCOsifCommands ---------------------------
(* The commands of an SSR for TLC: two interfaces of one psoc.             *)
EXTENDS OsifCommands, TLC

CONSTANTS p1, v1, v2

SiblingVdevs == v1 :> p1 @@ v2 :> p1

ClientSymmetry == Permutations(Client)
=============================================================================
