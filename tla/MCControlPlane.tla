--------------------------- MODULE MCControlPlane ---------------------------
(* ControlPlane on few devices, commands and batches, but more of each than *)
(* the memories hold.  Names of commands are interchangeable.               *)
EXTENDS ControlPlane

Symmetry == Permutations(CommandIds) \union Permutations(Nonces) \union Permutations(Actors)
=============================================================================
