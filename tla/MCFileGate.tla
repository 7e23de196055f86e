----------------------------- MODULE MCFileGate -----------------------------
(* TLC instances of FileGate. *)
EXTENDS FileGate, TLC

Symmetry == Permutations(Files)

=============================================================================
