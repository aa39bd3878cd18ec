------------------------- MODULE MCStartupRecovery -------------------------
(***************************************************************************)
(* StartupRecovery for TLC: documents are interchangeable.                 *)
(***************************************************************************)
EXTENDS StartupRecovery, TLC

Symmetry == Permutations(Doc)
============================================================================
