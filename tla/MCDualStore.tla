---------------------------- MODULE MCDualStore ----------------------------
(***************************************************************************)
(* Constants of DualStore for TLC.                                         *)
(***************************************************************************)
EXTENDS SerialStore, TLC

CONSTANTS d1, d2, v1, v2

\* Two versions of different lengths.
MCSize == [v \in Version |-> IF v = v1 THEN 1 ELSE 2]
============================================================================
