---------------------------- MODULE MCStrideDetector ---------------------------
(***************************************************************************)
(* Three load PCs, interchangeable, over a table of two slots, so that      *)
(* replacement happens.                                                     *)
(***************************************************************************)
EXTENDS StrideDetector, TLC

CONSTANTS A, B, C

MCPCs == {A, B, C}

Symmetry == Permutations(MCPCs)
================================================================================
