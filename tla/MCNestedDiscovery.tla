--------------------------- MODULE MCNestedDiscovery ---------------------------
(***************************************************************************)
(* Two loads, one of the inner and one of the outer loop, and the backward  *)
(* branch C that closes the inner loop.                                     *)
(***************************************************************************)
EXTENDS NestedDiscovery, TLC

CONSTANTS A, B, C

MCPCs == {A, B, C}

MCLoads == {A, B}

MCEncloses == {<<C, A>>, <<C, B>>}

\* Either load may be the inner one: the two are interchangeable.
Symmetry == Permutations(MCLoads)
================================================================================
