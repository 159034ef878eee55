--------------------------- MODULE MCLanePredicates ---------------------------
(* Bits, dependent loads and lanes are interchangeable: every action treats  *)
(* the members of these sets alike.                                          *)
EXTENDS LanePredicates, TLC

Renaming == Permutations(Bits) \cup Permutations(Loads) \cup Permutations(Lanes)
================================================================================
