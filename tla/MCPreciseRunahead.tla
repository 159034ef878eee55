------------------------- MODULE MCPreciseRunahead -------------------------
(* Small instances of PreciseRunahead.                                     *)
EXTENDS PreciseRunahead, TLC

(* Physical registers are interchangeable, and so are logical ones.        *)
Renaming == Permutations(Phys) \cup Permutations(Arch)
=============================================================================
