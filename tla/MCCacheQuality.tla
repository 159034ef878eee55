---------------------------- MODULE MCCacheQuality ----------------------------
(* One set of two ways and the lines that compete for it.                    *)
EXTENDS CacheQuality, TLC

Symmetry == Permutations(Lines)
================================================================================
