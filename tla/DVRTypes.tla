------------------------------- MODULE DVRTypes --------------------------------
(***************************************************************************)
(* The parameters shared by the Discovery components: program counters (0   *)
(* in the code, NoPC here, means "none"), tracked integer registers, and    *)
(* the view the components have of an instruction: its PC, whether it is a  *)
(* load, and the tracked registers it reads and writes (tracked() drops     *)
(* every other register).                                                  *)
(***************************************************************************)
CONSTANTS PCs, NoPC, Regs

ASSUME NoPCAssumption == NoPC \notin PCs

DVRInst == [pc : PCs, load : BOOLEAN, srcs : SUBSET Regs, dests : SUBSET Regs]
================================================================================
