--------------------------- MODULE MCHelperRegisters ---------------------------
(***************************************************************************)
(* Two registers, two values, and programs that write a vector register     *)
(* twice, load into one register and overwrite the trigger's, and compute   *)
(* from scalars alone.                                                      *)
(***************************************************************************)
EXTENDS HelperRegisters

Uop(dst, src0, src1) == [dst |-> dst, src0 |-> src0, src1 |-> src1,
                         load |-> FALSE]
LoadUop(dst, src0) == [dst |-> dst, src0 |-> src0, src1 |-> src0,
                       load |-> TRUE]

MCPrograms == {<<Uop(2, 1, 2), Uop(2, 1, 2)>>,
               <<LoadUop(2, 1), Uop(1, 1, 2)>>,
               <<Uop(2, 2, 2), LoadUop(1, 1)>>}
MCBranches == {[src0 |-> 1, src1 |-> 2]}
MCEvaluate(x, y) == (x + y + 1) % 2
================================================================================
