------------------------------ MODULE LaneRegisters ----------------------------
(***************************************************************************)
(* What the helper's register file promises to a replay lane: registers of  *)
(* its own.  A uop computes, in each lane of its group, from the lane's own *)
(* sources into the lane's own destination; a load returns into one         *)
(* register of one lane; nothing else moves.                                *)
(***************************************************************************)
EXTENDS Naturals

CONSTANTS
    Arch,               \* architectural registers, x0 apart
    Lanes,              \* replay lanes of a launch
    Values,             \* register values
    Evaluate(_, _)      \* what a uop computes

VARIABLE regs           \* [Arch -> [Lanes -> Values]]

\* A launch copies one snapshot of the main thread into every lane.
Init == \E snapshot \in [Arch -> Values] :
            regs = [arch \in Arch |-> [lane \in Lanes |-> snapshot[arch]]]

Compute(dst, src0, src1, group) ==
    regs' = [regs EXCEPT ![dst] =
                [lane \in Lanes |->
                    IF lane \in group
                    THEN Evaluate(regs[src0][lane], regs[src1][lane])
                    ELSE regs[dst][lane]]]

Load(dst, lane, v) == regs' = [regs EXCEPT ![dst][lane] = v]

Next ==
    \/ \E dst, src0, src1 \in Arch, group \in SUBSET Lanes :
          Compute(dst, src0, src1, group)
    \/ \E dst \in Arch, lane \in Lanes, v \in Values : Load(dst, lane, v)

Spec == Init /\ [][Next]_regs
================================================================================
